-------------------------------- MODULE Seam7 --------------------------------
(****************************************************************************)
(* The capability token of seam7_delegation.py, as pure operators: minting  *)
(* a root, attenuating it down a hop, and verifying what is presented.      *)
(*                                                                          *)
(* Data is abstracted to what the checks tell apart.  A capability mask is  *)
(* a set of capability bits, so that & is \cap and a mask test is \subseteq.*)
(* The HMAC is symbolic and collision free: Hmac(key, msg) is the sequence  *)
(* key with msg appended, hence two tags agree exactly when the same key    *)
(* signed the same messages in the same order.  A nonce remembers the root  *)
(* it was mined for and the leading zero bits it reaches there.  Time and   *)
(* budget are natural numbers.                                              *)
(****************************************************************************)
EXTENDS Naturals, Sequences, SequencesExt

CONSTANT None     \* Python's None: no claims, no holder key

KnownCaveats == {"cap", "exp", "budget", "actor", "holder"}

Hmac(key, msg) == Append(key, msg)

Least(a, b) == IF a <= b THEN a ELSE b

-----------------------------------------------------------------------------
(* Proof of work *)

Mine(root, difficulty) == [root |-> root, bits |-> difficulty]

PowValid(root, nonce, difficulty) ==
  difficulty = 0 \/ (nonce.root = root /\ nonce.bits >= difficulty)

-----------------------------------------------------------------------------
(* The token: a signed identifier, a chain of caveats, the folded signature *)

MintRoot(secret, root, caps, exp, budget, difficulty) ==
  LET identifier == [root |-> root, caps |-> caps, exp |-> exp, budget |-> budget,
                     nonce |-> Mine(root, difficulty), difficulty |-> difficulty]
  IN  [identifier |-> identifier, caveats |-> <<>>, sig |-> Hmac(secret, identifier)]

Chain(token, caveat) ==
  [token EXCEPT !.sig = Hmac(@, caveat), !.caveats = Append(@, caveat)]

(* kw holds the keyword arguments that were given; an argument left at None  *)
(* adds no caveat.  The order of the five tests is the order of the chain.   *)
Caveats(kw) ==
  LET given(arg, caveat) == IF arg \in DOMAIN kw THEN <<caveat>> ELSE <<>>
  IN  given("caps", [t |-> "cap", mask |-> kw.caps])
      \o given("exp", [t |-> "exp", exp |-> kw.exp])
      \o given("budget", [t |-> "budget", v |-> kw.budget])
      \o given("actor", [t |-> "actor", id |-> kw.actor])
      \o given("holder", [t |-> "holder", key |-> kw.holder])

Attenuate(token, kw) == FoldLeft(Chain, token, Caveats(kw))

-----------------------------------------------------------------------------
(* Verification *)

RootClaims(ident) ==
  [ok |-> TRUE, accountable_root |-> ident.root, actor |-> ident.root,
   caps |-> ident.caps, exp |-> ident.exp, budget |-> ident.budget,
   depth |-> 0, holder |-> None]

(* One caveat folded into the claims.  (Narrow_latest is the wrong form the  *)
(* mutation runs use: the last mask replaces the ones before it.)            *)
Narrow_latest(claims, c) ==
  CASE c.t = "cap"    -> [claims EXCEPT !.caps = c.mask]
    [] c.t = "exp"    -> [claims EXCEPT !.exp = Least(@, c.exp)]
    [] c.t = "budget" -> [claims EXCEPT !.budget = c.v]
    [] c.t = "actor"  -> [claims EXCEPT !.actor = c.id, !.depth = @ + 1]
    [] c.t = "holder" -> [claims EXCEPT !.holder = c.key]
Narrow(claims, c) ==
  CASE c.t = "cap"    -> [claims EXCEPT !.caps = @ \cap c.mask]
    [] c.t = "exp"    -> [claims EXCEPT !.exp = Least(@, c.exp)]
    [] c.t = "budget" -> [claims EXCEPT !.budget = Least(@, c.v)]
    [] c.t = "actor"  -> [claims EXCEPT !.actor = c.id, !.depth = @ + 1]
    [] c.t = "holder" -> [claims EXCEPT !.holder = c.key]

Refuse(why) == [ok |-> FALSE, error |-> why]

(* The claims of a token, or the reason it is refused; the first failing     *)
(* check decides.  `now` is given by every caller of the authorization gate. *)
Verify(token, secret, now) ==
  LET ident  == token.identifier
      claims == FoldLeft(Narrow, RootClaims(ident), token.caveats)
  IN  IF ~PowValid(ident.root, ident.nonce, ident.difficulty) THEN Refuse("unminted")
      ELSE IF \E i \in DOMAIN token.caveats : token.caveats[i].t \notin KnownCaveats
           THEN Refuse("unknown caveat")
      ELSE IF FoldLeft(Hmac, Hmac(secret, ident), token.caveats) # token.sig
           THEN Refuse("signature mismatch")
      ELSE IF now >= claims.exp THEN Refuse("expired")
      ELSE claims
=============================================================================
