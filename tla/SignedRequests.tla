--------------------------- MODULE SignedRequests ---------------------------
(***************************************************************************)
(* Single use of signed requests.  A runner, a dispatcher or a signed      *)
(* session puts a timestamp and a random nonce under its signature.  The   *)
(* hub accepts the request when the timestamp is within Skew of its clock  *)
(* and the (principal, nonce) pair is not in its nonce table; the table    *)
(* forgets a pair once it was used more than Skew ago.                     *)
(*                                                                         *)
(* The three instants of one request differ: the skew check, the reading   *)
(* of "now" that is stored with the nonce, and the statement that prunes   *)
(* and inserts, with an await between each two of them.                    *)
(***************************************************************************)
EXTENDS Integers, Sequences

CONSTANTS
  Principal,  \* runner, dispatcher and session ids
  Nonce,      \* the nonces requests are signed with
  Skew,       \* SIGNATURE_MAX_SKEW_SECONDS
  Instant,    \* the timestamps in requests and the readings of the clock
  MaxClock    \* bound on the clock

ASSUME SkewAssumption == Skew \in Nat
ASSUME InstantAssumption == Instant \subseteq Int

VARIABLES
  clock,      \* seconds on the hub's clock
  nonces,     \* the rows of runner_nonces, dispatcher_nonces, session_nonces
  accepted    \* every request whose nonce was consumed, in order

signedVars == <<clock, nonces, accepted>>

Used == [who : Principal, nonce : Nonce, usedAt : Int]
Acceptance == [who : Principal, nonce : Nonce, ts : Int, checked : Int,
               usedAt : Int, consumed : Int]

SignedInit ==
  /\ clock = 0
  /\ nonces = {}
  /\ accepted = <<>>

Tick ==
  /\ clock < MaxClock
  /\ clock' = clock + 1
  /\ UNCHANGED <<nonces, accepted>>

\* check_timestamp_skew
InSkew(ts, at) == at - ts <= Skew /\ ts - at <= Skew

PruneCutoff == clock - Skew

\* The DELETE in front of the INSERT; its failure is ignored.
Pruned == {n \in nonces : n.usedAt >= PruneCutoff}
Remembered == {nonces, Pruned}

\* The PRIMARY KEY refuses a pair the table still holds.
Unknown(who, nonce, table) ==
  ~ \E n \in table : n.who = who /\ n.nonce = nonce

\* consume_agent_nonce_strict, consume_session_nonce
Consume(who, nonce, ts, checked, usedAt) ==
  \E table \in Remembered :
    /\ Unknown(who, nonce, table)
    /\ nonces' = table \cup {[who |-> who, nonce |-> nonce, usedAt |-> usedAt]}
    /\ accepted' = Append(accepted,
         [who |-> who, nonce |-> nonce, ts |-> ts, checked |-> checked,
          usedAt |-> usedAt, consumed |-> clock])
    /\ UNCHANGED clock

Refuse(who, nonce) ==
  \E table \in Remembered :
    /\ ~ Unknown(who, nonce, table)
    /\ nonces' = table
    /\ UNCHANGED <<clock, accepted>>

\* A request that was stamped ts, passed the skew check at `checked` and
\* read `usedAt` after it.
Request(who, nonce, ts, checked, usedAt) ==
  /\ checked <= usedAt
  /\ usedAt <= clock
  /\ InSkew(ts, checked)
  /\ Consume(who, nonce, ts, checked, usedAt) \/ Refuse(who, nonce)

SignedNext ==
  \/ Tick
  \/ \E who \in Principal, nonce \in Nonce :
       \E ts, checked, usedAt \in Instant : Request(who, nonce, ts, checked, usedAt)

SignedSpec == SignedInit /\ [][SignedNext]_signedVars

-----------------------------------------------------------------------------
SignedTypeOK ==
  /\ clock \in Int
  /\ nonces \subseteq Used
  /\ accepted \in Seq(Acceptance)

SameRequest(a, b) == a.who = b.who /\ a.nonce = b.nonce /\ a.ts = b.ts

(* How far the store's promise "a nonce older than the window cannot be    *)
(* replayed anyway" carries: one signed request is accepted a second time  *)
(* only if the second handler spent more time between its skew check and   *)
(* its nonce statement than the first stamp was old when it was used.  A   *)
(* sender whose clock does not lead, and a handler that does not stall,    *)
(* make the left side zero and the right side at least zero.               *)
RepeatNeedsDelay ==
  \A j \in DOMAIN accepted : \A i \in 1 .. (j - 1) :
    SameRequest(accepted[i], accepted[j]) =>
      accepted[j].consumed - accepted[j].checked > accepted[i].usedAt - accepted[i].ts

(* What the nonce table still knows of the requests accepted so far. *)
NoncesInv ==
  \A i \in DOMAIN accepted :
    \/ [who |-> accepted[i].who, nonce |-> accepted[i].nonce,
        usedAt |-> accepted[i].usedAt] \in nonces
    \/ accepted[i].usedAt < clock - Skew
=============================================================================
