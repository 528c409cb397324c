-------------------------- MODULE BoundedAuthority --------------------------
(***************************************************************************)
(* What a release token promises, whoever stores it: an authority is       *)
(* opened at most once, is used at most `limit` times, and once closed it  *)
(* is neither used nor opened again.  The in-memory and file-backed        *)
(* registry (ReleaseTokenRegistry) and the shared PostgreSQL registry      *)
(* (SharedTokenRegistry) are both shown to implement this specification.   *)
(***************************************************************************)
EXTENDS Naturals

CONSTANT Authorities    \* identities of the authorities (token ids)

VARIABLES
    phase,              \* phase[a]: "unopened", "live" or "closed"
    limit,              \* limit[a]: how often a may be used, fixed when it is opened
    uses                \* uses[a]: how often a was used

avars == <<phase, limit, uses>>

AInit ==
    /\ phase = [a \in Authorities |-> "unopened"]
    /\ limit = [a \in Authorities |-> 0]
    /\ uses  = [a \in Authorities |-> 0]

\* a starts to exist, with a positive number of uses.
Open(a) ==
    /\ phase[a] = "unopened"
    /\ phase' = [phase EXCEPT ![a] = "live"]
    /\ limit'[a] \in Nat \ {0}
    /\ limit' = [limit EXCEPT ![a] = limit'[a]]
    /\ UNCHANGED uses

\* Some live authorities end: by revocation or by expiry, one or many at a time.
Close(S) ==
    /\ \A a \in S : phase[a] = "live"
    /\ phase' = [a \in Authorities |-> IF a \in S THEN "closed" ELSE phase[a]]
    /\ UNCHANGED <<limit, uses>>

\* a is used once; the last use closes it.  Others may end in the same step.
Use(a, S) ==
    /\ \A b \in S : phase[b] = "live"
    /\ a \notin S
    /\ phase[a] = "live"
    /\ uses[a] < limit[a]
    /\ uses' = [uses EXCEPT ![a] = @ + 1]
    /\ phase' = [b \in Authorities |->
                    IF b \in S \/ (b = a /\ uses[a] + 1 = limit[a])
                        THEN "closed" ELSE phase[b]]
    /\ UNCHANGED limit

ANext ==
    \/ \E a \in Authorities : Open(a)
    \/ \E S \in SUBSET Authorities : Close(S)
    \/ \E a \in Authorities, S \in SUBSET Authorities : Use(a, S)

ASpec == AInit /\ [][ANext]_avars
=============================================================================
