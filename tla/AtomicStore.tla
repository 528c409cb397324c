---------------------------- MODULE AtomicStore ----------------------------
(***************************************************************************)
(* What the stores that share one file promise to their callers: mutations *)
(* take effect one after the other, each on the content the one before it  *)
(* left, and a caller is answered only when its mutation is in the file.   *)
(* The content is the sequence of callers whose mutations it contains.     *)
(***************************************************************************)
EXTENDS Naturals, Sequences

CONSTANT Callers

VARIABLES
    content,        \* the mutations in the file, in order, by caller
    applied,        \* applied[c]: how many of them are c's
    answered        \* answered[c]: mutations of c that returned

svars == <<content, applied, answered>>

SInit ==
    /\ content = <<>>
    /\ applied = [c \in Callers |-> 0]
    /\ answered = [c \in Callers |-> 0]

Mutate(c) ==
    /\ content' = Append(content, c)
    /\ applied' = [applied EXCEPT ![c] = @ + 1]
    /\ UNCHANGED answered

Return(c) ==
    /\ answered[c] < applied[c]
    /\ answered' = [answered EXCEPT ![c] = @ + 1]
    /\ UNCHANGED <<content, applied>>

SNext == \E c \in Callers : Mutate(c) \/ Return(c)

SSpec == SInit /\ [][SNext]_svars
=============================================================================
