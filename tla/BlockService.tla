---------------------------- MODULE BlockService ----------------------------
(***************************************************************************)
(* What the controller relies on when it calls a backend                   *)
(* (types.ReaderWriterUnmapperAt): an operation takes effect at most once, *)
(* a success is reported after it took effect, and a read that succeeds    *)
(* returns what the block held then.  An operation reported as failed may  *)
(* have taken effect or may still do so, and may then leave anything.      *)
(***************************************************************************)
EXTENDS Integers

CONSTANTS
    Req,         \* the operations
    Effect(_, _) \* Effect(r, x): the content of the block after r found x

VARIABLES
    called,      \* operations that were called
    applied,     \* operation -> content of the block once it took effect
    answer,      \* operation -> what the caller was told
    disk         \* content of the block

vars == <<called, applied, answer, disk>>

None == -2
Error == -1
Torn == -3

Init ==
    /\ called = {} /\ disk = 0
    /\ applied = [r \in Req |-> None]
    /\ answer = [r \in Req |-> None]

Call(r) ==
    /\ r \notin called
    /\ called' = called \cup {r}
    /\ UNCHANGED <<applied, answer, disk>>

Apply(r) ==
    /\ r \in called /\ applied[r] = None
    /\ disk' = Effect(r, disk)
    /\ applied' = [applied EXCEPT ![r] = disk']
    /\ UNCHANGED <<called, answer>>

ApplyTorn(r) ==
    /\ r \in called /\ answer[r] = Error /\ applied[r] = None
    /\ disk' = Torn
    /\ applied' = [applied EXCEPT ![r] = disk']
    /\ UNCHANGED <<called, answer>>

Succeed(r) ==
    /\ r \in called /\ answer[r] = None /\ applied[r] # None
    /\ answer' = [answer EXCEPT ![r] = applied[r]]
    /\ UNCHANGED <<called, applied, disk>>

\* One fault of the connection fails all operations in progress.
Fail(S) ==
    /\ S # {} /\ S \subseteq called /\ \A r \in S : answer[r] = None
    /\ answer' = [r \in Req |-> IF r \in S THEN Error ELSE answer[r]]
    /\ UNCHANGED <<called, applied, disk>>

Next ==
    \/ \E r \in Req : Call(r) \/ Apply(r) \/ ApplyTorn(r) \/ Succeed(r)
    \/ \E S \in SUBSET Req : Fail(S)

Spec == Init /\ [][Next]_vars

=============================================================================
