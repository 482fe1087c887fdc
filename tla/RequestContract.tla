--------------------------- MODULE RequestContract ---------------------------
(***************************************************************************)
(* What a call of the request pipeline promises (spec section 4.1):        *)
(* execute(method, path, ...) makes at most MaxTries attempts; it ends at  *)
(* most once, with a decoded value or a failure, and what it ended with    *)
(* never changes afterwards; a transient failure surfaces only once every  *)
(* attempt was spent.  A failure can end an attempt at once; a value comes *)
(* only from an answer to an attempt already made.                         *)
(***************************************************************************)
EXTENDS Naturals

CONSTANTS
    Calls,     \* the calls of execute
    MaxTries,  \* the configured maximum attempt count
    Transient, \* the transient failures: transport timeouts, connect errors
    None       \* the result of a call that has not ended

VARIABLES
    tries,  \* tries[c]: attempts call c made
    result  \* result[c]: None, or a record with fields kind ("value" or
            \* "raise") and exc (the failure)

\* Call c ends in this step, after n attempts, and no other call changes.
Settle(c, n) ==
    /\ result' = [result EXCEPT ![c] = result'[c]]
    /\ result'[c] # None
    /\ result'[c].kind \in {"value", "raise"}
    /\ result'[c].kind = "raise" /\ result'[c].exc \in Transient => n = MaxTries

\* Call c makes one more attempt; a failure to connect may end it there.
Attempt(c) ==
    /\ result[c] = None
    /\ tries[c] < MaxTries
    /\ tries' = [tries EXCEPT ![c] = @ + 1]
    /\ \/ UNCHANGED result
       \/ Settle(c, tries'[c]) /\ result'[c].kind = "raise"

\* Call c ends after the attempts it made.
Finish(c) ==
    /\ result[c] = None
    /\ tries[c] >= 1
    /\ Settle(c, tries[c])
    /\ UNCHANGED tries

Init ==
    /\ tries = [c \in Calls |-> 0]
    /\ result = [c \in Calls |-> None]

Next == \E c \in Calls : Attempt(c) \/ Finish(c)

Spec == Init /\ [][Next]_<<tries, result>>

=============================================================================
