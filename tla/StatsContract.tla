---------------------------- MODULE StatsContract ----------------------------
(***************************************************************************)
(* What the dashboard's caches promise a reader, whoever fills them: a     *)
(* number that left circulation does not come back.  Under one key a       *)
(* number enters circulation only while it is current, and an answer is    *)
(* made of numbers in circulation, or current, when it is given.           *)
(***************************************************************************)
EXTENDS Naturals

CONSTANTS
    Keys,       \* pairs of a family of keys and the scope the numbers are about
    Readers

VARIABLES
    current,        \* scope -> the version of its statistics
    circulating,    \* key -> versions a later answer under the key may hold
    answer          \* reader -> versions of the answer it holds, {} without one

contractVars == <<current, circulating, answer>>

Init ==
    /\ current = [s \in DOMAIN current |-> 0]
    /\ circulating = [k \in Keys |-> {}]
    /\ answer = [r \in Readers |-> {}]

Grows == \A s \in DOMAIN current : current'[s] \in {current[s], current[s] + 1}

OnlyCurrentEnters ==
    \A k \in Keys : circulating'[k] \subseteq circulating[k] \cup {current[k[2]]}

AnswersCirculate ==
    \A r \in Readers :
        \/ answer'[r] \in {answer[r], {}}
        \/ \E k \in Keys : answer'[r] \subseteq circulating[k] \cup {current[k[2]]}

Next == Grows /\ OnlyCurrentEnters /\ AnswersCirculate

Spec == Init /\ [][Next]_contractVars

=============================================================================
