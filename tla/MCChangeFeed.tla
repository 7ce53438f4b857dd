----------------------------- MODULE MCChangeFeed -----------------------------
(* ChangeFeed with sets small enough to explore exhaustively.              *)
EXTENDS ChangeFeed, TLC

\* The operator's commands are interchangeable, and so are tools and isolates.
Symmetry == Permutations(Client) \cup Permutations(Tool) \cup Permutations(Isolate)

\* What no later step and no property depends on: the count a turn announced last, the
\* number of a command that is over, and where a poller is that was told of a gap.
Commands == [c \in Command |-> IF command[c].pc = "read" THEN command[c] ELSE [command[c] EXCEPT !.at = 0]]
Pollers == [r \in Poller |->
    IF poller[r].gap THEN [pc |-> "idle", since |-> 0, now |-> 0, got |-> {}, gap |-> TRUE] ELSE poller[r]]
Turns == [i \in Isolate |-> [turn[i] EXCEPT !.seen = 0]]

View == <<counter, rows, by, during, Commands, Pollers, baseline, Turns, told, excused, turns>>

=============================================================================
