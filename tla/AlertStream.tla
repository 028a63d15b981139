----------------------------- MODULE AlertStream -----------------------------
(***************************************************************************)
(* What ingest promises whatever the files are called: from the position   *)
(* it first checkpointed on, every record of every file is dealt with in   *)
(* order, and a file is left only when nothing in it is undealt with.      *)
(***************************************************************************)
EXTENDS Naturals, Sequences

CONSTANTS
    MaxFiles, Kinds, NoFile,
    Ignored,  \* the kind of record that needs no row
    Preset    \* whether the cursor is set before anything is dealt with

VARIABLES
    log,      \* the records of each file, in order
    cursor,   \* how far the stream was dealt with: a file and a position
    handled   \* records that are durably triaged or quarantined

Nowhere == [file |-> NoFile, pos |-> 0]
NeedsRow(k) == k # Ignored

Init ==
    /\ log = [f \in 1..MaxFiles |-> <<>>]
    /\ cursor = Nowhere
    /\ handled = {}

\* Records arrive in the cursor's file or in a younger one.
Arrive ==
    \E f \in 1..MaxFiles, k \in Kinds :
        /\ cursor # Nowhere => f >= cursor.file
        /\ log' = [log EXCEPT ![f] = Append(@, k)]
        /\ UNCHANGED <<cursor, handled>>

\* The record at the cursor is made durable, once or again after a crash.
Handle ==
    LET next == IF cursor = Nowhere THEN 1 ELSE cursor.pos + 1 IN
    \E f \in 1..MaxFiles :
        /\ cursor # Nowhere => f = cursor.file
        /\ next <= Len(log[f])
        /\ NeedsRow(log[f][next])
        /\ handled' = handled \cup {<<f, next>>}
        /\ UNCHANGED <<log, cursor>>

\* The head or the tail of the file that is live at the first start, or else the
\* first record checkpointed, in whatever file is then live.
Adopt ==
    /\ cursor = Nowhere
    /\ \E f \in 1..MaxFiles :
        \/ Preset /\ \E p \in {0, Len(log[f])} : cursor' = [file |-> f, pos |-> p]
        \/ /\ ~Preset
           /\ Len(log[f]) >= 1
           /\ NeedsRow(log[f][1]) => <<f, 1>> \in handled
           /\ cursor' = [file |-> f, pos |-> 1]
    /\ UNCHANGED <<log, handled>>

Advance ==
    /\ cursor # Nowhere
    /\ cursor.pos < Len(log[cursor.file])
    /\ NeedsRow(log[cursor.file][cursor.pos + 1])
            => <<cursor.file, cursor.pos + 1>> \in handled
    /\ cursor' = [cursor EXCEPT !.pos = @ + 1]
    /\ UNCHANGED <<log, handled>>

\* Only a file without further records is left, and for the next one.
Follow ==
    /\ cursor # Nowhere
    /\ cursor.pos = Len(log[cursor.file])
    /\ cursor.file < MaxFiles
    /\ cursor' = [file |-> cursor.file + 1, pos |-> 0]
    /\ UNCHANGED <<log, handled>>

Next == Arrive \/ Handle \/ Adopt \/ Advance \/ Follow

Spec == Init /\ [][Next]_<<log, cursor, handled>>
=============================================================================
