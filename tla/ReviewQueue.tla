----------------------------- MODULE ReviewQueue -----------------------------
(***************************************************************************)
(* services.py: one analyst who pages through the review queue, searches   *)
(* it and steps from an alert to its neighbours, while ingest inserts,     *)
(* retention prunes and other analysts review.  Every SELECT is a snapshot *)
(* of its own; a page, a search and a pair of neighbours take several.     *)
(*                                                                         *)
(* A cursor, a ceiling and a floor hold (processed_at, id); both columns   *)
(* are written once and ids are never reused, so here the id stands for    *)
(* the pair, also after its row is gone.                                   *)
(***************************************************************************)
EXTENDS Naturals, FiniteSets, SequencesExt

CONSTANTS
    MaxRows,        \* bound on the rows
    MaxTime,        \* bound on the values of processed_at
    CandidateLimit, \* MAX_QUEUE_SEARCH_CANDIDATE_ROWS
    PageLimit,      \* limit
    Reviews,        \* review states: "unreviewed", "agreed", "corrected"
    Filters,        \* values of the review filter that are asked for
    NoWindow

ASSUME QueueAssumption ==
    /\ {MaxRows, MaxTime} \subseteq Nat
    /\ {CandidateLimit, PageLimit} \subseteq Nat \ {0}
    /\ "unreviewed" \in Reviews
    /\ Filters \subseteq Reviews \cup {"any"}

Null == 0
None == 0

\* kept: not pruned.  Only the review state of a row changes: one that fails
\* another filter, or the text of a search, is as one reviewed in time.
Row == [at : Null..MaxTime, review : Reviews, kept : BOOLEAN]
Kinds == {"page", "next", "previous"}

\* QueueSearchWindow: a watermark, the boundaries and the size of a search.
Window == [max : 0..MaxRows, ceiling : 0..MaxRows, floor : 0..MaxRows,
           inScope : 0..CandidateLimit, truncated : BOOLEAN]

ASSUME WindowAssumption == NoWindow \notin Window

VARIABLES
    rows,       \* triage_events, by id
    pc,         \* of the request: "idle", "watermark", "window", "read" or "refused"
    query,      \* what it asks: kind, search, review filter
    window,     \* QueueSearchWindow of the search, or NoWindow
    position,   \* the cursor of the next page, or the alert whose neighbour is sought
    seek,       \* the seek of _fetch_neighbors that comes next
    shown,      \* the ids shown, in order
    candidates, \* the rows that were in the window when it was captured
    throughout  \* the rows that matched at every moment since the request began

readerVars == <<pc, query, window, position, seek>>
vars == <<rows, readerVars, shown, candidates, throughout>>

-----------------------------------------------------------------------------
(* Queue order: processed_at DESC NULLS LAST, id DESC.                     *)

At(i) == rows[i].at
Kept == {i \in DOMAIN rows : rows[i].kept}

Precedes(i, j) == At(i) > At(j) \/ (At(i) = At(j) /\ i > j)

\* ORDER BY: the rows of S once each, in queue order.
InOrder(S) ==
    CHOOSE f \in [1..Cardinality(S) -> S] :
        \A i, j \in DOMAIN f : i < j => Precedes(f[i], f[j])

First(S, n) == SubSeq(InOrder(S), 1, IF Cardinality(S) < n THEN Cardinality(S) ELSE n)

\* (processed_at, id) <= (?, ?) of SQL, which a NULL does not satisfy.
NotAbove(i, j) == At(i) # Null /\ (At(i) < At(j) \/ (At(i) = At(j) /\ i <= j))
NotBelow(i, j) == At(i) # Null /\ (At(i) > At(j) \/ (At(i) = At(j) /\ i >= j))

-----------------------------------------------------------------------------
(* The window of a search.                                                 *)

\* Mutant: the oldest candidate is not a boundary.
WithinUnbounded(i, w) ==
    /\ i <= w.max
    /\ w.ceiling # None
    /\ (At(i) = Null \/ NotAbove(i, w.ceiling))

Within(i, w) ==
    /\ i <= w.max
    /\ w.ceiling # None
    /\ \/ /\ At(w.ceiling) = Null
          /\ At(i) = Null /\ i <= w.ceiling /\ i >= w.floor
       \/ /\ At(w.ceiling) # Null /\ At(w.floor) = Null
          /\ NotAbove(i, w.ceiling) \/ (At(i) = Null /\ i >= w.floor)
       \/ /\ At(w.ceiling) # Null /\ At(w.floor) # Null
          /\ NotAbove(i, w.ceiling) /\ NotBelow(i, w.floor)

Candidates(w) == ToSet(First({i \in Kept : Within(i, w)}, CandidateLimit))

\* Mutant: the row read beyond the limit is counted.
NewWindowCounting(max) ==
    LET newest == InOrder({i \in Kept : i <= max})
        n == IF Len(newest) <= CandidateLimit THEN Len(newest) ELSE CandidateLimit + 1
    IN [max |-> max,
        ceiling |-> IF n = 0 THEN None ELSE newest[1],
        floor |-> IF n = 0 THEN None ELSE newest[n],
        inScope |-> n,
        truncated |-> Len(newest) > CandidateLimit]

NewWindow(max) ==
    LET newest == InOrder({i \in Kept : i <= max})
        n == IF Len(newest) < CandidateLimit THEN Len(newest) ELSE CandidateLimit
    IN [max |-> max,
        ceiling |-> IF n = 0 THEN None ELSE newest[1],
        floor |-> IF n = 0 THEN None ELSE newest[n],
        inScope |-> n,
        truncated |-> Len(newest) > CandidateLimit]

\* What _search_window_from_payload and decode_cursor accept.
Accepted(w, cursor) ==
    /\ cursor <= w.max
    /\ w.ceiling <= w.max /\ w.floor <= w.max
    /\ w.inScope <= CandidateLimit
    /\ w.truncated => w.inScope = CandidateLimit
    /\ (w.ceiling = None) = (w.inScope = 0)
    /\ (w.floor = None) = (w.inScope = 0)
    /\ w.inScope # 0 =>
          IF At(w.ceiling) = Null THEN At(w.floor) = Null /\ w.ceiling >= w.floor
          ELSE At(w.floor) # Null => ~(At(w.ceiling) < At(w.floor)
                                       \/ (At(w.ceiling) = At(w.floor)
                                           /\ w.ceiling < w.floor))

Passes(i, q) == q.review \in {"any", rows[i].review}

\* The rows the WHERE clause leaves.
Matching ==
    {i \in Kept :
        /\ Passes(i, query)
        /\ query.search => i \in Candidates(window)}

-----------------------------------------------------------------------------
(* Other actors.                                                           *)

StillMatching(S, newRows) ==
    {i \in S : newRows[i].kept /\ query.review \in {"any", newRows[i].review}}

\* A writer takes the time before it takes the lock, so that a row may come
\* after rows with a later time.
InsertRow(at) ==
    /\ Len(rows) < MaxRows
    /\ rows' = Append(rows, [at |-> at, review |-> "unreviewed", kept |-> TRUE])
    /\ UNCHANGED <<readerVars, shown, candidates, throughout>>

\* The oldest first, never a row without processed_at; rows that were reviewed
\* only under --include-reviewed.  What is left of a pruned row is its place.
PruneRow(i, reviewed) ==
    LET Due == {j \in Kept : At(j) # Null /\ (reviewed \/ rows[j].review = "unreviewed")} IN
    /\ i \in Due
    /\ \A j \in Due : j = i \/ Precedes(j, i)
    /\ rows' = [rows EXCEPT ![i] = [@ EXCEPT !.review = "unreviewed", !.kept = FALSE]]
    /\ throughout' = StillMatching(throughout, rows')
    /\ UNCHANGED <<readerVars, shown, candidates>>

SubmitFeedback(i, review) ==
    /\ i \in Kept /\ review # "unreviewed" /\ review # rows[i].review
    /\ rows' = [rows EXCEPT ![i].review = review]
    /\ throughout' = StillMatching(throughout, rows')
    /\ UNCHANGED <<readerVars, shown, candidates>>

-----------------------------------------------------------------------------
(* The analyst.                                                            *)

\* Mutant: the page goes on after the row that was read beyond it.
CursorBeyond(page) == page[PageLimit + 1]

CursorOf(page) == page[PageLimit]

\* The predicate of the cursor.
After(i, c) ==
    \/ /\ At(c) # Null
       /\ \/ At(i) # Null /\ At(i) < At(c)
          \/ At(i) = At(c) /\ i < c
          \/ At(i) = Null
    \/ At(c) = Null /\ At(i) = Null /\ i < c

\* The queue, filtered or searched, is loaded anew.
LoadQueue(search, review) ==
    /\ pc = "idle"
    /\ query' = [kind |-> "page", search |-> search, review |-> review]
    /\ pc' = IF search THEN "watermark" ELSE "read"
    /\ window' = NoWindow /\ candidates' = {}
    /\ position' = None /\ seek' = 1 /\ shown' = <<>>
    /\ throughout' = {i \in Kept : Passes(i, query')}
    /\ UNCHANGED rows

\* An alert is opened, from the queue with its search window or by a link.
OpenAlert(i, kind, search, review, kept) ==
    /\ pc = "idle"
    /\ i \in Kept
    /\ kept => window # NoWindow /\ search
    /\ query' = [kind |-> kind, search |-> search, review |-> review]
    /\ IF kept THEN /\ UNCHANGED <<window, candidates>>
                    /\ pc' = IF Accepted(window, None) THEN "read" ELSE "refused"
       ELSE /\ window' = NoWindow /\ candidates' = {}
            /\ pc' = IF search THEN "watermark" ELSE "read"
    /\ position' = i /\ seek' = 1 /\ shown' = <<>>
    /\ throughout' = {j \in Kept : Passes(j, query')
                                   /\ (kept => j \in candidates)}
    /\ UNCHANGED rows

\* SELECT MAX(id), then the newest candidates up to it.
ReadWatermark ==
    /\ pc = "watermark"
    /\ window' = [max |-> IF Kept = {} THEN 0 ELSE CHOOSE i \in Kept : \A j \in Kept : j <= i,
                  ceiling |-> None, floor |-> None, inScope |-> 0, truncated |-> FALSE]
    /\ pc' = "window"
    /\ UNCHANGED <<rows, query, position, seek, shown, candidates, throughout>>

CaptureWindow ==
    /\ pc = "window"
    /\ window' = NewWindow(window.max)
    /\ candidates' = ToSet(First({i \in Kept : i <= window.max}, CandidateLimit))
    /\ throughout' = throughout \cap candidates'
    /\ pc' = "read"
    /\ UNCHANGED <<rows, query, position, seek, shown>>

\* One row more than the page is read, to know whether there is another page.
ReadPage ==
    LET rest == {i \in Matching : position = None \/ After(i, position)}
        page == First(rest, PageLimit + 1)
    IN /\ pc = "read" /\ query.kind = "page"
       /\ IF query.search /\ position # None /\ ~Accepted(window, position)
          THEN pc' = "refused" /\ UNCHANGED <<position, shown>>
          ELSE IF Len(page) > PageLimit
          THEN /\ shown' = shown \o SubSeq(page, 1, PageLimit)
               /\ position' = CursorOf(page)
               /\ pc' = "read"
          ELSE /\ shown' = shown \o page
               /\ position' = None
               /\ pc' = "idle"
       /\ UNCHANGED <<rows, query, window, seek, candidates, throughout>>

\* The seeks of _fetch_neighbors around a, each with the rows it ranges over.
Seeks(a, kind) ==
    CASE kind = "next" /\ At(a) # Null ->
            <<{i \in Matching : At(i) = At(a) /\ i < a},
              {i \in Matching : At(i) # Null /\ At(i) < At(a)},
              {i \in Matching : At(i) = Null}>>
      [] kind = "next" /\ At(a) = Null ->
            <<{i \in Matching : At(i) = Null /\ i < a}>>
      [] kind = "previous" /\ At(a) # Null ->
            <<{i \in Matching : At(i) = At(a) /\ i > a},
              {i \in Matching : At(i) > At(a)}>>
      [] kind = "previous" /\ At(a) = Null ->
            <<{i \in Matching : At(i) = Null /\ i > a},
              {i \in Matching : At(i) # Null}>>

\* One seek; the next one only when this one found nothing.
Seek ==
    LET seeks == Seeks(position, query.kind)
        found == InOrder(seeks[seek])
    IN /\ pc = "read" /\ query.kind # "page"
       /\ IF found # <<>>
          THEN /\ shown' = <<IF query.kind = "next" THEN Head(found) ELSE Last(found)>>
               /\ pc' = "idle" /\ seek' = 1
          ELSE /\ IF seek = Len(seeks) THEN pc' = "idle" /\ seek' = 1
                  ELSE pc' = "read" /\ seek' = seek + 1
               /\ UNCHANGED shown
       /\ UNCHANGED <<rows, query, window, position, candidates, throughout>>

-----------------------------------------------------------------------------
Init ==
    /\ rows = <<>>
    /\ pc = "idle"
    /\ query = [kind |-> "page", search |-> FALSE, review |-> "any"]
    /\ window = NoWindow
    /\ position = None /\ seek = 1
    /\ shown = <<>> /\ candidates = {} /\ throughout = {}

Next ==
    \/ \E at \in Null..MaxTime : InsertRow(at)
    \/ \E i \in DOMAIN rows, reviewed \in BOOLEAN : PruneRow(i, reviewed)
    \/ \E i \in DOMAIN rows, review \in Reviews : SubmitFeedback(i, review)
    \/ \E search \in BOOLEAN, review \in Filters : LoadQueue(search, review)
    \/ \E i \in DOMAIN rows, kind \in Kinds \ {"page"}, search, kept \in BOOLEAN,
          review \in Filters : OpenAlert(i, kind, search, review, kept)
    \/ ReadWatermark \/ CaptureWindow
    \/ ReadPage \/ Seek

Spec == Init /\ [][Next]_vars

-----------------------------------------------------------------------------
(* Properties.                                                             *)

\* Every variable has its declared shape, and no cursor or window that the server
\* issued is refused by it.
QueueTypeOK ==
    /\ rows \in Seq(Row) /\ Len(rows) <= MaxRows
    /\ pc \in {"idle", "watermark", "window", "read"}
    /\ query \in [kind : Kinds, search : BOOLEAN, review : Filters \cup {"any"}]
    /\ window \in Window \cup {NoWindow}
    /\ position \in 0..Len(rows)
    /\ seek \in 1..3
    /\ shown \in Seq(DOMAIN rows)
    /\ candidates \cup throughout \subseteq DOMAIN rows

Loaded == pc = "idle" /\ query.kind = "page"

\* Paging goes down the queue and shows no row twice; once it ends, it has shown
\* every row that matched from the first read to the last.  A neighbour is the
\* nearest row: none that matched throughout lies between.
NothingSkipped ==
    /\ query.kind = "page" =>
          \A k \in 1..(Len(shown) - 1) : Precedes(shown[k], shown[k + 1])
    /\ Loaded => throughout \subseteq ToSet(shown)
    /\ pc = "idle" /\ query.kind = "next" =>
          \A i \in throughout : Precedes(position, i) =>
              shown # <<>> /\ ~Precedes(i, shown[1])
    /\ pc = "idle" /\ query.kind = "previous" =>
          \A i \in throughout : Precedes(i, position) =>
              shown # <<>> /\ ~Precedes(shown[1], i)

\* "New alerts are excluded; retention can remove initial candidates but cannot
\* pull an older alert into their place ... previous and next never escape it"
\* (api.md): whatever is inserted or pruned, the boundaries select exactly the
\* initial candidates that are left, and nothing else is shown.
SearchFrozen ==
    window # NoWindow /\ pc # "window" =>
        /\ Candidates(window) = candidates \cap Kept
        /\ query.search => ToSet(shown) \subseteq candidates
=============================================================================
