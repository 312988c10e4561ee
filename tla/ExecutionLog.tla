----------------------------- MODULE ExecutionLog -----------------------------
(***************************************************************************)
(* The execution log and the console's log page: a reader goes through     *)
(* pages of newest entries first while entries are added at one end and    *)
(* trimmed at the other.  The reader waits for a page before the next;     *)
(* a page that the query cache still has is not modelled.                  *)
(***************************************************************************)
EXTENDS Settings

CONSTANTS
  Status,     \* final statuses
  PageSize,
  MaxId,      \* bound on the ids of entries
  LogSizes,   \* the values that log_max_size is set to
  NoPage,     \* the page is loading
  NoWalk      \* the reader has not been on the first page

ASSUME LogAssumption ==
  /\ PageSize \in Nat \ {0} /\ MaxId \in Nat
  /\ LogSizes \subseteq Nat

VARIABLES
  lastId,  \* the AUTOINCREMENT sequence
  filter,  \* the status of appliedFilters
  page,    \* the page
  shown,   \* what the answer said of the pages, or NoPage
  walk     \* history: the newest id when page 1 was answered, and all seen since

logVars == <<lastId, filter, page, shown, walk>>

All == "all"

LogInit ==
  /\ lastId = 0
  /\ filter = All /\ page = 1
  /\ shown = NoPage /\ walk = NoWalk

-----------------------------------------------------------------------------
(* writeLog of an instance that has ended.                                 *)
WriteLog(status) ==
  /\ lastId < MaxId
  /\ lastId' = lastId + 1
  /\ log' = Insert(log, [id |-> lastId + 1, status |-> status])
  /\ UNCHANGED <<setting, poolSize, filter, page, shown, walk>>

SetLogSize(n) ==
  /\ Put("log_max_size", n) \/ ImportSettings([k \in {"log_max_size"} |-> n])
  /\ UNCHANGED logVars

Matching(f) == {e \in log : f = All \/ e.status = f}

(* ORDER BY id DESC LIMIT limit OFFSET offset.                             *)
Rows(entries, limit, offset) ==
  {e \in entries :
     Cardinality({f \in entries : f.id > e.id}) \in offset .. offset + limit - 1}

OffsetByPage(p) ==  \* mutant: pages from 0
  p * PageSize

Offset(p) == (p - 1) * PageSize

Pages(total) == (total + PageSize - 1) \div PageSize

(* GET /log is answered, on a change of page or filter and on Refresh.     *)
PageArrives ==
  LET rows == Rows(Matching(filter), PageSize, Offset(page))
      total == Cardinality(Matching(filter))
  IN /\ shown' = [total |-> total, pages |-> Pages(total)]
     /\ walk' = IF page = 1 THEN [top |-> lastId, seen |-> rows]
                ELSE IF walk = NoWalk THEN NoWalk
                ELSE [walk EXCEPT !.seen = @ \cup rows]
     /\ UNCHANGED <<settingsVars, lastId, filter, page>>

(* The buttons are there when there are entries.                           *)
Turn(p) ==
  /\ shown # NoPage
  /\ shown.total > 0
  /\ page' = p
  /\ shown' = NoPage
  /\ UNCHANGED <<settingsVars, lastId, filter, walk>>

NextPage == shown # NoPage /\ page < shown.pages /\ Turn(page + 1)

PreviousPage == page > 1 /\ Turn(page - 1)

ApplyFilters(f) ==
  /\ <<f, 1>> # <<filter, page>>
  /\ filter' = f /\ page' = 1
  /\ shown' = NoPage /\ walk' = NoWalk
  /\ UNCHANGED <<settingsVars, lastId>>

-----------------------------------------------------------------------------
LogNext ==
  \/ \E status \in Status : WriteLog(status)
  \/ \E n \in LogSizes : SetLogSize(n)
  \/ PageArrives \/ NextPage \/ PreviousPage
  \/ \E f \in Status \cup {All} : ApplyFilters(f)

-----------------------------------------------------------------------------
(* Whoever reads on from the first page misses no entry that is still in   *)
(* the log: of those that were there at the start, all that are newer than *)
(* the oldest one seen have been seen, although entries come and go        *)
(* between the pages and the log is resized.                               *)
PagingMissesNothing ==
  walk # NoWalk =>
    \A e \in Matching(filter) :
      e.id <= walk.top /\ (\E s \in walk.seen : s.id < e.id) => e \in walk.seen
=============================================================================
