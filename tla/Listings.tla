------------------------------ MODULE Listings ------------------------------
(***************************************************************************)
(* The paged listings.  queryAuditLogs and listProjects page by the key    *)
(* (createdAt, id) of the last row shown; listWorkspaces, listTasks and    *)
(* listFiles name that row and let Prisma skip to it in the order of       *)
(* createdAt alone.  Clients fetch page after page while rows are added,   *)
(* deleted, archived or hidden from them.                                  *)
(*                                                                         *)
(* One listing is under study at a time; its rows are those the client may *)
(* see.                                                                    *)
(***************************************************************************)
EXTENDS Integers, FiniteSets, SequencesExt

CONSTANTS Ids,       \* ids of rows, in their order
          Readers,   \* clients paging through the listing
          Limits,    \* values of the query parameter limit
          MaxNow,    \* bound of the clock
          MaxShown,  \* bound of the rows a client is shown
          NoCursor   \* no cursor

ASSUME ListingsAssumption ==
    /\ Ids \subseteq Nat /\ IsFiniteSet(Ids)
    /\ Limits \subseteq Int \ {0}
    /\ MaxNow \in Nat
    /\ MaxShown \in Nat
    /\ NoCursor \notin Ids

VARIABLES table,    \* the table that is listed
          item,     \* its rows
          now,      \* the clock
          reader    \* the clients

listingsVars == <<table, item, now, reader>>

-----------------------------------------------------------------------------
ByKey == {"logs", "projects"}

Tables == ByKey \cup {"workspaces", "tasks", "files"}

(* The limits a request may carry: the listings of workspaces and tasks    *)
(* validate theirs, the others take any number but zero.                   *)
LimitsOf(t) == IF t \in {"workspaces", "tasks"} THEN Limits \cap Nat ELSE Limits

ReaderStates ==
    [pc : {"idle", "reading", "end", "stuck"}, limit : Limits \cup {NoCursor},
     cursor : Ids \cup {NoCursor}, shown : Seq(Ids),
     owed : SUBSET Ids,      \* history: the rows listed ever since reading began
     lost : BOOLEAN]         \* history: the row of the cursor went away

NoReader == [pc |-> "idle", limit |-> NoCursor, cursor |-> NoCursor, shown |-> <<>>,
             owed |-> {}, lost |-> FALSE]

ListingsInit ==
    /\ table \in Tables
    /\ item = [i \in Ids |-> [state |-> "none", at |-> 0]]
    /\ now = 0
    /\ reader = [u \in Readers |-> NoReader]

Listed == {i \in Ids : item[i].state = "listed"}

-----------------------------------------------------------------------------
(* A row takes its createdAt before it is committed.                       *)
Stamp(i) ==
    /\ item[i].state = "none"
    /\ item' = [item EXCEPT ![i] = [state |-> "stamped", at |-> now]]
    /\ UNCHANGED <<table, now, reader>>

Commit(i) ==
    /\ item[i].state = "stamped"
    /\ item' = [item EXCEPT ![i].state = "listed"]
    /\ UNCHANGED <<table, now, reader>>

(* A project is archived, a member leaves a workspace, a task or a file is *)
(* deleted; nothing removes an audit entry.                                *)
Vanish(i) ==
    /\ table # "logs"
    /\ item[i].state = "listed"
    /\ item' = [item EXCEPT ![i].state = "gone"]
    /\ reader' = [u \in Readers |->
                    [reader[u] EXCEPT !.owed = @ \ {i},
                                      !.lost = @ \/ reader[u].cursor = i]]
    /\ UNCHANGED <<table, now>>

Tick ==
    /\ now < MaxNow
    /\ now' = now + 1
    /\ UNCHANGED <<table, item, reader>>

-----------------------------------------------------------------------------
(* orderBy createdAt desc, id desc.                                        *)
Before(i, j) == \/ item[i].at > item[j].at
                \/ item[i].at = item[j].at /\ i > j

ByKeyOrders(S) ==
    {s \in SetToSeqs(S) : \A m, n \in 1..Len(s) : m < n => Before(s[m], s[n])}

(* orderBy createdAt desc: rows of one instant come in any order, and in   *)
(* another one in the next query.                                          *)
Orders(S) ==
    {s \in SetToSeqs(S) :
        \A m, n \in 1..Len(s) : m < n => item[s[m]].at >= item[s[n]].at}

(* Mutant of AfterKey: the row of the cursor is not left out.              *)
FromKey(c) == {i \in Listed : c = NoCursor \/ ~Before(i, c)}

(* The rows after a key; the cursor holds createdAt and id, and neither    *)
(* changes.                                                                *)
AfterKey(c) == {i \in Listed : c = NoCursor \/ Before(c, i)}

(* cursor and skip: 1, from an ordered listing: the rows after that row,   *)
(* and none if it is not there.                                            *)
SkipTo(s, c) ==
    LET places == {n \in 1..Len(s) : s[n] = c}
    IN IF c = NoCursor THEN s
       ELSE IF places = {} THEN <<>>
       ELSE SubSeq(s, 1 + (CHOOSE n \in places : TRUE), Len(s))

(* Prisma's take: from the end when it is negative.                        *)
Take(s, n) == IF n >= 0 THEN SubSeq(s, 1, IF n < Len(s) THEN n ELSE Len(s))
              ELSE SubSeq(s, IF Len(s) + n < 0 THEN 1 ELSE Len(s) + n + 1, Len(s))

(* Mutant of Slice: one row short.                                         *)
SliceShort(s, n) == SubSeq(s, 1, (IF n < Len(s) THEN n ELSE Len(s)) - 1)

(* JavaScript's slice(0, n).                                               *)
Slice(s, n) == IF n >= 0 THEN SubSeq(s, 1, IF n < Len(s) THEN n ELSE Len(s))
               ELSE SubSeq(s, 1, Len(s) + n)

(* Mutant of HasMore: more than a whole page more.                         *)
HasMoreOffByOne(entries, limit) == Len(entries) > limit + 1

(* One row more than the limit is fetched to tell whether there is more.   *)
HasMore(entries, limit) == Len(entries) > limit

(* What a client makes of a page: with more and a cursor it goes on, with  *)
(* more and no cursor it cannot.                                           *)
Show(u, entries) ==
    LET limit == reader[u].limit
        more == HasMore(entries, limit)
        data == IF more THEN Slice(entries, limit) ELSE entries
    IN reader' = [reader EXCEPT
           ![u].shown = @ \o data,
           ![u].cursor = IF more /\ data # <<>> THEN Last(data) ELSE NoCursor,
           ![u].lost = FALSE,
           ![u].pc = CASE ~more -> "end"
                       [] more /\ data = <<>> -> "stuck"
                       [] OTHER -> "reading"]

-----------------------------------------------------------------------------
Ask(u) ==
    /\ reader[u].pc = "idle"
    /\ \E limit \in LimitsOf(table) :
          reader' = [reader EXCEPT ![u] =
              [NoReader EXCEPT !.pc = "reading", !.limit = limit, !.owed = Listed]]
    /\ UNCHANGED <<table, item, now>>

ShowAfterKey(u) ==
    \E s \in ByKeyOrders(AfterKey(reader[u].cursor)) :
        Show(u, Take(s, reader[u].limit + 1))

ShowAfterRow(u) ==
    \E s \in Orders(Listed) :
        Show(u, Take(SkipTo(s, reader[u].cursor), reader[u].limit + 1))

queryAuditLogs(u) == table = "logs" /\ ShowAfterKey(u)

listProjects(u) == table = "projects" /\ ShowAfterKey(u)

listWorkspaces(u) == table = "workspaces" /\ ShowAfterRow(u)

listTasks(u) == table = "tasks" /\ ShowAfterRow(u)

listFiles(u) == table = "files" /\ ShowAfterRow(u)

Fetch(u) ==
    /\ reader[u].pc = "reading"
    /\ Len(reader[u].shown) <= MaxShown
    /\ \/ queryAuditLogs(u) \/ listProjects(u)
       \/ listWorkspaces(u) \/ listTasks(u) \/ listFiles(u)
    /\ UNCHANGED <<table, item, now>>

ListingsNext ==
    \/ \E i \in Ids : Stamp(i) \/ Commit(i) \/ Vanish(i)
    \/ \E u \in Readers : Ask(u) \/ Fetch(u)
    \/ Tick

ListingsSpec == ListingsInit /\ [][ListingsNext]_listingsVars

(* A client that has a cursor asks for the next page.                      *)
FairListingsSpec == ListingsSpec /\ \A u \in Readers : WF_listingsVars(Fetch(u))

-----------------------------------------------------------------------------
Ties == \E i, j \in Ids : /\ i # j
                          /\ item[i].state # "none" /\ item[j].state # "none"
                          /\ item[i].at = item[j].at

(* A client is shown a listing from the newest row to the oldest, each row *)
(* once.  Paging by a row alone ensures that only if no two rows were      *)
(* created in the same millisecond.                                        *)
NewestFirst ==
    \A u \in Readers :
        table \in ByKey \/ ~Ties =>
            \A m, n \in 1..Len(reader[u].shown) :
                m < n => Before(reader[u].shown[m], reader[u].shown[n])

(* A client that reaches the end has been shown every row that was listed  *)
(* all the while.  Paging by a row ensures that only if no two rows were   *)
(* created in the same millisecond, and if no page was asked for after a   *)
(* row that had gone.                                                      *)
AllShown ==
    [][\A u \in Readers :
          /\ reader[u].pc = "reading" /\ reader'[u].pc = "end"
          /\ table \in ByKey \/ (~Ties /\ ~reader[u].lost)
          => reader[u].owed \subseteq ToSet(reader'[u].shown)]_listingsVars

(* A client is left with a promise of more and no cursor only by a         *)
(* negative limit, which three of the listings take.                       *)
StuckByLimit ==
    \A u \in Readers :
        reader[u].pc = "stuck" => reader[u].limit < 0 /\ reader[u].shown = <<>>

(* A client that follows the cursors of a listing paged by key comes to an *)
(* end, however much is added meanwhile.                                   *)
ReadingEnds ==
    \A u \in Readers :
        table \in ByKey /\ reader[u].pc = "reading" ~> reader[u].pc \in {"end", "stuck"}
=============================================================================
