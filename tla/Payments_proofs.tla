--------------------------- MODULE Payments_proofs ---------------------------
(***************************************************************************)
(* What Payments guarantees for any number of users, intents, transactions *)
(* and requests.  The inductive invariant adds to the properties what the  *)
(* processes remember between two awaits and may still act upon: a row     *)
(* about to be saved as confirmed carries a transaction that pays it, one  *)
(* about to be saved as failed has expired.                                *)
(***************************************************************************)
EXTENDS Payments, FiniteSetTheorems, TLAPS

\* What a process may rely on although others have run since it looked.
Sound(s) ==
    /\ s \in Saving =>
          /\ rows[s.intent].status # "absent"
          /\ s.status = "failed" => s.intent \in stale
          /\ s.hash # NoTx =>
                /\ s.status = "confirmed"
                /\ ledger[s.hash].sent /\ ledger[s.hash].ok
                /\ ledger[s.hash].memo = s.intent
          /\ s.pc = "write" /\ "status" \notin s.dirty =>
                rows[s.intent].status # "pending"
    /\ s.pc = "find" => ledger[s.tx].sent
    /\ s.pc \in {"count", "seek", "issue", "reload", "rewrite"} =>
          ledger[s.tx].sent /\ ledger[s.tx].ok

MemosKnown ==
    \A t \in Txs : ledger[t].sent => rows[ledger[t].memo].status # "absent"

TodoExpired ==
    \A p \in todo : p \in stale /\ rows[p].status # "absent"

ProcsSound == \A x \in Procs : Sound(proc[x])

Inv ==
    /\ TypeOK
    /\ HashesProvePayment
    /\ TicketsArePaid
    /\ MemosKnown
    /\ TodoExpired
    /\ ProcsSound

-----------------------------------------------------------------------------
(* The shape of a process tells where it is.                               *)

LEMMA Shapes ==
    ASSUME TypeOK, NEW x \in Procs
    PROVE  /\ proc[x] \in Process
           /\ proc[x].pc \in {"load", "write"} => proc[x] \in Saving
           /\ proc[x].pc \in {"lookup", "insert"} => proc[x].user \in Users
           /\ proc[x].pc = "find" => proc[x].tx \in Txs /\ proc[x].user \in Users
           /\ proc[x].pc \in {"count", "seek", "issue", "reload"} =>
                 proc[x] \in [pc : {"count", "seek", "issue", "reload"}, tx : Txs]
           /\ proc[x].pc = "rewrite" =>
                 proc[x].tx \in Txs /\ proc[x].dirty \in BOOLEAN
<1>1. proc[x] \in Process
  BY DEF TypeOK
<1> QED
  BY <1>1 DEF Process, Idle, Saving

LEMMA RowTypes ==
    ASSUME TypeOK, NEW p \in Intents
    PROVE  /\ rows[p] \in Row
           /\ rows[p].status \in PaymentStatus \cup {"absent"}
           /\ rows[p].hash \in Txs \cup {NoTx}
           /\ rows[p].status # "absent" => rows[p].user \in Users
BY DEF TypeOK, Row

LEMMA LedgerTypes ==
    ASSUME TypeOK, NEW t \in Txs
    PROVE  /\ ledger[t].sent \in BOOLEAN
           /\ ledger[t].sent => ledger[t].memo \in Intents
<1>1. ledger[t] = NotSent \/ ledger[t] \in Sent
  BY DEF TypeOK
<1>2. CASE ledger[t] = NotSent
  BY <1>2 DEF NotSent
<1>3. CASE ledger[t] \in Sent
  BY <1>3 DEF Sent
<1> QED
  BY <1>1, <1>2, <1>3

LEMMA SaveType ==
    ASSUME NEW p \in Intents, NEW h \in Txs \cup {NoTx},
           NEW st \in {"confirmed", "failed"},
           NEW then \in {"idle", "insert"}
    PROVE  Save(p, st, h, then) \in Saving
BY DEF Save, Saving

LEMMA UpdatedType ==
    ASSUME NEW row \in Row, NEW s \in Saving
    PROVE  /\ Updated(row, s) \in Row
           /\ Updated(row, s).user = row.user
           /\ Updated(row, s).status =
                 IF "status" \in s.dirty THEN s.status ELSE row.status
           /\ Updated(row, s).hash =
                 IF "hash" \in s.dirty THEN s.hash ELSE row.hash
BY DEF Updated, Row, Saving, PaymentStatus

-----------------------------------------------------------------------------
(* Type correctness.                                                       *)

LEMMA InitInv == Init => Inv
BY PaymentsAssumption DEF Init, Inv, TypeOK, HashesProvePayment,
   TicketsArePaid, MemosKnown, TodoExpired, ProcsSound, Sound, NoRow, Row,
   PaymentStatus, NotSent, Sent, TicketStatus, Process, Idle, Saving, Sweeping, Procs

LEMMA GotoType ==
    ASSUME TypeOK, NEW x \in Requests, NEW s \in Process, Goto(x, s)
    PROVE  /\ proc' \in [Procs -> Process]
           /\ proc'[Job] \in {Idle} \cup Sweeping
           /\ proc'[x] = s
           /\ \A y \in Procs \ {x} : proc'[y] = proc[y]
<1>1. x \in Procs /\ x # Job /\ Job \in Procs
  BY PaymentsAssumption DEF Procs
<1> QED
  BY <1>1 DEF TypeOK, Goto

LEMMA SaverGotoType ==
    ASSUME TypeOK, NEW x \in Procs, NEW s \in {Idle} \cup Saving, Goto(x, s),
           x = Job /\ s \in Saving => s \in Sweeping
    PROVE  /\ proc' \in [Procs -> Process]
           /\ proc'[Job] \in {Idle} \cup Sweeping
           /\ proc'[x] = s
           /\ \A y \in Procs \ {x} : proc'[y] = proc[y]
<1>1. Job \in Procs /\ s \in Process
  BY DEF Procs, Process
<1>2. x = Job => s \in {Idle} \cup Sweeping
  OBVIOUS
<1> QED
  BY <1>1, <1>2 DEF TypeOK, Goto

\* What a step that only moves process x leaves to show of the types.
LEMMA MoveType ==
    ASSUME TypeOK, proc' \in [Procs -> Process],
           proc'[Job] \in {Idle} \cup Sweeping,
           UNCHANGED <<rows, stale, ledger, tickets, todo, crashes>>
    PROVE  TypeOK'
BY DEF TypeOK

LEMMA SaveLoadType ==
    ASSUME TypeOK, NEW x \in Procs, SaveLoad(x)
    PROVE  /\ TypeOK'
           /\ proc[x] \in Saving
           /\ proc'[x] = [proc[x] EXCEPT !.pc = "write",
                             !.dirty = Differing(rows[proc[x].intent], proc[x])]
           /\ \A y \in Procs \ {x} : proc'[y] = proc[y]
<1> DEFINE n == [proc[x] EXCEPT !.pc = "write",
                    !.dirty = Differing(rows[proc[x].intent], proc[x])]
<1>1. proc[x] \in Saving
  BY Shapes DEF SaveLoad
<1>2. Differing(rows[proc[x].intent], proc[x]) \in SUBSET {"status", "hash"}
  BY DEF Differing
<1>3. n \in Saving
  BY <1>1, <1>2 DEF Saving
<1>7. x = Job => n \in Sweeping
  <2>1. x = Job => proc[x] \in {Idle} \cup Sweeping
    BY DEF TypeOK
  <2>2. proc[x] \in Sweeping => n \in Sweeping
    BY <1>1, <1>3 DEF Sweeping, Saving
  <2> QED
    BY <2>1, <2>2 DEF SaveLoad, Idle
<1>4. Goto(x, n)
  BY DEF SaveLoad
<1> HIDE DEF n
<1>5. /\ proc' \in [Procs -> Process]
      /\ proc'[Job] \in {Idle} \cup Sweeping
      /\ proc'[x] = n
      /\ \A y \in Procs \ {x} : proc'[y] = proc[y]
  BY <1>3, <1>4, <1>7, SaverGotoType
<1>6. TypeOK'
  BY <1>5, MoveType DEF SaveLoad
<1> QED
  BY <1>1, <1>5, <1>6 DEF n

\* What an update does to the rows.
LEMMA SaveWriteType ==
    ASSUME TypeOK, ProcsSound, NEW x \in Procs, SaveWrite(x)
    PROVE  /\ TypeOK'
           /\ proc[x] \in Saving
           /\ \/ proc'[x] = Idle
              \/ \E u \in Users : proc'[x] = [pc |-> "insert", user |-> u]
           /\ \A y \in Procs \ {x} : proc'[y] = proc[y]
           /\ \/ rows' = rows
              \/ rows' = [rows EXCEPT ![proc[x].intent] =
                             Updated(rows[proc[x].intent], proc[x])]
<1> DEFINE s == proc[x]
           p == s.intent
           n == [pc |-> "insert", user |-> rows[p].user]
<1>1. s \in Saving /\ p \in Intents
  BY Shapes DEF SaveWrite, Saving
<1>2. rows[p].status # "absent"
  BY <1>1 DEF ProcsSound, Sound
<1>3. rows[p] \in Row /\ rows[p].user \in Users
  BY <1>1, <1>2, RowTypes
<1>4. CASE rows' = rows /\ Goto(x, Idle)
  <2>1. /\ proc' \in [Procs -> Process]
        /\ proc'[Job] \in {Idle} \cup Sweeping
        /\ proc'[x] = Idle
        /\ \A y \in Procs \ {x} : proc'[y] = proc[y]
    <3>1. Idle \notin Saving
      BY DEF Idle, Saving
    <3> QED
      BY <1>4, <3>1, SaverGotoType
  <2> QED
    BY <1>1, <1>4, <2>1, MoveType DEF SaveWrite
<1>5. CASE /\ rows' = [rows EXCEPT ![p] = Updated(rows[p], s)]
           /\ Goto(x, IF s.then = "insert" THEN n ELSE Idle)
  <2>1. n \in Process
    BY <1>3 DEF Process
  <2>2. s.then = "insert" => x # Job
    BY <1>1 DEF TypeOK, Sweeping, Saving, Idle, SaveWrite
  <2>3. /\ proc' \in [Procs -> Process]
        /\ proc'[Job] \in {Idle} \cup Sweeping
        /\ proc'[x] \in {n, Idle}
        /\ \A y \in Procs \ {x} : proc'[y] = proc[y]
    <3>1. Job \in Procs /\ Idle \in Process
      BY DEF Procs, Process
    <3> HIDE DEF n
    <3> QED
      BY <1>5, <2>1, <2>2, <3>1 DEF TypeOK, Goto
  <2>4. Updated(rows[p], s) \in Row /\ Updated(rows[p], s).user \in Users
    BY <1>1, <1>3, UpdatedType
  <2>5. rows' \in [Intents -> Row]
    BY <1>5, <2>4 DEF TypeOK
  <2>6. \A q \in Intents : rows'[q].status # "absent" => rows'[q].user \in Users
    BY <1>1, <1>5, <2>4 DEF TypeOK
  <2>7. UNCHANGED <<stale, ledger, tickets, todo, crashes>>
    BY DEF SaveWrite
  <2>8. TypeOK'
    BY ONLY TypeOK, <2>3, <2>5, <2>6, <2>7 DEF TypeOK
  <2> QED
    BY <1>1, <1>3, <1>5, <2>3, <2>8
<1> QED
  BY <1>4, <1>5 DEF SaveWrite

\* The steps of a request that only move it, and where to.
Moves(r, n) ==
    /\ n \in Process
    /\ Goto(r, n)
    /\ UNCHANGED <<rows, stale, ledger, tickets, todo, crashes>>

LEMMA MovesType ==
    ASSUME TypeOK, NEW r \in Requests, NEW n, Moves(r, n)
    PROVE  /\ TypeOK'
           /\ proc'[r] = n
           /\ \A y \in Procs \ {r} : proc'[y] = proc[y]
<1>1. /\ proc' \in [Procs -> Process]
      /\ proc'[Job] \in {Idle} \cup Sweeping
      /\ proc'[r] = n
      /\ \A y \in Procs \ {r} : proc'[y] = proc[y]
  BY GotoType DEF Moves
<1> QED
  BY <1>1, MoveType DEF Moves

LEMMA ProcessMembers ==
    /\ Idle \in Process
    /\ Saving \subseteq Process
    /\ \A u \in Users : /\ [pc |-> "lookup", user |-> u] \in Process
                        /\ [pc |-> "insert", user |-> u] \in Process
                        /\ \A t \in Txs :
                              [pc |-> "find", user |-> u, tx |-> t] \in Process
    /\ \A t \in Txs : /\ [pc |-> "count", tx |-> t] \in Process
                      /\ [pc |-> "seek", tx |-> t] \in Process
                      /\ [pc |-> "issue", tx |-> t] \in Process
                      /\ [pc |-> "reload", tx |-> t] \in Process
                      /\ \A d \in BOOLEAN :
                            [pc |-> "rewrite", tx |-> t, dirty |-> d] \in Process
BY DEF Process

\* createPaymentIntent and confirmPayment, up to their saves.
LEMMA CreateMoves ==
    ASSUME TypeOK, NEW r \in Requests, NEW u \in Users, CreateIntent(r, u)
    PROVE  Moves(r, [pc |-> "lookup", user |-> u])
BY ProcessMembers DEF CreateIntent, Moves

LEMMA LookupMoves ==
    ASSUME TypeOK, NEW r \in Requests, FindOpenIntent(r)
    PROVE  \/ Moves(r, Idle)
           \/ \E u \in Users : Moves(r, [pc |-> "insert", user |-> u])
           \/ \E p \in stale : /\ rows[p].status # "absent"
                               /\ Moves(r, Save(p, "failed", NoTx, "insert"))
<1> DEFINE u == proc[r].user
           open == {p \in Intents : rows[p].status = "pending"
                                    /\ rows[p].user = u}
<1>1. r \in Procs
  BY DEF Procs
<1>2. u \in Users
  BY <1>1, Shapes DEF FindOpenIntent
<1>3. UNCHANGED <<rows, stale, ledger, tickets, todo, crashes>>
  BY DEF FindOpenIntent
<1>4. CASE Goto(r, [pc |-> "insert", user |-> u])
  BY <1>2, <1>3, <1>4, ProcessMembers DEF Moves
<1>5. ASSUME NEW p \in open,
             Goto(r, IF p \in stale THEN Save(p, "failed", NoTx, "insert")
                     ELSE Idle)
      PROVE  \/ Moves(r, Idle)
             \/ /\ p \in stale /\ rows[p].status # "absent"
                /\ Moves(r, Save(p, "failed", NoTx, "insert"))
  <2>1. Save(p, "failed", NoTx, "insert") \in Process
    BY SaveType, ProcessMembers
  <2> QED
    BY <1>3, <1>5, <2>1, ProcessMembers DEF Moves
<1> HIDE DEF u, open
<1> QED
  BY <1>2, <1>4, <1>5 DEF FindOpenIntent, u, open

LEMMA ConfirmMoves ==
    ASSUME TypeOK, NEW r \in Requests, NEW u \in Users, NEW t \in Txs,
           ConfirmPayment(r, u, t)
    PROVE  /\ Moves(r, [pc |-> "find", user |-> u, tx |-> t])
           /\ ledger[t].sent
BY ProcessMembers DEF ConfirmPayment, Moves

LEMMA FindMoves ==
    ASSUME TypeOK, ProcsSound, NEW r \in Requests, FindIntent(r)
    PROVE  \/ Moves(r, Idle)
           \/ \E p \in Intents :
                 /\ rows[p].status # "absent"
                 /\ \/ /\ p \in stale
                       /\ Moves(r, Save(p, "failed", NoTx, "idle"))
                    \/ \E t \in Txs :
                          /\ p \notin stale
                          /\ ledger[t].sent /\ ledger[t].ok /\ ledger[t].memo = p
                          /\ Moves(r, Save(p, "confirmed", t, "idle"))
<1> DEFINE t == proc[r].tx
           p == ledger[t].memo
<1>1. r \in Procs
  BY DEF Procs
<1>2. t \in Txs /\ ledger[t].sent
  BY <1>1, Shapes DEF FindIntent, ProcsSound, Sound
<1>3. p \in Intents
  BY <1>2, LedgerTypes
<1>4. /\ Idle \in Process
      /\ Save(p, "failed", NoTx, "idle") \in Process
      /\ Save(p, "confirmed", t, "idle") \in Process
  BY <1>2, <1>3, SaveType, ProcessMembers
<1>5. \/ Moves(r, Idle)
      \/ /\ rows[p].status = "pending"
         /\ \/ p \in stale /\ Moves(r, Save(p, "failed", NoTx, "idle"))
            \/ /\ p \notin stale /\ ledger[t].ok
               /\ Moves(r, Save(p, "confirmed", t, "idle"))
  BY <1>4 DEF FindIntent, Moves
<1> QED
  BY <1>2, <1>3, <1>5

\* issueTicket, up to its insert, and the reading half of the second save.
LEMMA IssueMoves ==
    ASSUME TypeOK, HashesProvePayment, NEW r \in Requests, NEW p \in Intents,
           IssueTicket(r, p)
    PROVE  \E t \in Txs : /\ ledger[t].sent /\ ledger[t].ok
                          /\ Moves(r, [pc |-> "count", tx |-> t])
<1>1. rows[p].hash \in Txs
  BY RowTypes DEF IssueTicket
<1>2. ledger[rows[p].hash].sent /\ ledger[rows[p].hash].ok
  BY DEF IssueTicket, HashesProvePayment
<1> QED
  BY <1>1, <1>2, ProcessMembers DEF IssueTicket, Moves

LEMMA CountMoves ==
    ASSUME TypeOK, NEW r \in Requests,
           CountSeats(r) \/ SeekTicket(r) \/ ResaveLoad(r)
    PROVE  \/ Moves(r, Idle)
           \/ \E t \in Txs, n \in Process :
                 /\ proc[r].tx = t
                 /\ proc[r].pc \in {"count", "seek", "reload"}
                 /\ n.tx = t /\ n.pc \in {"seek", "issue", "rewrite"}
                 /\ Moves(r, n)
<1> DEFINE t == proc[r].tx
<1>1. r \in Procs
  BY DEF Procs
<1>2. CASE CountSeats(r)
  <2>1. proc[r] \in [pc : {"count", "seek", "issue", "reload"}, tx : Txs]
    BY <1>1, <1>2, Shapes DEF CountSeats
  <2>2. [proc[r] EXCEPT !.pc = "seek"] = [pc |-> "seek", tx |-> t] /\ t \in Txs
    BY <2>1
  <2>3. [pc |-> "seek", tx |-> t] \in Process
    BY <2>2, ProcessMembers
  <2>4. Moves(r, Idle) \/ Moves(r, [pc |-> "seek", tx |-> t])
    BY <1>2, <2>2, <2>3, ProcessMembers DEF CountSeats, Moves
  <2> QED
    BY <1>2, <2>2, <2>3, <2>4 DEF CountSeats
<1>3. CASE SeekTicket(r)
  <2>1. proc[r] \in [pc : {"count", "seek", "issue", "reload"}, tx : Txs]
    BY <1>1, <1>3, Shapes DEF SeekTicket
  <2>2. [proc[r] EXCEPT !.pc = "issue"] = [pc |-> "issue", tx |-> t] /\ t \in Txs
    BY <2>1
  <2>3. [pc |-> "issue", tx |-> t] \in Process
    BY <2>2, ProcessMembers
  <2>4. Moves(r, Idle) \/ Moves(r, [pc |-> "issue", tx |-> t])
    BY <1>3, <2>2, <2>3, ProcessMembers DEF SeekTicket, Moves
  <2> QED
    BY <1>3, <2>2, <2>3, <2>4 DEF SeekTicket
<1>4. CASE ResaveLoad(r)
  <2> DEFINE n == [pc |-> "rewrite", tx |-> t, dirty |-> tickets[t] # "valid"]
  <2>1. proc[r] \in [pc : {"count", "seek", "issue", "reload"}, tx : Txs]
    BY <1>1, <1>4, Shapes DEF ResaveLoad
  <2>2. t \in Txs
    BY <2>1
  <2>3. (tickets[t] # "valid") \in BOOLEAN
    OBVIOUS
  <2>4. n \in Process
    BY <2>2, <2>3, ProcessMembers
  <2>5. Moves(r, n)
    BY <1>4, <2>4 DEF ResaveLoad, Moves
  <2> QED
    BY <1>4, <2>2, <2>4, <2>5 DEF ResaveLoad
<1> QED
  BY <1>2, <1>3, <1>4

-----------------------------------------------------------------------------
(* Whatever others do between two awaits, what a process relies on stays:  *)
(* rows are never removed nor made pending again, expired intents stay     *)
(* expired and the ledger is final.                                        *)

Grows ==
    /\ \A p \in Intents :
          rows[p].status # "absent" =>
              /\ rows'[p].status # "absent"
              /\ rows[p].status # "pending" => rows'[p].status # "pending"
    /\ stale \subseteq stale'
    /\ \A t \in Txs : ledger[t].sent => ledger'[t] = ledger[t]

LEMMA SoundPersists ==
    ASSUME TypeOK, Grows, NEW x \in Procs, Sound(proc[x]), proc'[x] = proc[x]
    PROVE  Sound(proc[x])'
<1> DEFINE s == proc[x]
<1>1. s \in Saving => s.intent \in Intents /\ s.hash \in Txs \cup {NoTx}
  BY DEF Saving
<1>2. s \in Saving =>
         /\ rows'[s.intent].status # "absent"
         /\ s.status = "failed" => s.intent \in stale'
         /\ s.hash # NoTx =>
               /\ s.status = "confirmed"
               /\ ledger'[s.hash].sent /\ ledger'[s.hash].ok
               /\ ledger'[s.hash].memo = s.intent
         /\ s.pc = "write" /\ "status" \notin s.dirty =>
               rows'[s.intent].status # "pending"
  BY <1>1 DEF Sound, Grows
<1>3. s.pc = "find" => ledger'[s.tx].sent
  BY Shapes DEF Sound, Grows
<1>4. s.pc \in {"count", "seek", "issue", "reload", "rewrite"} =>
         ledger'[s.tx].sent /\ ledger'[s.tx].ok
  BY Shapes DEF Sound, Grows
<1> QED
  BY <1>2, <1>3, <1>4 DEF Sound, Saving

\* The hashes stored before a step that does not store one.
LEMMA HashesPersist ==
    ASSUME TypeOK, MemosKnown, HashesProvePayment, Grows,
           \A p \in Intents : rows'[p].hash \in {rows[p].hash, NoTx}
    PROVE  HashesProvePayment'
<1> SUFFICES ASSUME NEW p \in Intents, rows'[p].hash # NoTx
             PROVE  /\ rows'[p].status # "pending"
                    /\ ledger'[rows'[p].hash].sent
                    /\ ledger'[rows'[p].hash].memo = p
                    /\ ledger'[rows'[p].hash].ok
  BY DEF HashesProvePayment
<1>1. rows'[p].hash = rows[p].hash /\ rows[p].hash \in Txs
  BY RowTypes
<1>2. rows[p].status # "absent"
  BY <1>1 DEF HashesProvePayment, MemosKnown
<1> QED
  BY <1>1, <1>2 DEF HashesProvePayment, Grows

LEMMA TicketsPersist ==
    ASSUME TypeOK, MemosKnown, TicketsArePaid, Grows,
           \A t \in Txs : tickets'[t] # "none" =>
               tickets[t] # "none" \/ (ledger[t].sent /\ ledger[t].ok)
    PROVE  TicketsArePaid'
<1> SUFFICES ASSUME NEW t \in Txs, tickets'[t] # "none"
             PROVE  /\ ledger'[t].sent /\ ledger'[t].ok
                    /\ rows'[ledger'[t].memo].status # "absent"
  BY DEF TicketsArePaid
<1>1. ledger[t].sent /\ ledger[t].ok
  BY DEF TicketsArePaid
<1>2. rows[ledger[t].memo].status # "absent" /\ ledger[t].memo \in Intents
  BY <1>1, LedgerTypes DEF MemosKnown
<1> QED
  BY <1>1, <1>2 DEF Grows

LEMMA MemosPersist ==
    ASSUME TypeOK, MemosKnown, Grows, UNCHANGED ledger
    PROVE  MemosKnown'
BY LedgerTypes DEF MemosKnown, Grows

LEMMA TodoPersists ==
    ASSUME TypeOK, TodoExpired, Grows, todo' \subseteq todo
    PROVE  TodoExpired'
BY DEF TypeOK, TodoExpired, Grows

LEMMA OthersSound ==
    ASSUME TypeOK, ProcsSound, Grows, NEW x,
           \A y \in Procs \ {x} : proc'[y] = proc[y],
           x \in Procs => Sound(proc[x])'
    PROVE  ProcsSound'
BY SoundPersists DEF ProcsSound

-----------------------------------------------------------------------------
(* Every step keeps the invariant.                                         *)

\* One that only moves a request to where it may be.
LEMMA MovesKeepInv ==
    ASSUME Inv, NEW r \in Requests, NEW n, Moves(r, n), Sound(n)
    PROVE  Inv'
<1>1. /\ TypeOK'
      /\ proc'[r] = n
      /\ \A y \in Procs \ {r} : proc'[y] = proc[y]
  BY MovesType DEF Inv
<1>2. UNCHANGED <<rows, stale, ledger, tickets, todo, crashes>>
  BY DEF Moves
<1>3. Grows
  BY <1>2 DEF Grows
<1>4. Sound(proc[r])'
  BY <1>1, <1>2 DEF Sound
<1>5. ProcsSound'
  BY <1>1, <1>3, <1>4, OthersSound DEF Inv
<1> QED
  BY <1>1, <1>2, <1>5 DEF Inv, HashesProvePayment, TicketsArePaid, MemosKnown,
     TodoExpired

LEMMA IdleSound == Sound(Idle)
BY DEF Sound, Idle, Saving

LEMMA SaveSound ==
    ASSUME NEW p \in Intents, NEW h \in Txs \cup {NoTx},
           NEW st \in {"confirmed", "failed"},
           NEW then \in {"idle", "insert"},
           rows[p].status # "absent",
           st = "failed" => p \in stale /\ h = NoTx,
           h # NoTx => ledger[h].sent /\ ledger[h].ok /\ ledger[h].memo = p
    PROVE  Sound(Save(p, st, h, then))
BY DEF Sound, Save

LEMMA RequestMovesKeepInv ==
    ASSUME Inv, NEW r \in Requests,
           \/ \E u \in Users : \/ CreateIntent(r, u)
                               \/ \E t \in Txs : ConfirmPayment(r, u, t)
           \/ FindOpenIntent(r)
           \/ FindIntent(r)
           \/ \E p \in Intents : IssueTicket(r, p)
           \/ CountSeats(r) \/ SeekTicket(r) \/ ResaveLoad(r)
    PROVE  Inv'
<1> USE DEF Inv
<1>0. ASSUME NEW u \in Users
      PROVE  /\ Sound([pc |-> "lookup", user |-> u])
             /\ Sound([pc |-> "insert", user |-> u])
  BY DEF Sound, Saving
<1>1. ASSUME NEW u \in Users, CreateIntent(r, u) PROVE Inv'
  BY <1>0, <1>1, CreateMoves, MovesKeepInv
<1>2. ASSUME NEW u \in Users, NEW t \in Txs, ConfirmPayment(r, u, t) PROVE Inv'
  <2>1. Sound([pc |-> "find", user |-> u, tx |-> t])
    BY <1>2, ConfirmMoves DEF Sound, Saving
  <2> QED
    BY <1>2, <2>1, ConfirmMoves, MovesKeepInv
<1>3. CASE FindOpenIntent(r)
  <2>1. ASSUME NEW p \in stale, rows[p].status # "absent"
        PROVE  Sound(Save(p, "failed", NoTx, "insert"))
    BY <2>1, SaveSound DEF TypeOK
  <2> QED
    BY <1>0, <1>3, <2>1, IdleSound, LookupMoves, MovesKeepInv
<1>4. CASE FindIntent(r)
  <2>1. ASSUME NEW p \in Intents, rows[p].status # "absent", p \in stale
        PROVE  Sound(Save(p, "failed", NoTx, "idle"))
    BY <2>1, SaveSound
  <2>2. ASSUME NEW p \in Intents, rows[p].status # "absent", NEW t \in Txs,
               ledger[t].sent, ledger[t].ok, ledger[t].memo = p
        PROVE  Sound(Save(p, "confirmed", t, "idle"))
    BY <2>2, SaveSound
  <2> QED
    BY <1>4, <2>1, <2>2, IdleSound, FindMoves, MovesKeepInv
<1>5. ASSUME NEW p \in Intents, IssueTicket(r, p) PROVE Inv'
  <2>1. ASSUME NEW t \in Txs, ledger[t].sent, ledger[t].ok
        PROVE  Sound([pc |-> "count", tx |-> t])
    BY <2>1 DEF Sound, Saving
  <2> QED
    BY <1>5, <2>1, IssueMoves, MovesKeepInv
<1>6. CASE CountSeats(r) \/ SeekTicket(r) \/ ResaveLoad(r)
  <2>1. r \in Procs
    BY DEF Procs
  <2>2. ASSUME NEW t \in Txs, NEW n \in Process,
               proc[r].tx = t, proc[r].pc \in {"count", "seek", "reload"},
               n.tx = t, n.pc \in {"seek", "issue", "rewrite"}
        PROVE  Sound(n)
    <3>1. ledger[t].sent /\ ledger[t].ok
      BY <2>1, <2>2 DEF ProcsSound, Sound
    <3> QED
      BY <2>2, <3>1 DEF Sound, Saving
  <2> QED
    BY <1>6, <2>2, IdleSound, CountMoves, MovesKeepInv
<1> QED
  BY <1>1, <1>2, <1>3, <1>4, <1>5, <1>6

LEMMA SaveLoadKeepsInv ==
    ASSUME Inv, NEW x \in Procs, SaveLoad(x)
    PROVE  Inv'
<1> DEFINE s == proc[x]
<1>1. TypeOK /\ ProcsSound
  BY DEF Inv
<1>2. /\ TypeOK'
      /\ s \in Saving
      /\ proc'[x] = [s EXCEPT !.pc = "write",
                              !.dirty = Differing(rows[s.intent], s)]
      /\ \A y \in Procs \ {x} : proc'[y] = proc[y]
  BY <1>1, SaveLoadType
<1>3. UNCHANGED <<rows, stale, ledger, tickets, todo, crashes>>
  BY DEF SaveLoad
<1>4. Grows
  BY <1>3 DEF Grows
<1>5. /\ proc'[x].intent = s.intent /\ proc'[x].hash = s.hash
      /\ proc'[x].status = s.status /\ proc'[x].pc = "write"
      /\ proc'[x].dirty = Differing(rows[s.intent], s)
  BY <1>2 DEF Saving
<1>6. "status" \notin Differing(rows[s.intent], s) =>
         rows[s.intent].status # "pending"
  BY <1>2 DEF Differing, Saving
<1>7. Sound(s)
  BY <1>1 DEF ProcsSound
<1>8. Sound(proc[x])'
  BY <1>2, <1>3, <1>5, <1>6, <1>7 DEF Sound
<1>9. ProcsSound'
  BY <1>1, <1>2, <1>4, <1>8, OthersSound
<1> QED
  BY <1>2, <1>3, <1>9 DEF Inv, HashesProvePayment, TicketsArePaid, MemosKnown,
     TodoExpired

LEMMA SaveWriteKeepsInv ==
    ASSUME Inv, NEW x \in Procs, SaveWrite(x)
    PROVE  Inv'
<1> DEFINE s == proc[x]
           p == s.intent
<1>1. TypeOK /\ ProcsSound /\ Sound(s)
  BY DEF Inv, ProcsSound
<1>2. /\ TypeOK'
      /\ s \in Saving /\ p \in Intents
      /\ proc'[x] = Idle \/ \E u \in Users : proc'[x] = [pc |-> "insert", user |-> u]
      /\ \A y \in Procs \ {x} : proc'[y] = proc[y]
      /\ rows' = rows \/ rows' = [rows EXCEPT ![p] = Updated(rows[p], s)]
  BY <1>1, SaveWriteType DEF Saving
<1>3. UNCHANGED <<stale, ledger, tickets, todo>>
  BY DEF SaveWrite
<1>4. /\ \A q \in Intents \ {p} : rows'[q] = rows[q]
      /\ \/ rows'[p] = rows[p]
         \/ /\ rows'[p].status =
                  IF "status" \in s.dirty THEN s.status ELSE rows[p].status
            /\ rows'[p].hash =
                  IF "hash" \in s.dirty THEN s.hash ELSE rows[p].hash
  <2>1. rows[p] \in Row
    BY <1>1, <1>2, RowTypes
  <2>2. /\ Updated(rows[p], s).status =
              IF "status" \in s.dirty THEN s.status ELSE rows[p].status
        /\ Updated(rows[p], s).hash =
              IF "hash" \in s.dirty THEN s.hash ELSE rows[p].hash
    BY <1>2, <2>1, UpdatedType
  <2> QED
    BY <1>1, <1>2, <2>2 DEF TypeOK
<1>5. s.pc = "write" /\ s.status \in {"confirmed", "failed"}
  BY <1>2 DEF SaveWrite, Saving
<1>6. /\ rows[p].status # "absent"
      /\ s.hash # NoTx => /\ s.status = "confirmed"
                          /\ ledger[s.hash].sent /\ ledger[s.hash].ok
                          /\ ledger[s.hash].memo = p
      /\ "status" \notin s.dirty => rows[p].status # "pending"
  BY <1>1, <1>2, <1>5 DEF Sound
<1>7. Grows
  BY <1>2, <1>3, <1>4, <1>5, <1>6 DEF Grows
<1>8. HashesProvePayment'
  <2> SUFFICES ASSUME NEW q \in Intents, rows'[q].hash # NoTx
               PROVE  /\ rows'[q].status # "pending"
                      /\ ledger[rows'[q].hash].sent
                      /\ ledger[rows'[q].hash].memo = q
                      /\ ledger[rows'[q].hash].ok
    BY <1>3 DEF HashesProvePayment
  <2>1. CASE rows'[q] = rows[q]
    BY <2>1 DEF Inv, HashesProvePayment
  <2>2. CASE q = p /\ rows'[p] # rows[p]
    <3>1. rows'[p].status # "pending"
      BY <1>4, <1>5, <1>6, <2>2
    <3>2. CASE "hash" \in s.dirty
      BY <1>4, <1>6, <2>2, <3>1, <3>2
    <3>3. CASE "hash" \notin s.dirty
      BY <1>4, <2>2, <3>1, <3>3 DEF Inv, HashesProvePayment
    <3> QED
      BY <3>2, <3>3
  <2> QED
    BY <1>4, <2>1, <2>2
<1>9. ProcsSound'
  <2>1. proc'[x].pc \in {"idle", "insert"}
    <3>1. \/ proc'[x] = Idle
          \/ \E u \in Users : proc'[x] = [pc |-> "insert", user |-> u]
      BY <1>2
    <3>2. CASE proc'[x] = Idle
      BY <3>2 DEF Idle
    <3>3. ASSUME NEW u \in Users, proc'[x] = [pc |-> "insert", user |-> u]
          PROVE  proc'[x].pc = "insert"
      BY <3>3
    <3> QED
      BY <3>1, <3>2, <3>3
  <2>3. \A z \in Saving : z.pc \in {"load", "write"}
    BY DEF Saving
  <2>4. proc'[x] \notin Saving
    BY <2>1, <2>3
  <2>2. Sound(proc[x])'
    BY <2>1, <2>4 DEF Sound, Saving
  <2> QED
    BY <1>1, <1>2, <1>7, <2>2, OthersSound
<1>10. TicketsArePaid' /\ MemosKnown' /\ TodoExpired'
  BY <1>3, <1>7, TicketsPersist, MemosPersist, TodoPersists DEF Inv
<1> QED
  BY <1>2, <1>8, <1>9, <1>10 DEF Inv

LEMMA InsertIntentKeepsInv ==
    ASSUME Inv, NEW r \in Requests, InsertIntent(r)
    PROVE  Inv'
<1>1. TypeOK /\ ProcsSound /\ MemosKnown /\ HashesProvePayment
  BY DEF Inv
<1>2. r \in Procs
  BY DEF Procs
<1>3. PICK p \in Unused : rows' = [rows EXCEPT ![p] = [status |-> "pending",
                                                       user |-> proc[r].user,
                                                       hash |-> NoTx]]
  BY DEF InsertIntent
<1>4. UNCHANGED <<stale, ledger, tickets, todo, crashes>> /\ Goto(r, Idle)
  BY DEF InsertIntent
<1>5. p \in Intents /\ rows[p].status = "absent" /\ proc[r].user \in Users
  BY <1>1, <1>2, Shapes DEF Unused, InsertIntent
<1>6. /\ rows'[p] = [status |-> "pending", user |-> proc[r].user, hash |-> NoTx]
      /\ \A q \in Intents \ {p} : rows'[q] = rows[q]
  BY <1>1, <1>3, <1>5 DEF TypeOK
<1>7. /\ proc' \in [Procs -> Process]
      /\ proc'[Job] \in {Idle} \cup Sweeping
      /\ proc'[r] = Idle
      /\ \A y \in Procs \ {r} : proc'[y] = proc[y]
  BY <1>1, <1>4, GotoType, ProcessMembers
<1>8. TypeOK'
  <2>1. [status |-> "pending", user |-> proc[r].user, hash |-> NoTx] \in Row
    BY <1>5 DEF Row, PaymentStatus
  <2>2. rows' \in [Intents -> Row]
    BY <1>1, <1>3, <2>1 DEF TypeOK
  <2>3. \A q \in Intents : rows'[q].status # "absent" => rows'[q].user \in Users
    BY <1>1, <1>5, <1>6 DEF TypeOK
  <2> QED
    BY ONLY <1>1, <1>4, <1>7, <2>2, <2>3 DEF TypeOK
<1>9. Grows
  BY <1>4, <1>5, <1>6 DEF Grows
<1>10. HashesProvePayment'
  BY <1>1, <1>6, <1>9, HashesPersist
<1>11. ProcsSound'
  <2>1. Sound(proc[r])'
    BY <1>7 DEF Sound, Saving, Idle
  <2> QED
    BY <1>1, <1>7, <1>9, <2>1, OthersSound
<1>12. TicketsArePaid' /\ MemosKnown' /\ TodoExpired'
  BY <1>4, <1>9, TicketsPersist, MemosPersist, TodoPersists DEF Inv
<1> QED
  BY <1>8, <1>10, <1>11, <1>12 DEF Inv

LEMMA SweepKeepsInv ==
    ASSUME Inv, SweepStart \/ SweepNext
    PROVE  Inv'
<1>1. TypeOK /\ ProcsSound /\ TodoExpired
  BY DEF Inv
<1>2. CASE SweepStart
  <2>1. UNCHANGED <<rows, stale, ledger, tickets, proc, crashes>>
    BY <1>2 DEF SweepStart
  <2>2. TypeOK' /\ TodoExpired'
    BY <1>1, <1>2 DEF SweepStart, TypeOK, TodoExpired
  <2>3. ProcsSound'
    BY <1>1, <2>1 DEF ProcsSound, Sound
  <2> QED
    BY <2>1, <2>2, <2>3 DEF Inv, HashesProvePayment, TicketsArePaid, MemosKnown
<1>3. CASE SweepNext
  <2>1. PICK p \in todo : /\ todo' = todo \ {p}
                          /\ Goto(Job, Save(p, "failed", NoTx, "idle"))
    BY <1>3 DEF SweepNext
  <2> DEFINE n == Save(p, "failed", NoTx, "idle")
  <2>2. UNCHANGED <<rows, stale, ledger, tickets, crashes>>
    BY <1>3 DEF SweepNext
  <2>3. p \in Intents /\ p \in stale /\ rows[p].status # "absent"
    BY <1>1 DEF TypeOK, TodoExpired
  <2>4. n \in Saving /\ n \in Sweeping
    BY <2>3, SaveType DEF Sweeping, Save
  <2>5. Job \in Procs
    BY DEF Procs
  <2> HIDE DEF n
  <2>6. /\ proc' \in [Procs -> Process]
        /\ proc'[Job] \in {Idle} \cup Sweeping
        /\ proc'[Job] = n
        /\ \A y \in Procs \ {Job} : proc'[y] = proc[y]
    BY <1>1, <2>1, <2>4, <2>5, SaverGotoType DEF n
  <2>7. TypeOK'
    BY <1>1, <2>1, <2>2, <2>6 DEF TypeOK
  <2>8. Grows
    BY <2>2 DEF Grows
  <2>9. Sound(n)
    BY <2>3, SaveSound DEF n
  <2>10. Sound(proc[Job])'
    BY <2>2, <2>6, <2>9 DEF Sound
  <2>11. ProcsSound'
    BY <1>1, <2>6, <2>8, <2>10, OthersSound
  <2>12. TodoExpired'
    BY <1>1, <2>1, <2>8, TodoPersists
  <2> QED
    BY <2>2, <2>7, <2>11, <2>12 DEF Inv, HashesProvePayment, TicketsArePaid,
       MemosKnown
<1> QED
  BY <1>2, <1>3

LEMMA TicketStepsKeepInv ==
    ASSUME Inv, NEW r \in Requests, InsertTicket(r) \/ ResaveWrite(r)
    PROVE  Inv'
<1> DEFINE t == proc[r].tx
<1>1. TypeOK /\ ProcsSound
  BY DEF Inv
<1>2. r \in Procs
  BY DEF Procs
<1>3. t \in Txs /\ ledger[t].sent /\ ledger[t].ok
  BY <1>1, <1>2, Shapes DEF InsertTicket, ResaveWrite, ProcsSound, Sound
<1>4. UNCHANGED <<rows, stale, ledger, todo, crashes>>
  BY DEF InsertTicket, ResaveWrite
<1>5. Grows
  BY <1>4 DEF Grows
<1>6. /\ tickets' \in [Txs -> TicketStatus]
      /\ \A q \in Txs : tickets'[q] # "none" => tickets[q] # "none" \/ q = t
  BY <1>1, <1>3 DEF InsertTicket, ResaveWrite, TypeOK, TicketStatus
<1>7. \E n \in {Idle, [pc |-> "reload", tx |-> t]} : Goto(r, n)
  BY DEF InsertTicket, ResaveWrite
<1>8. PICK n \in {Idle, [pc |-> "reload", tx |-> t]} : Goto(r, n)
  BY <1>7
<1>9. n \in Process /\ Sound(n)
  <2>1. Sound([pc |-> "reload", tx |-> t])
    BY <1>3 DEF Sound, Saving
  <2> QED
    BY <1>3, <2>1, IdleSound, ProcessMembers
<1>10. /\ proc' \in [Procs -> Process]
       /\ proc'[Job] \in {Idle} \cup Sweeping
       /\ proc'[r] = n
       /\ \A y \in Procs \ {r} : proc'[y] = proc[y]
  BY <1>1, <1>8, <1>9, GotoType
<1>11. TypeOK'
  BY <1>1, <1>4, <1>6, <1>10 DEF TypeOK
<1>12. Sound(proc[r])'
  BY <1>4, <1>9, <1>10 DEF Sound
<1>13. ProcsSound'
  BY <1>1, <1>5, <1>10, <1>12, OthersSound
<1>14. TicketsArePaid'
  BY <1>3, <1>5, <1>6, TicketsPersist DEF Inv
<1> QED
  BY <1>4, <1>11, <1>13, <1>14 DEF Inv, HashesProvePayment, MemosKnown,
     TodoExpired

\* Steps that leave the processes where they are.
LEMMA EnvironmentKeepsInv ==
    ASSUME Inv, Environment
    PROVE  Inv'
<1>0. TypeOK /\ ProcsSound /\ MemosKnown /\ TodoExpired /\ HashesProvePayment
      /\ TicketsArePaid
  BY DEF Inv
<1>1. ASSUME NEW t \in Txs, NEW p \in Intents, NEW ok \in BOOLEAN, Pay(t, p, ok)
      PROVE  Inv'
  <2> DEFINE l == [sent |-> TRUE, memo |-> p, ok |-> ok]
  <2>1. UNCHANGED <<rows, stale, tickets, proc, todo, crashes>>
    BY <1>1 DEF Pay
  <2>2. /\ ledger'[t] = l
        /\ \A q \in Txs \ {t} : ledger'[q] = ledger[q]
        /\ ~ ledger[t].sent
    BY <1>0, <1>1 DEF Pay, TypeOK
  <2>3. l \in Sent
    BY DEF Sent
  <2>4. TypeOK'
    BY <1>0, <1>1, <2>1, <2>3 DEF Pay, TypeOK
  <2>5. Grows
    BY <2>1, <2>2 DEF Grows
  <2>6. MemosKnown'
    BY <1>0, <1>1, <2>1, <2>2 DEF MemosKnown, Pay
  <2>7. HashesProvePayment'
    BY <1>0, <2>1, <2>5, HashesPersist
  <2>8. TicketsArePaid' /\ TodoExpired'
    BY <1>0, <2>1, <2>5, TicketsPersist, TodoPersists
  <2>9. ProcsSound'
    BY <1>0, <2>1, <2>5, SoundPersists DEF ProcsSound
  <2> QED
    BY <2>4, <2>6, <2>7, <2>8, <2>9 DEF Inv
<1>2. ASSUME NEW p \in Intents, Expire(p)
      PROVE  Inv'
  <2>1. UNCHANGED <<rows, ledger, tickets, proc, todo, crashes>>
    BY <1>2 DEF Expire
  <2>2. Grows /\ TypeOK'
    BY <1>0, <1>2 DEF Grows, Expire, TypeOK
  <2>3. ProcsSound'
    BY <1>0, <2>1, <2>2, SoundPersists DEF ProcsSound
  <2>4. TodoExpired'
    BY <1>0, <2>1, <2>2, TodoPersists
  <2> QED
    BY <1>0, <2>1, <2>2, <2>3, <2>4
    DEF Inv, HashesProvePayment, TicketsArePaid, MemosKnown
<1>3. ASSUME NEW t \in Txs, CheckIn(t)
      PROVE  Inv'
  <2>1. UNCHANGED <<rows, stale, ledger, proc, todo, crashes>>
    BY <1>3 DEF CheckIn
  <2>2. Grows /\ TypeOK'
    BY <1>0, <1>3 DEF Grows, CheckIn, TypeOK, TicketStatus
  <2>3. \A q \in Txs : tickets'[q] # "none" => tickets[q] # "none"
    BY <1>0, <1>3 DEF CheckIn, TypeOK
  <2>4. TicketsArePaid'
    BY <1>0, <2>2, <2>3, TicketsPersist
  <2>5. ProcsSound'
    BY <1>0, <2>1, <2>2, SoundPersists DEF ProcsSound
  <2> QED
    BY <1>0, <2>1, <2>2, <2>4, <2>5
    DEF Inv, HashesProvePayment, MemosKnown, TodoExpired
<1>4. CASE Crash
  <2>1. UNCHANGED <<rows, stale, ledger, tickets>>
    BY <1>4 DEF Crash
  <2>2. Job \in Procs /\ Idle \in Process
    BY ProcessMembers DEF Procs
  <2>3. crashes' \in 0 .. MaxCrashes
    BY <1>0, <1>4, PaymentsAssumption DEF Crash, TypeOK
  <2>4. TypeOK'
    BY <1>0, <1>4, <2>1, <2>2, <2>3 DEF Crash, TypeOK
  <2>5. ProcsSound'
    BY <1>4 DEF Crash, ProcsSound, Sound, Idle, Saving
  <2> QED
    BY <1>0, <1>4, <2>1, <2>4, <2>5
    DEF Inv, Crash, HashesProvePayment, TicketsArePaid, MemosKnown, TodoExpired
<1> QED
  BY <1>1, <1>2, <1>3, <1>4 DEF Environment

\* Every step of Next.
LEMMA NextKeepsInv == Inv /\ [Next]_vars => Inv'
<1> SUFFICES ASSUME Inv, [Next]_vars PROVE Inv'
  OBVIOUS
<1>1. ASSUME NEW r \in Requests, RequestStep(r) PROVE Inv'
  BY <1>1, RequestMovesKeepInv, InsertIntentKeepsInv, TicketStepsKeepInv
  DEF RequestStep
<1>2. ASSUME NEW x \in Procs, SaveStep(x) PROVE Inv'
  BY <1>2, SaveLoadKeepsInv, SaveWriteKeepsInv DEF SaveStep
<1>3. CASE SweepStep
  BY <1>2, <1>3, SweepKeepsInv DEF SweepStep, Procs
<1>4. CASE Environment
  BY <1>4, EnvironmentKeepsInv
<1>5. CASE UNCHANGED vars
  BY <1>5 DEF vars, Inv, TypeOK, HashesProvePayment, TicketsArePaid, MemosKnown,
     TodoExpired, ProcsSound, Sound
<1> QED
  BY <1>1, <1>2, <1>3, <1>4, <1>5 DEF Next, Procs

LEMMA InvHolds == Spec => []Inv
<1>1. Init => Inv
  BY InitInv
<1>2. Inv /\ [Next]_vars => Inv'
  BY NextKeepsInv
<1> QED
  BY <1>1, <1>2, PTL DEF Spec

-----------------------------------------------------------------------------
(* The theorems.                                                           *)

\* In every reachable state the variables have their types; in particular the
\* job only ever saves, and every stored payment belongs to a user.
THEOREM TypeCorrect == Spec => []TypeOK
<1>1. Inv => TypeOK
  BY DEF Inv
<1> QED
  BY <1>1, InvHolds, PTL

\* A hash stored with a payment is that of a transaction on the ledger with
\* the payment's memo, destination, asset and amount, and the payment is no
\* longer pending (confirmPayment, and every save of a stale entity).
THEOREM PaymentsAreProved == Spec => []HashesProvePayment
<1>1. Inv => HashesProvePayment
  BY DEF Inv
<1> QED
  BY <1>1, InvHolds, PTL

\* issueTicket, however its awaits interleave with the job's and with other
\* requests', stores tickets under matching transactions only.
THEOREM NoTicketWithoutPayment == Spec => []TicketsArePaid
<1>1. Inv => TicketsArePaid
  BY DEF Inv
<1> QED
  BY <1>1, InvHolds, PTL

\* A save of a stale entity may fail a payment that was confirmed meanwhile,
\* but nothing fails a payment before its expiry.
THEOREM FailedOnlyByExpiry == Spec => OnlyExpiredIntentsFail
<1> DEFINE Fails == \A p \in Intents :
                       rows'[p].status = "failed" /\ rows[p].status # "failed"
                           => p \in stale
<1>1. Inv /\ [Next]_vars => [Fails]_vars
  <2> SUFFICES ASSUME Inv, Next, NEW p \in Intents,
                      rows'[p].status = "failed", rows[p].status # "failed"
               PROVE  p \in stale
    OBVIOUS
  <2>1. TypeOK /\ ProcsSound
    BY DEF Inv
  <2>2. ASSUME NEW x \in Procs, SaveWrite(x) PROVE p \in stale
    <3> DEFINE s == proc[x]
    <3>1. /\ s \in Saving
          /\ rows' = rows \/ rows' = [rows EXCEPT ![s.intent] =
                                         Updated(rows[s.intent], s)]
      BY <2>1, <2>2, SaveWriteType
    <3>2. s.intent \in Intents
      BY <3>1 DEF Saving
    <3>3. p = s.intent /\ rows'[p] = Updated(rows[p], s)
      BY <2>1, <3>1, <3>2 DEF TypeOK
    <3>4. s.status = "failed"
      BY <2>1, <3>1, <3>3, RowTypes, UpdatedType
    <3> QED
      BY <2>1, <3>1, <3>3, <3>4 DEF ProcsSound, Sound
  <2>3. ASSUME NEW r \in Requests, InsertIntent(r) PROVE FALSE
    BY <2>1, <2>3 DEF InsertIntent, TypeOK
  <2>4. \/ \E x \in Procs : SaveWrite(x)
        \/ \E r \in Requests : InsertIntent(r)
        \/ UNCHANGED rows
    BY DEF Next, RequestStep, SaveStep, SweepStep, Environment, Procs,
       CreateIntent, ConfirmPayment, FindOpenIntent, FindIntent, IssueTicket,
       CountSeats, SeekTicket, InsertTicket, ResaveLoad, ResaveWrite, SaveLoad,
       SweepStart, SweepNext, Pay, Expire, CheckIn, Crash
  <2> QED
    BY <2>2, <2>3, <2>4
<1>2. Inv /\ [Next]_vars => [Fails]_vars
  BY <1>1
<1> QED
  BY <1>2, InvHolds, PTL DEF Spec, OnlyExpiredIntentsFail

\* Once an intent has expired, is not confirmed and no request has decided to
\* confirm it, nothing will: confirmPayment looks at expiresAt before it saves.
THEOREM LapsedStaysLapsed == Spec => ExpiryIsFinal
<1> DEFINE Final == \A p \in Intents : Lapsed(p) => Lapsed(p)'
<1>1. Inv /\ [Next]_vars => [Final]_vars
  <2> SUFFICES ASSUME Inv, Next, NEW p \in Intents, Lapsed(p)
               PROVE  Lapsed(p)'
    OBVIOUS
  <2>0. TypeOK /\ ProcsSound
    BY DEF Inv
  <2>1. /\ p \in stale /\ rows[p].status # "confirmed"
        /\ \A x \in Procs : proc[x] \in Saving /\ proc[x].intent = p =>
              proc[x].status = "failed"
    BY DEF Lapsed, Saving
  <2> DEFINE Spares(n) == \/ n.pc \notin {"load", "write"}
                          \/ n.intent # p
                          \/ n.status # "confirmed"
             Goal == /\ p \in stale'
                     /\ rows'[p].status # "confirmed"
                     /\ \A x \in Procs : proc'[x] \in Saving =>
                           proc'[x].intent # p \/ proc'[x].status # "confirmed"
  <2>2. SUFFICES Goal
    BY <2>2 DEF Lapsed, Saving
  <2>3. \A z \in Saving : z.pc \in {"load", "write"}
    BY DEF Saving
  <2>4. ASSUME NEW x \in Procs, NEW n, proc'[x] = n, Spares(n),
               \A y \in Procs \ {x} : proc'[y] = proc[y]
        PROVE  \A y \in Procs : proc'[y] \in Saving =>
                  proc'[y].intent # p \/ proc'[y].status # "confirmed"
    BY <2>1, <2>3, <2>4
  <2>5. ASSUME NEW r \in Requests, NEW n, Moves(r, n), Spares(n)
        PROVE  Goal
    <3>1. proc'[r] = n /\ \A y \in Procs \ {r} : proc'[y] = proc[y]
      BY <2>0, <2>5, MovesType
    <3>2. r \in Procs
      BY DEF Procs
    <3> QED
      BY <2>1, <2>4, <2>5, <3>1, <3>2 DEF Moves
  <2>6. Spares(Idle)
    BY DEF Idle
  <2>7. ASSUME NEW r \in Requests,
               \/ \E u \in Users : \/ CreateIntent(r, u)
                                   \/ \E t \in Txs : ConfirmPayment(r, u, t)
               \/ FindOpenIntent(r)
               \/ FindIntent(r)
               \/ \E q \in Intents : IssueTicket(r, q)
               \/ CountSeats(r) \/ SeekTicket(r) \/ ResaveLoad(r)
        PROVE  Goal
    <3>1. ASSUME NEW u \in Users, CreateIntent(r, u) PROVE Goal
      <4>1. Spares([pc |-> "lookup", user |-> u])
        OBVIOUS
      <4> HIDE DEF Spares, Goal
      <4> QED
        BY <2>0, <2>5, <3>1, <4>1, CreateMoves
    <3>2. ASSUME NEW u \in Users, NEW t \in Txs, ConfirmPayment(r, u, t)
          PROVE  Goal
      <4>1. Spares([pc |-> "find", user |-> u, tx |-> t])
        OBVIOUS
      <4> HIDE DEF Spares, Goal
      <4> QED
        BY <2>0, <2>5, <3>2, <4>1, ConfirmMoves
    <3>3. CASE FindOpenIntent(r)
      <4>1. \A u \in Users : Spares([pc |-> "insert", user |-> u])
        OBVIOUS
      <4>2. \A q \in Intents : Spares(Save(q, "failed", NoTx, "insert"))
        BY DEF Save
      <4>3. stale \subseteq Intents
        BY <2>0 DEF TypeOK
      <4> HIDE DEF Spares, Goal
      <4> QED
        BY <2>0, <2>5, <2>6, <3>3, <4>1, <4>2, <4>3, LookupMoves
    <3>4. CASE FindIntent(r)
      <4>1. \A q \in Intents : Spares(Save(q, "failed", NoTx, "idle"))
        BY DEF Save
      <4>2. \A q \in Intents, t \in Txs :
               q \notin stale => Spares(Save(q, "confirmed", t, "idle"))
        BY <2>1 DEF Save
      <4> HIDE DEF Spares, Goal
      <4> QED
        BY <2>0, <2>5, <2>6, <3>4, <4>1, <4>2, FindMoves
    <3>5. ASSUME NEW q \in Intents, IssueTicket(r, q) PROVE Goal
      <4>1. \A t \in Txs : Spares([pc |-> "count", tx |-> t])
        OBVIOUS
      <4>2. HashesProvePayment
        BY DEF Inv
      <4> HIDE DEF Spares, Goal
      <4> QED
        BY <2>0, <2>5, <3>5, <4>1, <4>2, IssueMoves
    <3>6. CASE CountSeats(r) \/ SeekTicket(r) \/ ResaveLoad(r)
      <4>1. \A n \in Process :
               n.pc \in {"seek", "issue", "rewrite"} => Spares(n)
        OBVIOUS
      <4> HIDE DEF Spares, Goal
      <4> QED
        BY <2>0, <2>5, <2>6, <3>6, <4>1, CountMoves
    <3> QED
      BY <2>7, <3>1, <3>2, <3>3, <3>4, <3>5, <3>6
  <2>8. ASSUME NEW x \in Procs, SaveLoad(x) PROVE Goal
    <3>1. /\ proc[x] \in Saving
          /\ proc'[x] = [proc[x] EXCEPT !.pc = "write",
                            !.dirty = Differing(rows[proc[x].intent], proc[x])]
          /\ \A y \in Procs \ {x} : proc'[y] = proc[y]
      BY <2>0, <2>8, SaveLoadType
    <3>2. proc'[x].intent = proc[x].intent /\ proc'[x].status = proc[x].status
      BY <3>1 DEF Saving
    <3>3. Spares(proc'[x])
      BY <2>1, <3>1, <3>2
    <3> QED
      BY <2>1, <2>4, <2>8, <3>1, <3>3 DEF SaveLoad
  <2>9. ASSUME NEW x \in Procs, SaveWrite(x) PROVE Goal
    <3> DEFINE s == proc[x]
    <3>1. /\ s \in Saving
          /\ \/ proc'[x] = Idle
             \/ \E u \in Users : proc'[x] = [pc |-> "insert", user |-> u]
          /\ \A y \in Procs \ {x} : proc'[y] = proc[y]
          /\ rows' = rows \/ rows' = [rows EXCEPT ![s.intent] =
                                         Updated(rows[s.intent], s)]
      BY <2>0, <2>9, SaveWriteType
    <3>2. s.intent \in Intents
      BY <3>1 DEF Saving
    <3>3. rows'[p].status # "confirmed"
      <4>1. CASE rows'[p] = rows[p]
        BY <2>1, <4>1
      <4>2. CASE p = s.intent /\ rows'[p] = Updated(rows[p], s)
        <5>1. s.status = "failed"
          BY <2>1, <3>1, <4>2
        <5> QED
          BY <2>0, <2>1, <3>1, <4>2, <5>1, RowTypes, UpdatedType
      <4> QED
        BY <2>0, <3>1, <3>2, <4>1, <4>2 DEF TypeOK
    <3>4. Spares(proc'[x])
      <4>1. \A u \in Users : Spares([pc |-> "insert", user |-> u])
        OBVIOUS
      <4> HIDE DEF Spares
      <4> QED
        BY <2>6, <3>1, <4>1
    <3> QED
      BY <2>1, <2>4, <2>9, <3>1, <3>3, <3>4 DEF SaveWrite
  <2>10. ASSUME NEW r \in Requests, InsertIntent(r) PROVE Goal
    <3>1. r \in Procs
      BY DEF Procs
    <3>2. proc'[r] = Idle /\ \A y \in Procs \ {r} : proc'[y] = proc[y]
      BY <2>0, <2>10, GotoType, ProcessMembers DEF InsertIntent
    <3>3. rows'[p].status # "confirmed"
      BY <2>0, <2>1, <2>10 DEF InsertIntent, TypeOK
    <3> QED
      BY <2>1, <2>4, <2>6, <2>10, <3>1, <3>2, <3>3 DEF InsertIntent
  <2>11. ASSUME NEW r \in Requests, InsertTicket(r) \/ ResaveWrite(r)
         PROVE  Goal
    <3> DEFINE l == [pc |-> "reload", tx |-> proc[r].tx]
    <3>1. r \in Procs /\ Spares(l)
      BY DEF Procs
    <3>2. PICK n \in {Idle, l} : Goto(r, n)
      BY <2>11 DEF InsertTicket, ResaveWrite
    <3>3. l.tx \in Txs
      BY <2>0, <2>11, <3>1, Shapes DEF InsertTicket, ResaveWrite
    <3>4. n \in Process /\ Spares(n)
      BY <2>6, <3>1, <3>3, ProcessMembers
    <3>5. proc'[r] = n /\ \A y \in Procs \ {r} : proc'[y] = proc[y]
      BY <2>0, <3>2, <3>4, GotoType
    <3> QED
      BY <2>1, <2>4, <2>11, <3>1, <3>4, <3>5 DEF InsertTicket, ResaveWrite
  <2>12. CASE SweepStart
    BY <2>1, <2>12 DEF SweepStart
  <2>13. CASE SweepNext
    <3>1. PICK q \in todo : Goto(Job, Save(q, "failed", NoTx, "idle"))
      BY <2>13 DEF SweepNext
    <3> DEFINE n == Save(q, "failed", NoTx, "idle")
    <3>2. n \in Saving /\ n \in Sweeping /\ Spares(n)
      BY <2>0, SaveType DEF Sweeping, Save, TypeOK
    <3>3. Job \in Procs
      BY DEF Procs
    <3> HIDE DEF n
    <3>4. proc'[Job] = n /\ \A y \in Procs \ {Job} : proc'[y] = proc[y]
      BY <2>0, <3>1, <3>2, <3>3, SaverGotoType DEF n
    <3> QED
      BY <2>1, <2>4, <2>13, <3>2, <3>3, <3>4 DEF SweepNext
  <2>14. CASE Environment
    <3>1. Crash => Goal
      BY <2>1, <2>3, <2>6 DEF Crash, Idle
    <3>2. (\E t \in Txs, q \in Intents, ok \in BOOLEAN : Pay(t, q, ok)) => Goal
      BY <2>1 DEF Pay
    <3>3. (\E q \in Intents : Expire(q)) => Goal
      BY <2>1 DEF Expire
    <3>4. (\E t \in Txs : CheckIn(t)) => Goal
      BY <2>1 DEF CheckIn
    <3> HIDE DEF Goal
    <3> QED
      BY <2>14, <3>1, <3>2, <3>3, <3>4 DEF Environment
  <2> HIDE DEF Goal
  <2>15. ASSUME NEW r \in Requests, RequestStep(r) PROVE Goal
    BY <2>7, <2>10, <2>11, <2>15 DEF RequestStep
  <2>16. ASSUME NEW x \in Procs, SaveStep(x) PROVE Goal
    BY <2>8, <2>9, <2>16 DEF SaveStep
  <2> QED
    BY <2>12, <2>13, <2>14, <2>15, <2>16 DEF Next, SweepStep, Procs
<1> QED
  BY <1>1, InvHolds, PTL DEF Spec, ExpiryIsFinal
-----------------------------------------------------------------------------
(* Overselling.  A transaction has a seat promised to it while its ticket  *)
(* is valid and while a request has yet to insert or to save that ticket.  *)
(* Only counting the seats promises a new one, and it does so with room    *)
(* left among the valid tickets.                                           *)

Commits(s) == \/ s.pc \in {"seek", "issue", "reload"}
              \/ s.pc = "rewrite" /\ s.dirty

Committed == {t \in Txs : \E r \in Requests : Commits(proc[r]) /\ proc[r].tx = t}

Promised == Valid \cup Committed

SeatInv ==
    /\ IsFiniteSet(Promised)
    /\ Cardinality(Promised) <= MaxAttendees + Cardinality(Requests) - 1

LEMMA RequestCount == Cardinality(Requests) \in Nat \ {0}
BY PaymentsAssumption, FS_CardinalityType, FS_EmptySet

LEMMA InitSeats == Init => SeatInv
<1> SUFFICES ASSUME Init PROVE SeatInv
  OBVIOUS
<1>1. Requests \subseteq Procs
  BY DEF Procs
<1>2. Promised = {}
  BY <1>1 DEF Init, Promised, Valid, Committed, Commits, Idle
<1> QED
  BY <1>2, RequestCount, PaymentsAssumption, FS_EmptySet DEF SeatInv

LEMMA FewerPromised ==
    ASSUME SeatInv, Promised' \subseteq Promised
    PROVE  SeatInv'
<1> DEFINE P == Promised
           Q == Promised'
<1>1. IsFiniteSet(P) /\ Q \in SUBSET P
      /\ Cardinality(P) <= MaxAttendees + Cardinality(Requests) - 1
  BY DEF SeatInv
<1> HIDE DEF P, Q
<1>2. IsFiniteSet(Q) /\ Cardinality(Q) <= Cardinality(P)
  BY <1>1, FS_Subset
<1>3. Cardinality(P) \in Nat /\ Cardinality(Q) \in Nat
  BY <1>1, <1>2, FS_CardinalityType
<1>4. Cardinality(Q) <= MaxAttendees + Cardinality(Requests) - 1
  BY <1>1, <1>2, <1>3, RequestCount, PaymentsAssumption
<1> QED
  BY <1>2, <1>4 DEF SeatInv, Q

\* What a step that moves one process leaves to show.
LEMMA OneMoves ==
    ASSUME NEW x \in Procs, \A y \in Procs \ {x} : proc'[y] = proc[y],
           Valid' \subseteq Promised,
           Commits(proc'[x]) => proc'[x].tx \in Promised
    PROVE  Promised' \subseteq Promised
<1>1. SUFFICES ASSUME NEW t \in Committed' PROVE t \in Promised
  BY <1>1 DEF Promised
<1>2. PICK r \in Requests : Commits(proc'[r]) /\ proc'[r].tx = t
  BY DEF Committed, Commits
<1>3. r \in Procs /\ t \in Txs
  BY DEF Procs, Committed
<1>4. CASE r = x
  BY <1>2, <1>4
<1>5. CASE r # x
  BY <1>2, <1>3, <1>5 DEF Promised, Committed
<1> QED
  BY <1>4, <1>5

LEMMA MovesPromiseNothing ==
    ASSUME TypeOK, NEW r \in Requests, NEW n, Moves(r, n),
           Commits(n) => n.tx \in Promised
    PROVE  Promised' \subseteq Promised
<1>1. r \in Procs
  BY DEF Procs
<1>2. proc'[r] = n /\ \A y \in Procs \ {r} : proc'[y] = proc[y]
  BY MovesType
<1>3. Valid' \subseteq Promised
  BY DEF Moves, Valid, Promised
<1> QED
  BY <1>1, <1>2, <1>3, OneMoves

\* Creating an intent, confirming one and starting to issue a ticket.
LEMMA OtherMovesPromiseNothing ==
    ASSUME Inv, NEW r \in Requests,
           \/ \E u \in Users : \/ CreateIntent(r, u)
                               \/ \E t \in Txs : ConfirmPayment(r, u, t)
           \/ FindOpenIntent(r) \/ FindIntent(r)
           \/ \E p \in Intents : IssueTicket(r, p)
    PROVE  Promised' \subseteq Promised
<1>0. TypeOK /\ ProcsSound /\ HashesProvePayment
  BY DEF Inv
<1>1. ASSUME NEW n, Moves(r, n), ~ Commits(n)
      PROVE  Promised' \subseteq Promised
  BY <1>0, <1>1, MovesPromiseNothing
<1>2. /\ ~ Commits(Idle)
      /\ \A u \in Users, t \in Txs :
            /\ ~ Commits([pc |-> "lookup", user |-> u])
            /\ ~ Commits([pc |-> "insert", user |-> u])
            /\ ~ Commits([pc |-> "find", user |-> u, tx |-> t])
  BY DEF Commits, Idle
<1>3. \A t \in Txs : ~ Commits([pc |-> "count", tx |-> t])
  BY DEF Commits
<1>4. \A p, st, h, then : ~ Commits(Save(p, st, h, then))
  BY DEF Commits, Save
<1>5. \A u \in Users : ~ Commits([pc |-> "lookup", user |-> u])
                       /\ ~ Commits([pc |-> "insert", user |-> u])
  BY DEF Commits
<1>6. ASSUME NEW u \in Users, CreateIntent(r, u)
      PROVE  Promised' \subseteq Promised
  BY <1>0, <1>1, <1>5, <1>6, CreateMoves
<1>7. ASSUME NEW u \in Users, NEW t \in Txs, ConfirmPayment(r, u, t)
      PROVE  Promised' \subseteq Promised
  BY <1>0, <1>1, <1>2, <1>7, ConfirmMoves
<1>8. CASE FindOpenIntent(r)
  BY <1>0, <1>1, <1>2, <1>4, <1>5, <1>8, LookupMoves
<1>9. CASE FindIntent(r)
  BY <1>0, <1>1, <1>2, <1>4, <1>9, FindMoves
<1>10. ASSUME NEW p \in Intents, IssueTicket(r, p)
       PROVE  Promised' \subseteq Promised
  BY <1>0, <1>1, <1>3, <1>10, IssueMoves
<1> QED
  BY <1>6, <1>7, <1>8, <1>9, <1>10

\* Whoever inserts or saves a ticket had its seat promised.
LEMMA TicketStepsPromiseNothing ==
    ASSUME TypeOK, NEW r \in Requests,
           SeekTicket(r) \/ InsertTicket(r) \/ ResaveLoad(r) \/ ResaveWrite(r)
    PROVE  Promised' \subseteq Promised
<1> DEFINE t == proc[r].tx
<1>1. r \in Procs /\ r # Job
  BY PaymentsAssumption DEF Procs
<1>2. t \in Txs
  BY <1>1, Shapes DEF SeekTicket, InsertTicket, ResaveLoad, ResaveWrite
<1>3. Commits(proc[r]) => t \in Promised
  BY <1>2 DEF Promised, Committed
<1>4. \A y \in Procs \ {r} : proc'[y] = proc[y]
  BY <1>1 DEF SeekTicket, InsertTicket, ResaveLoad, ResaveWrite, Goto, TypeOK
<1>5. Valid' \subseteq Promised
  <2>1. CASE SeekTicket(r) \/ ResaveLoad(r)
    BY <2>1 DEF SeekTicket, ResaveLoad, Valid, Promised
  <2>2. CASE InsertTicket(r)
    <3>1. t \in Promised
      BY <1>3, <2>2 DEF InsertTicket, Commits
    <3>2. \A q \in Txs \ {t} : tickets'[q] = tickets[q]
      BY <1>2, <2>2 DEF InsertTicket, TypeOK
    <3> QED
      BY <3>1, <3>2 DEF Valid, Promised
  <2>3. CASE ResaveWrite(r)
    <3>1. proc[r].dirty => t \in Promised
      BY <1>3, <2>3 DEF ResaveWrite, Commits
    <3>2. /\ \A q \in Txs \ {t} : tickets'[q] = tickets[q]
          /\ ~ proc[r].dirty => tickets'[t] = tickets[t]
      BY <1>2, <2>3 DEF ResaveWrite, TypeOK
    <3> QED
      BY <3>1, <3>2 DEF Valid, Promised
  <2> QED
    BY <2>1, <2>2, <2>3
<1>6. Commits(proc'[r]) => proc'[r].tx \in Promised
  <2>1. CASE ResaveWrite(r)
    <3>1. proc'[r] = Idle
      BY <1>1, <2>1 DEF ResaveWrite, Goto, TypeOK
    <3> QED
      BY <3>1 DEF Commits, Idle
  <2>2. CASE ~ ResaveWrite(r)
    <3>1. t \in Promised
      BY <1>3, <2>2 DEF SeekTicket, InsertTicket, ResaveLoad, Commits
    <3>2. proc[r] \in [pc : {"count", "seek", "issue", "reload"}, tx : Txs]
      BY <1>1, <2>2, Shapes DEF SeekTicket, InsertTicket, ResaveLoad
    <3>3. \/ proc'[r] = Idle
          \/ proc'[r] = [proc[r] EXCEPT !.pc = "issue"]
          \/ proc'[r] = [pc |-> "reload", tx |-> t]
          \/ proc'[r] = [pc |-> "rewrite", tx |-> t, dirty |-> tickets[t] # "valid"]
      BY <1>1, <2>2 DEF SeekTicket, InsertTicket, ResaveLoad, Goto, TypeOK
    <3>4. proc'[r] = Idle \/ proc'[r].tx = t
      BY <3>2, <3>3
    <3> QED
      BY <3>1, <3>4 DEF Commits, Idle
  <2> QED
    BY <2>1, <2>2
<1> QED
  BY <1>1, <1>4, <1>5, <1>6, OneMoves

\* Saves of payments, by requests and by the job.
LEMMA SavesPromiseNothing ==
    ASSUME Inv, NEW x \in Procs, SaveLoad(x) \/ SaveWrite(x)
    PROVE  Promised' \subseteq Promised
<1>0. TypeOK /\ ProcsSound
  BY DEF Inv
<1>1. /\ \A y \in Procs \ {x} : proc'[y] = proc[y]
      /\ ~ Commits(proc'[x])
  <2>1. CASE SaveLoad(x)
    <3>1. /\ proc[x] \in Saving
          /\ proc'[x] = [proc[x] EXCEPT !.pc = "write",
                            !.dirty = Differing(rows[proc[x].intent], proc[x])]
          /\ \A y \in Procs \ {x} : proc'[y] = proc[y]
      BY <1>0, <2>1, SaveLoadType
    <3>2. proc'[x].pc = "write"
      BY <3>1 DEF Saving
    <3> QED
      BY <3>1, <3>2 DEF Commits
  <2>2. CASE SaveWrite(x)
    <3>1. /\ \/ proc'[x] = Idle
             \/ \E u \in Users : proc'[x] = [pc |-> "insert", user |-> u]
          /\ \A y \in Procs \ {x} : proc'[y] = proc[y]
      BY <1>0, <2>2, SaveWriteType
    <3>2. CASE proc'[x] = Idle
      BY <3>1, <3>2 DEF Commits, Idle
    <3>3. ASSUME NEW u \in Users, proc'[x] = [pc |-> "insert", user |-> u]
          PROVE  ~ Commits(proc'[x])
      BY <3>3 DEF Commits
    <3> QED
      BY <3>1, <3>2, <3>3
  <2> QED
    BY <2>1, <2>2
<1>2. Valid' \subseteq Promised
  BY DEF SaveLoad, SaveWrite, Valid, Promised
<1> QED
  BY <1>1, <1>2, OneMoves

\* The insert of a payment, the job's own steps and the environment.
LEMMA RestPromisesNothing ==
    ASSUME TypeOK,
           \/ \E r \in Requests : InsertIntent(r)
           \/ SweepStart \/ SweepNext \/ Environment \/ UNCHANGED vars
    PROVE  Promised' \subseteq Promised
<1>1. ASSUME UNCHANGED proc, Valid' \subseteq Valid
      PROVE  Promised' \subseteq Promised
  BY <1>1 DEF Promised, Committed, Commits
<1>2. ASSUME NEW r \in Requests, InsertIntent(r)
      PROVE  Promised' \subseteq Promised
  <2>1. r \in Procs
    BY DEF Procs
  <2>2. proc'[r] = Idle /\ \A y \in Procs \ {r} : proc'[y] = proc[y]
    BY <1>2, GotoType, ProcessMembers DEF InsertIntent
  <2>3. ~ Commits(proc'[r])
    BY <2>2 DEF Commits, Idle
  <2>4. Valid' \subseteq Promised
    BY <1>2 DEF InsertIntent, Valid, Promised
  <2> QED
    BY <2>1, <2>2, <2>3, <2>4, OneMoves
<1>3. CASE SweepStart \/ UNCHANGED vars
  BY <1>1, <1>3 DEF SweepStart, vars, Valid
<1>4. CASE SweepNext
  <2>1. Job \in Procs
    BY DEF Procs
  <2>2. PICK p \in todo : Goto(Job, Save(p, "failed", NoTx, "idle"))
    BY <1>4 DEF SweepNext
  <2>3. /\ proc'[Job] = Save(p, "failed", NoTx, "idle")
        /\ \A y \in Procs \ {Job} : proc'[y] = proc[y]
    BY <2>1, <2>2 DEF Goto, TypeOK
  <2>4. ~ Commits(proc'[Job])
    BY <2>3 DEF Commits, Save
  <2>5. Valid' \subseteq Promised
    BY <1>4 DEF SweepNext, Valid, Promised
  <2> QED
    BY <2>1, <2>3, <2>4, <2>5, OneMoves
<1>5. CASE Crash
  <2>1. Valid' = Valid
    BY <1>5 DEF Crash, Valid
  <2>2. \A r \in Requests : proc'[r] = Idle
    BY <1>5 DEF Crash, Procs
  <2>3. Committed' = {}
    BY <2>2 DEF Committed, Commits, Idle
  <2> QED
    BY <2>1, <2>3 DEF Promised
<1>6. ASSUME NEW t \in Txs, CheckIn(t) PROVE Promised' \subseteq Promised
  BY <1>1, <1>6 DEF CheckIn, Valid, TypeOK
<1>7. ASSUME NEW t \in Txs, NEW p \in Intents, NEW ok \in BOOLEAN, Pay(t, p, ok)
      PROVE  Promised' \subseteq Promised
  BY <1>1, <1>7 DEF Pay, Valid
<1>8. ASSUME NEW p \in Intents, Expire(p) PROVE Promised' \subseteq Promised
  BY <1>1, <1>8 DEF Expire, Valid
<1> QED
  BY <1>2, <1>3, <1>4, <1>5, <1>6, <1>7, <1>8 DEF Environment

\* When the count finds room, the valid tickets leave a seat free, and at
\* most as many seats as there are requests are promised beside them.
LEMMA CountKeepsSeats ==
    ASSUME TypeOK, SeatInv, NEW r \in Requests, CountSeats(r)
    PROVE  SeatInv'
<1> DEFINE V == Valid
           R == {q \in Requests : Commits(proc'[q])}
           f == [q \in R |-> proc'[q].tx]
           C == Committed'
<1>1. r \in Procs
  BY DEF Procs
<1>2. CASE ~ Cardinality(Valid) < MaxAttendees
  <2>1. Moves(r, Idle)
    BY <1>2, ProcessMembers DEF CountSeats, Moves
  <2>2. ~ Commits(Idle)
    BY DEF Commits, Idle
  <2> QED
    BY <2>1, <2>2, MovesPromiseNothing, FewerPromised
<1>3. CASE Cardinality(Valid) < MaxAttendees
  <2>1. TypeOK'
    <3>1. proc[r] \in [pc : {"count", "seek", "issue", "reload"}, tx : Txs]
      BY <1>1, Shapes DEF CountSeats
    <3>2. [proc[r] EXCEPT !.pc = "seek"] = [pc |-> "seek", tx |-> proc[r].tx]
      BY <3>1
    <3>3. Moves(r, [pc |-> "seek", tx |-> proc[r].tx])
      BY <1>3, <3>1, <3>2, ProcessMembers DEF CountSeats, Moves
    <3> QED
      BY <3>3, MovesType
  <2>2. \A q \in R : proc'[q].tx \in Txs
    <3>1. ASSUME NEW x \in Procs, Commits(proc'[x]) PROVE proc'[x].tx \in Txs
      <4>1. proc'[x] \in Process
        BY <2>1, <3>1 DEF TypeOK
      <4> QED
        BY <3>1, <4>1 DEF Commits, Process, Idle, Saving
    <3> QED
      BY <3>1 DEF Procs
  <2>3. f \in Surjection(R, C)
    BY <2>2 DEF Committed, Commits, Surjection
  <2>4. IsFiniteSet(R) /\ Cardinality(R) <= Cardinality(Requests)
    BY PaymentsAssumption, FS_Subset
  <2>5. IsFiniteSet(V)
    BY FS_Subset DEF SeatInv, Promised
  <2>6. Promised' = V \cup C /\ Cardinality(V) < MaxAttendees
    BY <1>3 DEF CountSeats, Promised, Valid
  <2> HIDE DEF V, R, C, f
  <2>7. IsFiniteSet(C) /\ Cardinality(C) <= Cardinality(R)
    BY <2>3, <2>4, FS_Surjection
  <2>8. /\ IsFiniteSet(V \cup C) /\ IsFiniteSet(V \cap C)
        /\ Cardinality(V \cup C) =
              Cardinality(V) + Cardinality(C) - Cardinality(V \cap C)
    <3>1. V \cap C \in SUBSET C
      OBVIOUS
    <3> QED
      BY <2>5, <2>7, <3>1, FS_Union, FS_Subset
  <2>9. /\ Cardinality(V) \in Nat /\ Cardinality(C) \in Nat
        /\ Cardinality(R) \in Nat /\ Cardinality(V \cap C) \in Nat
    BY <2>4, <2>5, <2>7, <2>8, FS_CardinalityType
  <2>10. Cardinality(V \cup C) <= MaxAttendees + Cardinality(Requests) - 1
    BY <2>4, <2>6, <2>7, <2>8, <2>9, RequestCount, PaymentsAssumption
  <2> QED
    BY <2>6, <2>8, <2>10 DEF SeatInv
<1> QED
  BY <1>2, <1>3

LEMMA NextKeepsSeats == Inv /\ SeatInv /\ [Next]_vars => SeatInv'
<1> SUFFICES ASSUME Inv, SeatInv, [Next]_vars PROVE SeatInv'
  OBVIOUS
<1>0. TypeOK
  BY DEF Inv
<1>1. ASSUME NEW r \in Requests, CountSeats(r) PROVE SeatInv'
  BY <1>0, <1>1, CountKeepsSeats
<1>2. ASSUME NEW r \in Requests, RequestStep(r), ~ CountSeats(r) PROVE SeatInv'
  <2>1. Promised' \subseteq Promised
    BY <1>0, <1>2, OtherMovesPromiseNothing, TicketStepsPromiseNothing,
       RestPromisesNothing DEF RequestStep
  <2> QED
    BY <2>1, FewerPromised
<1>3. ASSUME NEW x \in Procs, SaveStep(x) PROVE SeatInv'
  BY <1>3, SavesPromiseNothing, FewerPromised DEF SaveStep
<1>4. CASE SweepStart \/ SweepNext \/ Environment \/ UNCHANGED vars
  BY <1>0, <1>4, RestPromisesNothing, FewerPromised
<1> QED
  BY <1>1, <1>2, <1>3, <1>4 DEF Next, SweepStep, Procs

\* The capacity check of issueTicket is not atomic with its insert, and the
\* PDF's second save can make a scanned ticket valid again; still there are
\* never more valid tickets than seats and all requests but one.
THEOREM OversellBounded == Spec => []OversellIsBounded
<1>1. SeatInv => OversellIsBounded
  <2> SUFFICES ASSUME SeatInv PROVE OversellIsBounded
    OBVIOUS
  <2> DEFINE V == Valid
             P == Promised
  <2>1. IsFiniteSet(P) /\ V \in SUBSET P
        /\ Cardinality(P) <= MaxAttendees + Cardinality(Requests) - 1
    BY DEF SeatInv, Promised
  <2> HIDE DEF V, P
  <2>2. IsFiniteSet(V) /\ Cardinality(V) <= Cardinality(P)
    BY <2>1, FS_Subset
  <2>3. Cardinality(V) \in Nat /\ Cardinality(P) \in Nat
    BY <2>1, <2>2, FS_CardinalityType
  <2>4. Cardinality(V) <= MaxAttendees + Cardinality(Requests) - 1
    BY <2>1, <2>2, <2>3, RequestCount, PaymentsAssumption
  <2> QED
    BY <2>4 DEF OversellIsBounded, V
<1> QED
  BY <1>1, InitSeats, NextKeepsSeats, InvHolds, PTL DEF Spec
=============================================================================
