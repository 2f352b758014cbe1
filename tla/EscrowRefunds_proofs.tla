------------------------ MODULE EscrowRefunds_proofs -------------------------
(***************************************************************************)
(* What EscrowRefunds guarantees for any number of payments, requests and  *)
(* retries.  The inductive invariant adds to the properties what a process *)
(* has learned and still relies on: the ledger never takes a refund back   *)
(* and never reopens an account, so what was true when a handler looked is *)
(* true when it acts, however many others have run in between.             *)
(***************************************************************************)
EXTENDS EscrowRefunds, TLAPS

\* The awaits at which a process has a payment in hand.
InHand == {"verify", "issue", "creds", "check", "send", "load", "write", "void"}

Saving == {"load", "write"}

\* What a process relies on, given what was sent and the account's state.
Known(s, out, acc) ==
    /\ s.pc \in InHand => s.pay \in Payments
    /\ s.pc \in Saving =>
          /\ s.status # "none"
          /\ s.status = "refunded" => out[s.pay] > 0
    /\ s.pc = "void" => out[s.pay] > 0
    /\ s.pc \in InHand \cup {"next"} =>
          (s.kind = "all" /\ s.ok =>
              \A p \in s.listed \ s.todo :
                  (s.pc \in InHand /\ p = s.pay) \/ out[p] > 0)
    /\ s.pc = "merge" => \A p \in s.listed : out[p] > 0
    /\ s.pc = "record" => acc = "closed"

ProcsKnown == \A x \in Procs : Known(proc[x], sent, account)

Inv ==
    /\ TypeOK
    /\ RefundedIsPaidBack
    /\ CredentialsOutliveAccount
    /\ VoidedOwnersArePaid
    /\ ProcsKnown

-----------------------------------------------------------------------------
(* The ledger only ever adds refunds, and closes the account for good.     *)

Grown ==
    /\ account' \in {"open", "closed"}
    /\ account = "closed" => account' = "closed"
    /\ funds' \in Nat
    /\ paid' \subseteq Payments
    /\ sent' \in [Payments -> Nat]
    /\ \A p \in Payments : sent[p] > 0 => sent'[p] > 0

LEMMA StillGrown == TypeOK /\ UNCHANGED ledger => Grown
BY DEF TypeOK, ledger, Grown

LEMMA TransferGrown ==
    ASSUME TypeOK, NEW p \in Payments, Transfer(p)
    PROVE  Grown /\ sent'[p] > 0
BY DEF TypeOK, Transfer, Grown

LEMMA CloseGrown ==
    ASSUME TypeOK, Close
    PROVE  Grown /\ account' = "closed"
BY DEF TypeOK, Close, Grown

-----------------------------------------------------------------------------
(* The processes.                                                          *)

LEMMA BusyShape ==
    ASSUME TypeOK, NEW x \in Procs, proc[x].pc # "idle"
    PROVE  proc[x] \in Busy
BY DEF TypeOK, Idle

LEMMA IdleKnown == \A out, acc : Known(Idle, out, acc)
BY DEF Known, Idle, InHand, Saving

LEMMA KnownPersists ==
    ASSUME TypeOK, Grown, NEW s \in {Idle} \cup Busy, Known(s, sent, account)
    PROVE  Known(s, sent', account')
<1>1. CASE s = Idle
  BY <1>1, IdleKnown
<1>2. CASE s \in Busy
  BY <1>2 DEF Known, Grown, Busy, InHand, Saving
<1> QED
  BY <1>1, <1>2

LEMMA BeginShape ==
    ASSUME NEW kind \in Kinds, NEW pc \in Pcs
    PROVE  LET s == Begin(kind, pc)
           IN  /\ s \in Busy
               /\ s.kind = kind /\ s.pc = pc /\ s.listed = {} /\ s.todo = {}
               /\ s.tries = 0 /\ s.status = "none"
<1>1. RefundsAssumption
  BY RefundsAssumption
<1> QED
  BY <1>1 DEF RefundsAssumption, Begin, Busy

\* A fresh request for a payment, or for the whole event.
LEMMA PayShape ==
    ASSUME NEW kind \in Kinds, NEW pc \in {"verify", "issue", "creds"},
           NEW p \in Payments, NEW h \in BOOLEAN
    PROVE  LET s == [Begin(kind, pc) EXCEPT !.pay = p, !.hash = h]
               t == [Begin(kind, pc) EXCEPT !.pay = p]
           IN  /\ s \in Busy /\ t \in Busy
               /\ \A out, acc : Known(s, out, acc) /\ Known(t, out, acc)
<1> DEFINE b == Begin(kind, pc)
<1>1. b \in Busy /\ b.kind = kind /\ b.pc = pc /\ b.listed = {}
  BY BeginShape DEF Pcs
<1> HIDE DEF b
<1> DEFINE s == [b EXCEPT !.pay = p, !.hash = h]
           t == [b EXCEPT !.pay = p]
<1>2. s \in Busy /\ t \in Busy
  BY <1>1 DEF Busy
<1>3. s.pc = pc /\ s.pay = p /\ s.listed = {} /\ t.pc = pc /\ t.pay = p
      /\ t.listed = {}
  BY <1>1 DEF Busy
<1>4. \A out, acc : Known(s, out, acc) /\ Known(t, out, acc)
  BY <1>3 DEF Known, InHand, Saving
<1> QED
  BY <1>2, <1>4 DEF b

LEMMA BeginKnown ==
    ASSUME NEW kind \in Kinds, NEW pc \in {"cancel", "list"}, NEW out, NEW acc
    PROVE  Begin(kind, pc) \in Busy /\ Known(Begin(kind, pc), out, acc)
BY BeginShape DEF Pcs, Known, InHand, Saving

\* A process that moves on knowing what it relies on leaves the processes in
\* order.
LEMMA Advance ==
    ASSUME TypeOK, ProcsKnown, Grown, NEW x \in Procs,
           NEW n \in {Idle} \cup Busy, Known(n, sent', account'), Goto(x, n)
    PROVE  /\ proc' \in [Procs -> {Idle} \cup Busy]
           /\ ProcsKnown'
<1>1. proc' \in [Procs -> {Idle} \cup Busy]
  BY DEF TypeOK, Goto
<1>2. ASSUME NEW y \in Procs PROVE Known(proc'[y], sent', account')
  <2>1. CASE y = x
    BY <2>1 DEF TypeOK, Goto
  <2>2. CASE y # x
    <3>1. proc'[y] = proc[y] /\ proc[y] \in {Idle} \cup Busy
      BY <2>2 DEF TypeOK, Goto
    <3>2. Known(proc[y], sent, account)
      BY DEF ProcsKnown
    <3> QED
      BY <3>1, <3>2, KnownPersists
  <2> QED
    BY <2>1, <2>2
<1> QED
  BY <1>1, <1>2 DEF ProcsKnown

\* The same for a step that only moves a process.
LEMMA Quiet ==
    ASSUME Inv, NEW x \in Procs, NEW n \in {Idle} \cup Busy,
           Known(n, sent', account'), Goto(x, n), Grown,
           UNCHANGED <<event, rows, tickets, crashes>>
    PROVE  Inv'
<1>1. TypeOK /\ ProcsKnown
  BY DEF Inv
<1>2. proc' \in [Procs -> {Idle} \cup Busy] /\ ProcsKnown'
  BY <1>1, Advance
<1>3. TypeOK'
  BY <1>1, <1>2 DEF TypeOK, Grown, event
<1>4. RefundedIsPaidBack'
  BY DEF Inv, RefundedIsPaidBack, Grown
<1>5. CredentialsOutliveAccount'
  BY DEF Inv, CredentialsOutliveAccount, Grown, event
<1>6. VoidedOwnersArePaid'
  BY DEF Inv, VoidedOwnersArePaid, Grown
<1> QED
  BY <1>2, <1>3, <1>4, <1>5, <1>6 DEF Inv
-----------------------------------------------------------------------------
(* How the remembered payment moves on.                                    *)

LEMMA SaveShape ==
    ASSUME NEW s \in Busy, NEW st \in {"confirmed", "failed", "refunded"}
    PROVE  LET n == Save(s, st)
           IN  /\ n \in Busy
               /\ n.pc = "load" /\ n.status = st /\ n.tries = 0
               /\ n.kind = s.kind /\ n.todo = s.todo /\ n.listed = s.listed
               /\ n.ok = s.ok /\ n.pay = s.pay
<1>1. 0 \in 0 .. Retries
  BY RefundsAssumption DEF RefundsAssumption
<1> DEFINE n == [s EXCEPT !.pc = "load", !.status = st, !.tries = 0]
<1>2. n \in Busy
  BY <1>1 DEF Busy, Pcs
<1>3. /\ n.pc = "load" /\ n.status = st /\ n.tries = 0
      /\ n.kind = s.kind /\ n.todo = s.todo /\ n.listed = s.listed
      /\ n.ok = s.ok /\ n.pay = s.pay
  BY DEF Busy
<1> QED
  BY <1>2, <1>3 DEF Save

LEMMA NextShape ==
    ASSUME NEW s \in Busy
    PROVE  LET n == NextPayment(s)
           IN  /\ n \in Busy
               /\ n.pc = "next" /\ n.kind = s.kind /\ n.todo = s.todo
               /\ n.listed = s.listed /\ n.ok = s.ok
<1> DEFINE b == Begin(s.kind, "next")
<1>1. b \in Busy /\ b.kind = s.kind /\ b.pc = "next"
  BY BeginShape DEF Busy, Pcs
<1>2. s.todo \in SUBSET Payments /\ s.listed \in SUBSET Payments
      /\ s.hashed \in SUBSET Payments /\ s.ok \in BOOLEAN
  BY DEF Busy
<1> HIDE DEF b
<1> DEFINE n == [b EXCEPT !.todo = s.todo, !.listed = s.listed,
                          !.hashed = s.hashed, !.ok = s.ok]
<1>3. n \in Busy
  BY <1>1, <1>2 DEF Busy
<1>4. n.pc = "next" /\ n.kind = s.kind /\ n.todo = s.todo
      /\ n.listed = s.listed /\ n.ok = s.ok
  BY <1>1, <1>2 DEF Busy
<1> QED
  BY <1>3, <1>4 DEF NextPayment, b

\* A save keeps what is known, if the payment was sent back or is not to be
\* marked refunded.
LEMMA SaveKnown ==
    ASSUME NEW s \in Busy, NEW st \in {"confirmed", "failed", "refunded"},
           NEW out, NEW acc, s.pc \in InHand, Known(s, out, acc),
           st = "refunded" => out[s.pay] > 0
    PROVE  Known(Save(s, st), out, acc)
BY SaveShape DEF Known, InHand, Saving

LEMMA GiveUpKnown ==
    ASSUME NEW s \in Busy, NEW out, NEW acc, s.pc \in InHand, Known(s, out, acc)
    PROVE  GiveUp(s) \in Busy /\ Known(GiveUp(s), out, acc)
<1>1. CASE s.kind = "auto"
  BY <1>1, NextShape DEF GiveUp, Known, InHand, Saving
<1>2. CASE s.kind # "auto"
  BY <1>2, SaveShape, SaveKnown DEF GiveUp
<1> QED
  BY <1>1, <1>2

\* The loop goes on, with the payment refunded or the result spoilt.
LEMMA ContinueKnown ==
    ASSUME NEW s \in Busy, NEW out, NEW acc, s.pc \in InHand, Known(s, out, acc),
           s.ok => out[s.pay] > 0
    PROVE  Continue(s) \in {Idle} \cup Busy /\ Known(Continue(s), out, acc)
<1>1. CASE s.kind \in {"all", "auto"}
  <2>1. NextPayment(s) \in Busy
    BY NextShape
  <2>2. Known(NextPayment(s), out, acc)
    BY <1>1, NextShape DEF Known, InHand, Saving
  <2> QED
    BY <1>1, <2>1, <2>2 DEF Continue
<1>2. CASE s.kind \notin {"all", "auto"}
  BY <1>2, IdleKnown DEF Continue
<1> QED
  BY <1>1, <1>2

LEMMA AfterSaveKnown ==
    ASSUME NEW s \in Busy, NEW out, NEW acc, s.pc = "write", Known(s, out, acc)
    PROVE  AfterSave(s) \in {Idle} \cup Busy /\ Known(AfterSave(s), out, acc)
<1>1. CASE s.status = "refunded"
  <2> DEFINE n == [s EXCEPT !.pc = "void", !.dirty = {}]
  <2>1. n \in Busy
    BY DEF Busy, Pcs
  <2>2. n.pc = "void" /\ n.pay = s.pay /\ n.kind = s.kind /\ n.ok = s.ok
        /\ n.listed = s.listed /\ n.todo = s.todo
    BY DEF Busy
  <2>3. Known(n, out, acc)
    BY <1>1, <2>2 DEF Known, InHand, Saving
  <2> QED
    BY <1>1, <2>1, <2>3 DEF AfterSave
<1>2. CASE s.status # "refunded"
  <2> DEFINE n == [s EXCEPT !.ok = FALSE]
  <2>1. n \in Busy
    BY DEF Busy
  <2>2. n.pc = s.pc /\ n.pay = s.pay /\ n.kind = s.kind /\ n.ok = FALSE
        /\ n.status = s.status
    BY DEF Busy
  <2>3. Known(n, out, acc) /\ n.pc \in InHand
    BY <1>2, <2>2 DEF Known, InHand, Saving
  <2> HIDE DEF n
  <2>4. Continue(n) \in {Idle} \cup Busy /\ Known(Continue(n), out, acc)
    BY <2>1, <2>2, <2>3, ContinueKnown
  <2> QED
    BY <1>2, <2>4 DEF AfterSave, n
<1> QED
  BY <1>1, <1>2

-----------------------------------------------------------------------------
(* The steps that only move a process.                                     *)

\* Where a process is, what it knows, and that the ledger stands still.
LEMMA HereKnown ==
    ASSUME Inv, NEW x \in Procs, proc[x].pc # "idle"
    PROVE  TypeOK /\ proc[x] \in Busy /\ Known(proc[x], sent, account)
BY BusyShape DEF Inv, ProcsKnown

LEMMA Still ==
    ASSUME Inv, NEW x \in Procs, NEW n \in {Idle} \cup Busy,
           Known(n, sent, account), Goto(x, n),
           UNCHANGED <<event, ledger, rows, tickets, crashes>>
    PROVE  Inv'
<1>1. Grown /\ sent' = sent /\ account' = account
  BY StillGrown DEF Inv, ledger
<1> QED
  BY <1>1, Quiet

LEMMA SaveLoadKeeps ==
    ASSUME Inv, NEW x \in Procs, SaveLoad(x)
    PROVE  Inv'
<1> DEFINE s == proc[x]
           d == Differing(rows[s.pay], s)
           n == [s EXCEPT !.pc = "write", !.dirty = d]
<1>1. s.pc = "load" /\ Goto(x, n)
      /\ UNCHANGED <<event, ledger, rows, tickets, crashes>>
  BY DEF SaveLoad, At
<1>2. s \in Busy /\ Known(s, sent, account)
  BY <1>1, HereKnown
<1>3. d \in SUBSET {"status", "hash"}
  BY DEF Differing
<1>4. n \in Busy
  BY <1>2, <1>3 DEF Busy, Pcs
<1>5. n.pc = "write" /\ n.pay = s.pay /\ n.kind = s.kind /\ n.ok = s.ok
      /\ n.listed = s.listed /\ n.todo = s.todo /\ n.status = s.status
  BY <1>2, <1>3 DEF Busy
<1>6. Known(n, sent, account)
  BY <1>1, <1>2, <1>5 DEF Known, InHand, Saving
<1> QED
  BY <1>1, <1>4, <1>6, Still

LEMMA BuyingKeeps ==
    ASSUME Inv, NEW r \in Requests, NEW p \in Payments,
           \/ ConfirmPayment(r, p) \/ IssueTicket(r, p)
           \/ RefundSinglePayment(r, p)
    PROVE  Inv'
<1>1. r \in Procs /\ rows[p].hash \in BOOLEAN
  BY DEF Inv, TypeOK, Procs, Row
<1>2. UNCHANGED <<event, ledger, rows, tickets, crashes>>
  BY DEF ConfirmPayment, IssueTicket, RefundSinglePayment
<1>3. {"confirm", "issue", "single"} \subseteq Kinds
  BY DEF Kinds
<1>4. PICK n \in Busy : Goto(r, n) /\ Known(n, sent, account)
  BY <1>1, <1>3, PayShape DEF ConfirmPayment, IssueTicket, RefundSinglePayment
<1> QED
  BY <1>1, <1>2, <1>4, Still

LEMMA VerifyKeeps ==
    ASSUME Inv, NEW r \in Requests, VerifyDestination(r)
    PROVE  Inv'
<1>1. r \in Procs /\ proc[r].pc = "verify"
  BY DEF Procs, VerifyDestination, At
<1>2. proc[r] \in Busy /\ Known(proc[r], sent, account)
  BY <1>1, HereKnown
<1>3. Save(proc[r], "confirmed") \in Busy
      /\ Known(Save(proc[r], "confirmed"), sent, account)
  BY <1>1, <1>2, SaveShape, SaveKnown DEF InHand
<1> QED
  BY <1>1, <1>3, IdleKnown, Still DEF VerifyDestination

LEMMA CredentialsKeep ==
    ASSUME Inv, NEW r \in Requests, ReadCredentials(r)
    PROVE  Inv'
<1> DEFINE s == proc[r]
           n == [s EXCEPT !.pc = "check"]
<1>1. r \in Procs /\ s.pc = "creds"
  BY DEF Procs, ReadCredentials, At
<1>2. s \in Busy /\ Known(s, sent, account)
  BY <1>1, HereKnown
<1>3. n \in Busy /\ n.pc = "check" /\ n.pay = s.pay /\ n.kind = s.kind
      /\ n.ok = s.ok /\ n.listed = s.listed /\ n.todo = s.todo
  BY <1>2 DEF Busy, Pcs
<1>4. Known(n, sent, account)
  BY <1>1, <1>2, <1>3 DEF Known, InHand, Saving
<1> HIDE DEF n
<1>5. Goto(r, n) \/ Goto(r, Idle)
  BY DEF ReadCredentials, n
<1> QED
  BY <1>1, <1>3, <1>4, <1>5, IdleKnown, Still DEF ReadCredentials
LEMMA RefundEventKeeps ==
    ASSUME Inv, NEW r \in Requests, NEW kind \in AdminCalls,
           RefundEvent(r, kind)
    PROVE  Inv'
<1>1. r \in Procs /\ kind \in Kinds
  BY RefundsAssumption DEF RefundsAssumption, Procs, Kinds
<1>2. Begin(kind, "list") \in Busy /\ Known(Begin(kind, "list"), sent, account)
  BY <1>1, BeginKnown
<1> QED
  BY <1>1, <1>2, Still DEF RefundEvent

LEMMA CancelKeeps ==
    ASSUME Inv, NEW r \in Requests, CancelEvent(r)
    PROVE  Inv'
<1>1. r \in Procs /\ "cancel" \in Kinds
  BY DEF Procs, Kinds
<1>2. Begin("cancel", "cancel") \in Busy
      /\ Known(Begin("cancel", "cancel"), sent, account)
  BY <1>1, BeginKnown
<1> QED
  BY <1>1, <1>2, Still DEF CancelEvent

LEMMA ListKeeps ==
    ASSUME Inv, NEW x \in Procs, ListConfirmed(x)
    PROVE  Inv'
<1> DEFINE s == proc[x]
           h == {p \in Confirmed : rows[p].hash}
           n == [s EXCEPT !.pc = "next", !.todo = Confirmed,
                          !.listed = Confirmed, !.hashed = h]
<1>1. s.pc = "list"
  BY DEF ListConfirmed, At
<1>2. s \in Busy /\ Known(s, sent, account)
  BY <1>1, HereKnown
<1>3. Confirmed \in SUBSET Payments /\ h \in SUBSET Payments
  BY DEF Confirmed
<1> HIDE DEF h
<1>4. n \in Busy
  BY <1>2, <1>3 DEF Busy, Pcs
<1>5. n.pc = "next" /\ n.todo = n.listed
  BY <1>2 DEF Busy
<1>6. Known(n, sent, account)
  BY <1>5 DEF Known, InHand, Saving
<1> HIDE DEF n
<1>7. Goto(x, n) \/ Goto(x, Idle)
  BY DEF ListConfirmed, n, h
<1> QED
  BY <1>4, <1>6, <1>7, IdleKnown, Still DEF ListConfirmed

LEMMA PickKeeps ==
    ASSUME Inv, NEW x \in Procs, PickPayment(x)
    PROVE  Inv'
<1> DEFINE s == proc[x]
<1>1. s.pc = "next"
  BY DEF PickPayment, At
<1>2. s \in Busy /\ Known(s, sent, account)
  BY <1>1, HereKnown
<1>3. ASSUME NEW p \in s.todo,
             Goto(x, [s EXCEPT !.pc = "check", !.pay = p,
                               !.hash = p \in s.hashed, !.todo = @ \ {p}])
      PROVE  Inv'
  <2> DEFINE h == p \in s.hashed
             t == s.todo \ {p}
             n == [s EXCEPT !.pc = "check", !.pay = p, !.hash = h, !.todo = t]
  <2>1. p \in Payments /\ h \in BOOLEAN /\ t \in SUBSET Payments
    BY <1>2 DEF Busy
  <2>2. n \in Busy
    <3> HIDE DEF h, t
    <3> QED
      BY <1>2, <2>1 DEF Busy, Pcs
  <2>3. n.pc = "check" /\ n.pay = p /\ n.todo = t /\ n.kind = s.kind
        /\ n.ok = s.ok /\ n.listed = s.listed
    <3> HIDE DEF h, t
    <3> QED
      BY <1>2 DEF Busy
  <2>4. s.kind = "all" /\ s.ok => \A q \in s.listed \ s.todo : sent[q] > 0
    BY <1>1, <1>2 DEF Known, InHand
  <2>5. n.kind = "all" /\ n.ok =>
           \A q \in n.listed \ n.todo : q = n.pay \/ sent[q] > 0
    <3> HIDE DEF n
    <3> QED
      BY <2>3, <2>4
  <2>6. Known(n, sent, account)
    <3> HIDE DEF n
    <3> QED
      BY <2>1, <2>3, <2>5 DEF Known, InHand, Saving
  <2> QED
    BY <1>3, <2>2, <2>6, Still DEF PickPayment
<1>4. ASSUME s.todo = {}, s.kind = "all", s.ok,
             Goto(x, [s EXCEPT !.pc = "merge"])
      PROVE  Inv'
  <2> DEFINE n == [s EXCEPT !.pc = "merge"]
  <2>1. n \in Busy /\ n.pc = "merge" /\ n.listed = s.listed
    BY <1>2 DEF Busy, Pcs
  <2>2. Known(n, sent, account)
    BY <1>1, <1>2, <1>4, <2>1 DEF Known, InHand, Saving
  <2> QED
    BY <1>4, <2>1, <2>2, Still DEF PickPayment
<1>5. ASSUME Goto(x, Idle) PROVE Inv'
  BY <1>5, IdleKnown, Still DEF PickPayment
<1> QED
  BY <1>3, <1>4, <1>5 DEF PickPayment

LEMMA CheckKeeps ==
    ASSUME Inv, NEW x \in Procs, CheckEligibility(x)
    PROVE  Inv'
<1> DEFINE s == proc[x]
           n == [s EXCEPT !.pc = "send"]
<1>1. s.pc = "check" /\ s.pc \in InHand
  BY DEF CheckEligibility, At, InHand
<1>2. s \in Busy /\ Known(s, sent, account)
  BY <1>1, HereKnown
<1>3. n \in Busy /\ n.pc = "send" /\ n.pay = s.pay /\ n.kind = s.kind
      /\ n.ok = s.ok /\ n.listed = s.listed /\ n.todo = s.todo
  BY <1>2 DEF Busy, Pcs
<1>4. Known(n, sent, account)
  BY <1>1, <1>2, <1>3 DEF Known, InHand, Saving
<1>5. GiveUp(s) \in Busy /\ Known(GiveUp(s), sent, account)
  BY <1>1, <1>2, GiveUpKnown
<1> HIDE DEF n
<1>6. Goto(x, n) \/ Goto(x, GiveUp(s))
  BY DEF CheckEligibility, n
<1> QED
  BY <1>3, <1>4, <1>5, <1>6, Still DEF CheckEligibility

-----------------------------------------------------------------------------
(* The steps that move money.                                              *)

LEMMA SendKeeps ==
    ASSUME Inv, NEW x \in Procs, Send(x)
    PROVE  Inv'
<1> DEFINE s == proc[x]
           again == [s EXCEPT !.tries = @ + 1]
<1>1. s.pc = "send" /\ s.pc \in InHand
  BY DEF Send, SendAnswered, SendRejected, SendTimesOut, At, InHand
<1>2. TypeOK /\ s \in Busy /\ Known(s, sent, account)
  BY <1>1, HereKnown
<1>3. s.pay \in Payments
  BY <1>1, <1>2 DEF Known
<1>4. UNCHANGED <<event, rows, tickets, crashes>>
  BY DEF Send, SendAnswered, SendRejected, SendTimesOut
<1>5. CASE SendAnswered(x)
  <2>1. Transfer(s.pay) /\ Goto(x, Save(s, "refunded"))
    BY <1>5 DEF SendAnswered
  <2>2. Grown /\ sent'[s.pay] > 0
    BY <1>2, <1>3, <2>1, TransferGrown
  <2>3. Known(s, sent', account')
    BY <1>2, <2>2, KnownPersists
  <2>4. Save(s, "refunded") \in Busy
        /\ Known(Save(s, "refunded"), sent', account')
    BY <1>1, <1>2, <2>2, <2>3, SaveShape, SaveKnown
  <2> QED
    BY <1>4, <2>1, <2>2, <2>4, Quiet
<1>6. CASE SendRejected(x)
  <2>1. GiveUp(s) \in Busy /\ Known(GiveUp(s), sent, account)
    BY <1>1, <1>2, GiveUpKnown
  <2> QED
    BY <1>6, <2>1, Still DEF SendRejected
<1>7. CASE SendTimesOut(x)
  <2>1. Grown
    BY <1>2, <1>3, <1>7, TransferGrown, StillGrown DEF SendTimesOut
  <2>2. Known(s, sent', account')
    BY <1>2, <2>1, KnownPersists
  <2>3. GiveUp(s) \in Busy /\ Known(GiveUp(s), sent', account')
    BY <1>1, <1>2, <2>2, GiveUpKnown
  <2>4. ASSUME s.tries < Retries
        PROVE  again \in Busy /\ Known(again, sent', account')
    <3> DEFINE t == s.tries + 1
               n == [s EXCEPT !.tries = t]
    <3>1. s.tries \in 0 .. Retries
      BY <1>2 DEF Busy
    <3>2. t \in 0 .. Retries
      BY <2>4, <3>1, RefundsAssumption DEF RefundsAssumption
    <3> HIDE DEF t
    <3>3. n \in Busy /\ n.pc = s.pc /\ n.pay = s.pay /\ n.kind = s.kind
          /\ n.ok = s.ok /\ n.listed = s.listed /\ n.todo = s.todo
      BY <1>2, <3>2 DEF Busy
    <3>4. Known(n, sent', account')
      BY <1>1, <2>2, <3>3 DEF Known, InHand, Saving
    <3> QED
      BY <3>3, <3>4 DEF t
  <2> HIDE DEF again
  <2>5. \/ Goto(x, GiveUp(s))
        \/ s.tries < Retries /\ Goto(x, again)
    BY <1>7 DEF SendTimesOut, again
  <2> QED
    BY <1>4, <2>1, <2>3, <2>4, <2>5, Quiet
<1> QED
  BY <1>5, <1>6, <1>7 DEF Send

LEMMA MergeKeeps ==
    ASSUME Inv, NEW x \in Procs, MergeAccount(x)
    PROVE  Inv'
<1> DEFINE s == proc[x]
           n == [s EXCEPT !.pc = "record"]
<1>1. s.pc = "merge"
  BY DEF MergeAccount, At
<1>2. TypeOK /\ s \in Busy
  BY <1>1, HereKnown
<1>3. n \in Busy /\ n.pc = "record"
  BY <1>2 DEF Busy, Pcs
<1>4. account' = "closed" => Known(n, sent', account')
  BY <1>3 DEF Known, InHand, Saving
<1> HIDE DEF n
<1>5. \/ Close /\ Goto(x, n)
      \/ (Close \/ UNCHANGED ledger) /\ Goto(x, Idle)
  BY DEF MergeAccount, n
<1>6. Grown /\ (Close => account' = "closed")
  BY <1>2, <1>5, CloseGrown, StillGrown
<1>7. UNCHANGED <<event, rows, tickets, crashes>>
  BY DEF MergeAccount
<1> QED
  BY <1>3, <1>4, <1>5, <1>6, <1>7, IdleKnown, Quiet
LEMMA DepositKeeps ==
    ASSUME Inv, NEW p \in Payments, Deposit(p)
    PROVE  Inv'
<1>1. UNCHANGED <<cancelled, key, secret, jobs, account, sent, rows, tickets,
                  proc, crashes>>
  BY DEF Deposit, event
<1>2. funds' \in Nat /\ paid' \subseteq Payments
  BY DEF Inv, TypeOK, Deposit
<1>3. TypeOK'
  BY <1>1, <1>2 DEF Inv, TypeOK
<1> QED
  BY <1>1, <1>3 DEF Inv, RefundedIsPaidBack, CredentialsOutliveAccount,
     VoidedOwnersArePaid, ProcsKnown

-----------------------------------------------------------------------------
(* The steps that write a row, a ticket or the event.                      *)

\* The event's own columns: the secret goes only with the account.
LEMMA EventKeeps ==
    ASSUME Inv, NEW x \in Procs, NEW n \in {Idle} \cup Busy,
           Known(n, sent, account), Goto(x, n),
           UNCHANGED <<ledger, rows, tickets, crashes>>,
           cancelled' \in BOOLEAN, key' \in BOOLEAN, secret' \in BOOLEAN,
           jobs' \in Nat, ~ secret' => ~ secret \/ account = "closed"
    PROVE  Inv'
<1>1. TypeOK /\ ProcsKnown
  BY DEF Inv
<1>2. Grown /\ sent' = sent /\ account' = account
  BY <1>1, StillGrown DEF ledger
<1>3. proc' \in [Procs -> {Idle} \cup Busy] /\ ProcsKnown'
  BY <1>1, <1>2, Advance
<1>4. TypeOK'
  BY <1>1, <1>2, <1>3 DEF TypeOK, Grown
<1>5. RefundedIsPaidBack' /\ VoidedOwnersArePaid' /\ CredentialsOutliveAccount'
  BY <1>2 DEF Inv, RefundedIsPaidBack, VoidedOwnersArePaid,
              CredentialsOutliveAccount
<1> QED
  BY <1>3, <1>4, <1>5 DEF Inv

LEMMA EventTypes ==
    ASSUME Inv
    PROVE  /\ cancelled \in BOOLEAN /\ key \in BOOLEAN /\ secret \in BOOLEAN
           /\ jobs \in Nat
BY DEF Inv, TypeOK

LEMMA SaveCancelledKeeps ==
    ASSUME Inv, NEW r \in Requests, SaveCancelled(r)
    PROVE  Inv'
<1> DEFINE s == proc[r]
           n == [s EXCEPT !.pc = "enqueue"]
<1>1. r \in Procs /\ s.pc = "cancel"
  BY DEF Procs, SaveCancelled, At
<1>2. n \in Busy /\ n.pc = "enqueue"
  BY <1>1, HereKnown DEF Busy, Pcs
<1>3. Known(n, sent, account)
  BY <1>2 DEF Known, InHand, Saving
<1> QED
  BY <1>1, <1>2, <1>3, EventTypes, EventKeeps DEF SaveCancelled

LEMMA QueueKeeps ==
    ASSUME Inv, NEW r \in Requests, QueueJob(r)
    PROVE  Inv'
<1>1. r \in Procs /\ jobs' \in Nat
  BY EventTypes DEF Procs, QueueJob
<1> QED
  BY <1>1, IdleKnown, EventTypes, EventKeeps DEF QueueJob

LEMMA RunJobKeeps ==
    ASSUME Inv, RunJob
    PROVE  Inv'
<1>1. Worker \in Procs /\ jobs' \in Nat /\ "all" \in Kinds
  BY EventTypes DEF Procs, RunJob, Kinds
<1>2. Begin("all", "list") \in Busy /\ Known(Begin("all", "list"), sent, account)
  BY <1>1, BeginKnown
<1>3. Goto(Worker, Begin("all", "list")) \/ Goto(Worker, Idle)
  BY DEF RunJob
<1>4. UNCHANGED <<cancelled, key, secret, ledger, rows, tickets, crashes>>
  BY DEF RunJob
<1> QED
  BY <1>1, <1>2, <1>3, <1>4, IdleKnown, EventTypes, EventKeeps

LEMMA RecordKeeps ==
    ASSUME Inv, NEW x \in Procs, RecordMerge(x)
    PROVE  Inv'
<1>1. proc[x].pc = "record"
  BY DEF RecordMerge, At
<1>2. account = "closed"
  BY <1>1, HereKnown DEF Known
<1> QED
  BY <1>2, IdleKnown, EventTypes, EventKeeps DEF RecordMerge

LEMMA CrashKeeps ==
    ASSUME Inv, Crash
    PROVE  Inv'
<1>1. TypeOK /\ crashes' \in 0 .. MaxCrashes /\ jobs' \in Nat
  BY RefundsAssumption DEF RefundsAssumption, Inv, TypeOK, Crash
<1>2. UNCHANGED <<cancelled, key, secret, account, funds, paid, sent, rows,
                  tickets>>
  BY DEF Crash, ledger
<1>3. proc' = [x \in Procs |-> Idle]
  BY DEF Crash
<1>4. TypeOK'
  BY <1>1, <1>2, <1>3 DEF TypeOK
<1>5. ProcsKnown'
  BY <1>3, IdleKnown DEF ProcsKnown
<1> QED
  BY <1>2, <1>4, <1>5 DEF Inv, RefundedIsPaidBack, CredentialsOutliveAccount,
     VoidedOwnersArePaid

LEMMA SaveWriteKeeps ==
    ASSUME Inv, NEW x \in Procs, SaveWrite(x)
    PROVE  Inv'
<1> DEFINE s == proc[x]
           p == s.pay
           row == Updated(rows[p], s)
<1>1. s.pc = "write"
  BY DEF SaveWrite, At
<1>2. TypeOK /\ ProcsKnown /\ s \in Busy /\ Known(s, sent, account)
  BY <1>1, HereKnown DEF Inv
<1>3. /\ p \in Payments
      /\ s.status # "none"
      /\ s.status = "refunded" => sent[p] > 0
  BY <1>1, <1>2 DEF Known, InHand, Saving
<1>4. /\ rows' = [rows EXCEPT ![p] = row]
      /\ Goto(x, AfterSave(s))
      /\ UNCHANGED <<event, ledger, tickets, crashes>>
  BY DEF SaveWrite
<1>5. rows[p] \in Row
  BY <1>2, <1>3 DEF TypeOK
<1>6. row \in Row /\ (row.status \in {s.status, rows[p].status})
  <2>1. /\ rows[p].status \in {"pending", "confirmed", "failed", "refunded"}
        /\ rows[p].hash \in BOOLEAN
    BY <1>5 DEF Row
  <2>2. /\ s.status \in {"pending", "confirmed", "failed", "refunded"}
        /\ s.hash \in BOOLEAN
    BY <1>2, <1>3 DEF Busy
  <2> HIDE DEF s
  <2> QED
    BY <2>1, <2>2 DEF Updated, Row
<1>7. rows' \in [Payments -> Row]
  <2> HIDE DEF row
  <2> QED
    BY <1>2, <1>3, <1>4, <1>6 DEF TypeOK
<1>8. RefundedIsPaidBack'
  <2> SUFFICES ASSUME NEW q \in Payments, rows'[q].status = "refunded"
               PROVE  sent[q] > 0
    BY <1>4 DEF RefundedIsPaidBack, ledger
  <2>1. CASE q = p
    <3>1. rows'[p] = row
      BY <1>2, <1>3, <1>4 DEF TypeOK
    <3> QED
      BY <1>3, <1>6, <2>1, <3>1 DEF Inv, RefundedIsPaidBack
  <2>2. CASE q # p
    <3>1. rows'[q] = rows[q]
      BY <1>2, <1>4, <2>2 DEF TypeOK
    <3> QED
      BY <3>1 DEF Inv, RefundedIsPaidBack
  <2> QED
    BY <2>1, <2>2
<1>9. Grown /\ sent' = sent /\ account' = account
  BY <1>2, <1>4, StillGrown DEF ledger
<1>10. AfterSave(s) \in {Idle} \cup Busy /\ Known(AfterSave(s), sent, account)
  BY <1>1, <1>2, AfterSaveKnown
<1>11. proc' \in [Procs -> {Idle} \cup Busy] /\ ProcsKnown'
  BY <1>2, <1>4, <1>9, <1>10, Advance
<1>12. TypeOK'
  BY <1>2, <1>4, <1>7, <1>9, <1>11 DEF TypeOK, Grown, event
<1> QED
  BY <1>4, <1>8, <1>9, <1>11, <1>12 DEF Inv, CredentialsOutliveAccount,
     VoidedOwnersArePaid, event

\* A step that writes tickets only.
LEMMA TicketsKeep ==
    ASSUME Inv, NEW x \in Procs, NEW n \in {Idle} \cup Busy,
           Known(n, sent, account), Goto(x, n),
           UNCHANGED <<event, ledger, rows, crashes>>,
           tickets' \in [Payments -> {"none", "valid", "refunded"}],
           \A p \in Payments : tickets'[p] = "refunded" =>
              \/ tickets[p] = "refunded"
              \/ \E q \in Payments : Owner[q] = Owner[p] /\ sent[q] > 0
    PROVE  Inv'
<1>1. TypeOK /\ ProcsKnown
  BY DEF Inv
<1>2. Grown /\ sent' = sent /\ account' = account
  BY <1>1, StillGrown DEF ledger
<1>3. proc' \in [Procs -> {Idle} \cup Busy] /\ ProcsKnown'
  BY <1>1, <1>2, Advance
<1>4. TypeOK'
  BY <1>1, <1>2, <1>3 DEF TypeOK, Grown, event
<1>5. VoidedOwnersArePaid'
  BY <1>2 DEF Inv, VoidedOwnersArePaid
<1> QED
  BY <1>2, <1>3, <1>4, <1>5 DEF Inv, RefundedIsPaidBack,
     CredentialsOutliveAccount, event

LEMMA InsertKeeps ==
    ASSUME Inv, NEW r \in Requests, InsertTicket(r)
    PROVE  Inv'
<1>1. r \in Procs /\ TypeOK
  BY DEF Inv, Procs
<1>2. tickets' = [tickets EXCEPT ![proc[r].pay] =
                     IF @ = "none" THEN "valid" ELSE @]
  BY DEF InsertTicket
<1>3. tickets' \in [Payments -> {"none", "valid", "refunded"}]
  BY <1>1, <1>2 DEF TypeOK
<1>4. \A p \in Payments : tickets'[p] = "refunded" => tickets[p] = "refunded"
  BY <1>1, <1>2 DEF TypeOK
<1> QED
  BY <1>1, <1>3, <1>4, IdleKnown, TicketsKeep DEF InsertTicket

LEMMA VoidKeeps ==
    ASSUME Inv, NEW x \in Procs, VoidTickets(x)
    PROVE  Inv'
<1> DEFINE s == proc[x]
<1>1. s.pc = "void" /\ s.pc \in InHand
  BY DEF VoidTickets, At, InHand
<1>2. TypeOK /\ s \in Busy /\ Known(s, sent, account)
  BY <1>1, HereKnown
<1>3. s.pay \in Payments /\ sent[s.pay] > 0
  BY <1>1, <1>2 DEF Known
<1>4. tickets' = [p \in Payments |->
                     IF p \in Voided(s) THEN "refunded" ELSE tickets[p]]
  BY DEF VoidTickets
<1>5. \A p \in Voided(s) : Owner[p] = Owner[s.pay]
  BY DEF Voided
<1>6. tickets' \in [Payments -> {"none", "valid", "refunded"}]
  BY <1>2, <1>4 DEF TypeOK
<1>7. \A p \in Payments : tickets'[p] = "refunded" =>
         \/ tickets[p] = "refunded"
         \/ \E q \in Payments : Owner[q] = Owner[p] /\ sent[q] > 0
  BY <1>3, <1>4, <1>5
<1>8. Continue(s) \in {Idle} \cup Busy /\ Known(Continue(s), sent, account)
  BY <1>1, <1>2, <1>3, ContinueKnown
<1>9. GiveUp(s) \in Busy /\ Known(GiveUp(s), sent, account)
  BY <1>1, <1>2, GiveUpKnown
<1>10. Goto(x, Continue(s)) \/ Goto(x, GiveUp(s))
  BY DEF VoidTickets
<1>11. UNCHANGED <<event, ledger, rows, crashes>>
  BY DEF VoidTickets
<1> QED
  BY <1>6, <1>7, <1>8, <1>9, <1>10, <1>11, TicketsKeep

-----------------------------------------------------------------------------
(* The theorems.                                                           *)

LEMMA InitInv == Init => Inv
<1> SUFFICES ASSUME Init PROVE Inv
  OBVIOUS
<1>1. TypeOK
  <2>1. crashes \in 0 .. MaxCrashes /\ funds \in Nat /\ jobs \in Nat
        /\ sent \in [Payments -> Nat]
    BY RefundsAssumption DEF RefundsAssumption, Init
  <2>2. rows \in [Payments -> Row]
    BY DEF Init, Row
  <2>3. proc \in [Procs -> {Idle} \cup Busy]
    BY DEF Init
  <2> QED
    BY <2>1, <2>2, <2>3 DEF Init, TypeOK
<1>2. ProcsKnown
  BY IdleKnown DEF Init, ProcsKnown
<1> QED
  BY <1>1, <1>2 DEF Init, Inv, RefundedIsPaidBack, CredentialsOutliveAccount,
     VoidedOwnersArePaid

LEMMA NextInv == Inv /\ [Next]_vars => Inv'
<1> SUFFICES ASSUME Inv, [Next]_vars PROVE Inv'
  OBVIOUS
<1>1. ASSUME NEW x \in Procs, RefundStep(x) PROVE Inv'
  BY <1>1, ListKeeps, PickKeeps, CheckKeeps, SendKeeps, SaveLoadKeeps,
     SaveWriteKeeps, VoidKeeps, MergeKeeps, RecordKeeps DEF RefundStep
<1>2. ASSUME NEW r \in Requests, RequestStep(r) PROVE Inv'
  <2>1. r \in Procs
    BY DEF Procs
  <2> QED
    BY <1>1, <1>2, <2>1, BuyingKeeps, VerifyKeeps, InsertKeeps, CancelKeeps,
       SaveCancelledKeeps, QueueKeeps, CredentialsKeep, RefundEventKeeps
       DEF RequestStep
<1>3. ASSUME WorkerStep PROVE Inv'
  BY <1>1, <1>3, RunJobKeeps DEF WorkerStep, Procs
<1>4. CASE UNCHANGED vars
  <2>1. UNCHANGED <<cancelled, key, secret, jobs, account, funds, paid, sent,
                    rows, tickets, proc, crashes>>
    BY <1>4 DEF vars, event, ledger
  <2> QED
    BY <2>1 DEF Inv, TypeOK, RefundedIsPaidBack, CredentialsOutliveAccount,
       VoidedOwnersArePaid, ProcsKnown
<1> QED
  BY <1>2, <1>3, <1>4, DepositKeeps, CrashKeeps DEF Next

LEMMA InvHolds == Spec => []Inv
BY InitInv, NextInv, PTL DEF Spec

\* Types: every process is idle or a well-formed record, the balance is never
\* negative, restarts stay within their bound.
THEOREM TypeCorrect == Spec => []TypeOK
<1>1. Inv => TypeOK
  BY DEF Inv
<1> QED
  BY <1>1, InvHolds, PTL

\* processSingleRefund and processAutomaticPaymentRefund: a payment is marked
\* refunded only when the ledger has sent it back at least once.
THEOREM RefundsArePaidBack == Spec => []RefundedIsPaidBack
<1>1. Inv => RefundedIsPaidBack
  BY DEF Inv
<1> QED
  BY <1>1, InvHolds, PTL

\* refundAllForEvent: when it is about to merge the account, every payment it
\* listed has been sent back.
THEOREM SweepFollowsRefunds == Spec => []SweptAfterRefunds
<1>1. Inv => SweptAfterRefunds
  BY DEF Inv, ProcsKnown, Known, SweptAfterRefunds, At
<1> QED
  BY <1>1, InvHolds, PTL

\* refundAllForEvent erases the secret only of an account that is closed.
THEOREM SecretOutlivesAccount == Spec => []CredentialsOutliveAccount
<1>1. Inv => CredentialsOutliveAccount
  BY DEF Inv
<1> QED
  BY <1>1, InvHolds, PTL

\* A ticket is marked refunded only if its owner was sent a payment back.
THEOREM VoidedTicketsArePaid == Spec => []VoidedOwnersArePaid
<1>1. Inv => VoidedOwnersArePaid
  BY DEF Inv
<1> QED
  BY <1>1, InvHolds, PTL
=============================================================================
