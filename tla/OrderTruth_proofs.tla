------------------------- MODULE OrderTruth_proofs -------------------------
(***************************************************************************)
(* Theorems about what the slots of OrderFlow say of their orders.         *)
(*                                                                         *)
(* A callback tells what was so when it was sent, and what it tells stays  *)
(* so (Truthful); therefore a slot claims nothing that did not happen      *)
(* (SlotsTruthful), whichever faults happen.                               *)
(*                                                                         *)
(* If callbacks come in the order in which they were made, more is so: a   *)
(* fill that a slot does not count yet is in the queue, and the callback   *)
(* that brings it is the last to tell of the order (Counted); what the     *)
(* queue tells of an order grows from what its slot counts (Ascends).      *)
(*                                                                         *)
(* All this is about orders whose callbacks find their slot.  No callback  *)
(* finds that of an order that login restored (Deaf), which therefore      *)
(* stays as it was restored.                                               *)
(***************************************************************************)
EXTENDS OrderFlow_proofs

Ends == {"Cancel", "Reject", "Failure"}

(* What is so of callback m about an order that is now e.                  *)
TrueOf(m, e) ==
    /\ m.filled <= e.filled
    /\ m.kind \in Lines /\ m.reason \in Ends => e.st = m.reason
    /\ m.kind = "LineError" => e.st = "Refused"
    /\ m.kind = "Cancel" => e.st \in {"Cancel", "PFBC"}
    /\ m.kind = "Reject" => e.st = "Reject"

Truthful == \A i \in 1..Len(inbox) : TrueOf(inbox[i], exch[inbox[i].num])

(* An order that ended without a fill has none.                            *)
Sound(e) == e.st \in {"none", "sent", "Refused"} \cup Ends => e.filled = 0

SlotTrueOf(o, e) ==
    /\ o.exec <= e.filled
    /\ o.cancelled => e.st \in {"Cancel", "PFBC"}
    /\ o.reason \in Ends => e.st = o.reason

(* Slot s is the one that callbacks of order n write, or the one that it   *)
(* was restored to, which they may not know.                               *)
Holds(s, n) == ctx[n] = s \/ (orders[s].num = n /\ orders[s].cid = IntMax)

SlotsTruthful ==
    \A n \in Nums, s \in Slots : Holds(s, n) => SlotTrueOf(orders[s], exch[n])

(* Callbacks of an order that was not sent are only ends of replays.       *)
NoneUnsent ==
    \A i \in 1..Len(inbox) : exch[inbox[i].num].st = "none" => inbox[i].kind = "ReplayEnd"

Truth == Truthful /\ (\A n \in Nums : Sound(exch[n])) /\ SlotsTruthful /\ NoneUnsent

-----------------------------------------------------------------------------
(* The queue. *)

(* What is left of the queue when a callback is taken from it.             *)
LEMMA Remaining ==
    ASSUME inbox \in Seq(Message), NEW i \in Deliverable, NEW kinds, Takes(i, kinds)
    PROVE  /\ i \in 1..Len(inbox) /\ inbox[i].kind \in kinds
           /\ inbox' \in Seq(Message)
           /\ Len(inbox') = Len(inbox) - 1
           /\ \A j \in 1..Len(inbox') :
                /\ inbox'[j] = inbox[IF j < i THEN j ELSE j + 1]
                /\ j + 1 \in 1..Len(inbox) /\ j \in 1..Len(inbox)
<1>1. i \in 1..Len(inbox)
  BY DEF Deliverable
<1> DEFINE a == SubSeq(inbox, 1, i-1)
           b == SubSeq(inbox, i+1, Len(inbox))
<1>2. inbox' = a \o b
  BY DEF Takes, RemoveAt
<1>3. /\ a \in Seq(Message) /\ Len(a) = i-1
      /\ \A j \in 1..i-1 : a[j] = inbox[j]
  BY <1>1
<1>4. /\ b \in Seq(Message) /\ Len(b) = Len(inbox) - i
      /\ \A j \in 1..Len(inbox) - i : b[j] = inbox[j + i]
  BY <1>1
<1>5. Len(inbox) \in Nat
  OBVIOUS
<1> HIDE DEF a, b
<1>6. /\ a \o b \in Seq(Message) /\ Len(a \o b) = Len(a) + Len(b)
      /\ \A j \in 1..Len(a) + Len(b) : (a \o b)[j] = IF j <= Len(a) THEN a[j] ELSE b[j - Len(a)]
  BY <1>3, <1>4
<1>7. /\ Len(inbox') = Len(inbox) - 1
      /\ \A j \in 1..Len(inbox) - 1 : inbox'[j] = IF j <= i-1 THEN a[j] ELSE b[j - (i-1)]
  BY <1>1, <1>2, <1>3, <1>4, <1>6
<1>8. \A j \in 1..Len(inbox) - 1 : inbox'[j] = inbox[IF j < i THEN j ELSE j + 1]
  <2> SUFFICES ASSUME NEW j \in 1..Len(inbox) - 1
               PROVE  inbox'[j] = inbox[IF j < i THEN j ELSE j + 1]
    OBVIOUS
  <2>1. CASE j < i
    BY <1>1, <1>3, <1>7, <2>1
  <2>2. CASE ~(j < i)
    <3>1. j - (i-1) \in 1..Len(inbox) - i /\ j - (i-1) + i = j + 1
      BY <1>1, <1>5, <2>2
    <3> QED
      BY <1>1, <1>4, <1>7, <2>2, <3>1
  <2> QED
    BY <2>1, <2>2
<1> QED
  BY <1>1, <1>2, <1>5, <1>6, <1>7, <1>8 DEF Takes

LEMMA QueueFacts ==
    ASSUME inbox \in Seq(Message)
    PROVE  \A k \in 1..Len(inbox) : inbox[k] \in Message /\ inbox[k].num \in Nums
<1>1. \A k \in 1..Len(inbox) : inbox[k] \in Message
  OBVIOUS
<1>2. \A m \in Message : m.num \in Nums
  BY DEF Message
<1> QED
  BY <1>1, <1>2

(* Callbacks come in order: what followed the one taken is still to come.  *)
LEMMA TakenFirst ==
    ASSUME inbox \in Seq(Message), "Reorder" \notin Faults, NEW i \in Deliverable,
           NEW kinds, Takes(i, kinds)
    PROVE  /\ i = 1 /\ 1 \in 1..Len(inbox)
           /\ inbox' \in Seq(Message) /\ Len(inbox') = Len(inbox) - 1
           /\ \A j \in 1..Len(inbox') : inbox'[j] = inbox[j + 1] /\ j + 1 \in 1..Len(inbox)
           /\ \A j \in 1..Len(inbox) : j > 1 => j - 1 \in 1..Len(inbox') /\ inbox'[j - 1] = inbox[j]
<1>1. i = 1 /\ Len(inbox) \in Nat
  BY DEF Deliverable
<1>2. 1 \in 1..Len(inbox)
  BY <1>1, Remaining
<1>3. /\ inbox' \in Seq(Message) /\ Len(inbox') = Len(inbox) - 1
      /\ \A j \in 1..Len(inbox') : inbox'[j] = inbox[IF j < i THEN j ELSE j + 1]
                                   /\ j + 1 \in 1..Len(inbox)
  BY Remaining
<1>4. \A j \in 1..Len(inbox') : inbox'[j] = inbox[j + 1] /\ j + 1 \in 1..Len(inbox)
  BY <1>1, <1>3
<1>5. \A j \in 1..Len(inbox) : j > 1 => j - 1 \in 1..Len(inbox') /\ (j - 1) + 1 = j
  BY <1>1, <1>3
<1> QED
  BY <1>1, <1>2, <1>3, <1>4, <1>5

(* What it is when callbacks join.                                         *)
LEMMA Joined ==
    ASSUME inbox \in Seq(Message), NEW msgs \in Seq(Message), Emit(msgs)
    PROVE  /\ inbox' \in Seq(Message)
           /\ Len(inbox') = Len(inbox) + Len(msgs)
           /\ \A j \in 1..Len(inbox) : inbox'[j] = inbox[j]
           /\ \A j \in 1..Len(msgs) : inbox'[Len(inbox) + j] = msgs[j]
           /\ \A j \in 1..Len(inbox') : j \notin 1..Len(inbox) =>
                j - Len(inbox) \in 1..Len(msgs) /\ inbox'[j] = msgs[j - Len(inbox)]
BY DEF Emit

-----------------------------------------------------------------------------
(* The engine. *)

LEMMA ReportFacts ==
    \A kind \in Reports, n \in Nums, filled \in 0..Qty :
        LET m == Report(kind, n, filled)
        IN  m \in Message /\ m.kind = kind /\ m.num = n /\ m.filled = filled
BY DEF Report, Message

(* How an order goes on: what has ended stays as it is.                    *)
Evolves(e, f) ==
    /\ e.st # "none" /\ f.st # "none"
    /\ e.filled <= f.filled
    /\ e.st \in Finished => f.st = e.st
    /\ f.filled # e.filled => e.st = "open"

(* What the engine says of order n when it goes on from e to f.            *)
Says(n, e, f, msgs) ==
    /\ msgs \in Seq(Message) /\ Len(msgs) \in 1..2
    /\ \A j \in 1..Len(msgs) :
         /\ msgs[j].num = n /\ TrueOf(msgs[j], f)
         /\ msgs[j].kind \notin {"History", "ReplayEnd"}
         /\ msgs[j].kind \in {"Line", "Fill"} => msgs[j].filled = f.filled
         /\ msgs[j].kind \in {"Fill", "Cancel"} => e.st = "open"
         /\ msgs[j].kind \in {"Failure", "Reject"} => f.st \in {"Failure", "Reject"} \/ e.cancels > 0
    /\ f.filled # e.filled => \E j \in 1..Len(msgs) : msgs[j].kind = "Fill"
    /\ e.st = "sent" /\ f.st = "open" => msgs[1].kind = "Line"

LEMMA EngineGoesOn ==
    ASSUME EngineTypeOK, NEW n \in Nums, EngineStep(n), Sound(exch[n])
    PROVE  \E f \in ExchangeOrder, msgs \in Seq(Message) :
             /\ exch' = [exch EXCEPT ![n] = f]
             /\ Evolves(exch[n], f) /\ Sound(f)
             /\ f.cancels <= exch[n].cancels
             /\ Says(n, exch[n], f, msgs) /\ Emit(msgs)
<1> DEFINE e == exch[n]
           Becomes(f) == exch' = [exch EXCEPT ![n] = f]
           Goal(f, msgs) == /\ f \in ExchangeOrder /\ msgs \in Seq(Message)
                            /\ Becomes(f)
                            /\ Evolves(e, f) /\ Sound(f)
                            /\ f.cancels <= e.cancels
                            /\ Says(n, e, f, msgs) /\ Emit(msgs)
<1> SUFFICES \E f, msgs : Goal(f, msgs)
  OBVIOUS
<1>0. /\ e \in ExchangeOrder /\ e.seq + 1 \in Nat /\ e.cancels \in Nat /\ e.filled \in 0..Qty
      /\ 0 \in 0..Qty
  BY QtyAssumption DEF EngineTypeOK, ExchangeOrder
<1>1. ASSUME NEW f \in ExchangeOrder, NEW report \in Message, Announce(n, f, report),
             Evolves(e, f), Sound(f), f.cancels <= e.cancels, f.st # "none",
             e.st = "sent" => f.st # "open",
             report.num = n, TrueOf(report, f), report.kind \in Reported,
             report.kind = "Fill" => report.filled = f.filled,
             report.kind \in {"Fill", "Cancel"} => e.st = "open",
             report.kind \in {"Failure", "Reject"} => f.st \in {"Failure", "Reject"},
             f.filled # e.filled => report.kind = "Fill"
      PROVE  \E msgs : Goal(f, msgs)
  <2> DEFINE line == Line("Line", n, f, Reason(f))
  <2>1. line \in Message /\ line.num = n /\ line.kind = "Line" /\ line.filled = f.filled
        /\ line.reason = Reason(f)
    BY MessageFacts DEF Lines, Line
  <2>2. TrueOf(line, f)
    BY <2>1, <1>0 DEF TrueOf, Reason, Ends, ExchangeOrder, Finished
  <2>3. \A a, b \in Message : <<a, b>> \in Seq(Message) /\ Len(<<a, b>>) = 2
                              /\ <<a, b>>[1] = a /\ <<a, b>>[2] = b
    OBVIOUS
  <2> HIDE DEF line
  <2>4. Says(n, e, f, <<line, report>>) /\ Says(n, e, f, <<report, line>>)
    <3>1. \A a, b \in Message : {a, b} = {line, report} => Says(n, e, f, <<a, b>>)
      <4> SUFFICES ASSUME NEW a \in Message, NEW b \in Message, {a, b} = {line, report}
                   PROVE  Says(n, e, f, <<a, b>>)
        OBVIOUS
      <4>1. \A m \in {a, b} :
              /\ m.num = n /\ TrueOf(m, f)
              /\ m.kind \notin {"History", "ReplayEnd"}
              /\ m.kind \in {"Line", "Fill"} => m.filled = f.filled
              /\ m.kind \in {"Fill", "Cancel"} => e.st = "open"
              /\ m.kind \in {"Failure", "Reject"} => f.st \in {"Failure", "Reject"} \/ e.cancels > 0
        BY <1>1, <2>1, <2>2 DEF Reported
      <4>2. f.filled # e.filled => a.kind = "Fill" \/ b.kind = "Fill"
        BY <1>1
      <4>3. 1..2 = {1, 2}
        OBVIOUS
      <4> QED
        BY <1>1, <2>3, <4>1, <4>2, <4>3 DEF Says
    <3> QED
      BY <1>1, <2>1, <3>1
  <2>5. Emit(<<line, report>>) \/ Emit(<<report, line>>)
    BY <1>1 DEF Announce, line
  <2>6. Becomes(f)
    BY <1>1 DEF Announce
  <2> QED
    BY <1>1, <2>1, <2>3, <2>4, <2>5, <2>6
<1>2. ASSUME NEW f \in ExchangeOrder, NEW m \in Message, Becomes(f),
             Emit(<<m>>), Evolves(e, f), Sound(f), f.cancels <= e.cancels, f.filled = e.filled,
             m.num = n, TrueOf(m, f), m.kind \in {"Line", "LineError", "NotCancelled", "Failure"},
             m.kind = "Line" => m.filled = f.filled,
             m.kind = "Failure" => e.cancels > 0,
             e.st = "sent" /\ f.st = "open" => m.kind = "Line"
      PROVE  \E msgs : Goal(f, msgs)
  <2>1. <<m>> \in Seq(Message) /\ Len(<<m>>) = 1 /\ <<m>>[1] = m /\ 1..1 = {1}
    OBVIOUS
  <2>2. Says(n, e, f, <<m>>)
    BY <1>2, <2>1 DEF Says
  <2> QED
    BY <1>2, <2>1, <2>2
<1> HIDE DEF Goal, Becomes
<1>3. CASE Acknowledge(n)
  <2> DEFINE f == [e EXCEPT !.st = "open", !.seq = @ + 1]
             m == Line("Line", n, f, "None")
  <2>1. f \in ExchangeOrder /\ f.st = "open" /\ f.filled = e.filled /\ f.cancels = e.cancels
    BY <1>0 DEF ExchangeOrder
  <2>2. m \in Message /\ m.num = n /\ m.kind = "Line" /\ m.filled = f.filled /\ m.reason = "None"
    BY <2>1, MessageFacts DEF Lines, Line
  <2>3. e.st = "sent" /\ Becomes(f) /\ Emit(<<m>>)
    BY <1>3 DEF Acknowledge, Becomes
  <2> HIDE DEF f, m
  <2>4. TrueOf(m, f) /\ Sound(f) /\ Evolves(e, f)
    BY <1>0, <2>1, <2>2, <2>3 DEF TrueOf, Ends, Sound, Evolves, Finished, Reasons, Lines
  <2> QED
    BY <1>0, <1>2, <2>1, <2>2, <2>3, <2>4
<1>4. CASE Refuse(n)
  <2> DEFINE f == [e EXCEPT !.st = "Refused"]
             m == Report("LineError", n, 0)
  <2>1. f \in ExchangeOrder /\ f.st = "Refused" /\ f.filled = e.filled /\ f.cancels = e.cancels
    BY <1>0 DEF ExchangeOrder, Finished
  <2>2. m \in Message /\ m.num = n /\ m.kind = "LineError" /\ m.filled = 0
    BY <1>0, ReportFacts DEF Reports
  <2>3. e.st = "sent" /\ Becomes(f) /\ Emit(<<m>>)
    BY <1>4 DEF Refuse, Becomes
  <2> HIDE DEF f, m
  <2>4. TrueOf(m, f) /\ Sound(f) /\ Evolves(e, f)
    BY <1>0, <2>1, <2>2, <2>3 DEF TrueOf, Ends, Sound, Evolves, Finished, Reasons, Lines
  <2> QED
    BY <1>0, <1>2, <2>1, <2>2, <2>3, <2>4
<1>5. CASE Reject(n)
  <2>1. PICK why \in {"Reject", "Failure"} :
          Announce(n, [e EXCEPT !.st = why, !.seq = @ + 1], Report(why, n, 0))
    BY <1>5 DEF Reject
  <2> DEFINE f == [e EXCEPT !.st = why, !.seq = @ + 1]
             m == Report(why, n, 0)
  <2>2. f \in ExchangeOrder /\ f.st = why /\ f.filled = e.filled /\ f.cancels = e.cancels
    BY <1>0 DEF ExchangeOrder, Finished, Reasons
  <2>3. m \in Message /\ m.num = n /\ m.kind = why /\ m.filled = 0
    BY <1>0, ReportFacts DEF Reports
  <2>4. e.st \in {"sent", "open"} /\ e.filled = 0 /\ Announce(n, f, m)
    BY <1>5, <2>1 DEF Reject
  <2> HIDE DEF f, m
  <2>5. TrueOf(m, f) /\ Sound(f) /\ Evolves(e, f)
    BY <1>0, <2>2, <2>3, <2>4 DEF TrueOf, Ends, Sound, Evolves, Finished, Reasons, Lines
  <2> QED
    BY <1>0, <1>1, <2>2, <2>3, <2>4, <2>5 DEF Reported
<1>6. CASE Fill(n)
  <2>1. PICK total \in e.filled + 1 .. Qty :
          Announce(n, [e EXCEPT !.filled = total, !.seq = @ + 1,
                                !.st = IF total = Qty THEN "Fill" ELSE @],
                   Report("Fill", n, total))
    BY <1>6 DEF Fill
  <2> DEFINE f == [e EXCEPT !.filled = total, !.seq = @ + 1,
                            !.st = IF total = Qty THEN "Fill" ELSE @]
             m == Report("Fill", n, total)
  <2>2. total \in 0..Qty /\ total > e.filled
    BY <1>0, QtyAssumption
  <2>3. f \in ExchangeOrder /\ f.st \in {"Fill", e.st} /\ f.filled = total /\ f.cancels = e.cancels
    BY <1>0, <2>2 DEF ExchangeOrder, Finished, Reasons
  <2>4. m \in Message /\ m.num = n /\ m.kind = "Fill" /\ m.filled = total
    BY <2>2, ReportFacts DEF Reports
  <2>5. e.st = "open" /\ Announce(n, f, m)
    BY <1>6, <2>1 DEF Fill
  <2> HIDE DEF f, m
  <2>6. TrueOf(m, f) /\ Sound(f) /\ Evolves(e, f)
    BY <1>0, <2>2, <2>3, <2>4, <2>5 DEF TrueOf, Ends, Sound, Evolves, Finished, Reasons, Lines
  <2> QED
    BY <1>0, <1>1, <2>2, <2>3, <2>4, <2>5, <2>6 DEF Reported
<1>7. CASE Cancel(n)
  <2> DEFINE f == [e EXCEPT !.st = IF e.filled > 0 THEN "PFBC" ELSE "Cancel", !.seq = @ + 1,
                            !.cancels = IF @ > 0 THEN @ - 1 ELSE @]
             m == Report("Cancel", n, 0)
  <2>1. (IF e.cancels > 0 THEN e.cancels - 1 ELSE e.cancels) \in 0..e.cancels
    BY <1>0
  <2> DEFINE st == IF e.filled > 0 THEN "PFBC" ELSE "Cancel"
             left == IF e.cancels > 0 THEN e.cancels - 1 ELSE e.cancels
  <2>a. st \in Finished /\ left \in Nat /\ left <= e.cancels /\ f = [e EXCEPT !.st = st, !.seq = @ + 1, !.cancels = left]
    BY <1>0, <2>1 DEF Finished, Reasons
  <2> HIDE DEF st, left
  <2>2. f \in ExchangeOrder /\ f.filled = e.filled /\ f.cancels <= e.cancels /\ f.st = st
    BY <1>0, <2>a DEF ExchangeOrder
  <2>3. m \in Message /\ m.num = n /\ m.kind = "Cancel" /\ m.filled = 0
    BY <1>0, ReportFacts DEF Reports
  <2>4. e.st = "open" /\ Announce(n, f, m)
    BY <1>7 DEF Cancel
  <2> HIDE DEF f, m
  <2>5. TrueOf(m, f) /\ Sound(f) /\ Evolves(e, f)
    BY <1>0, <2>2, <2>3, <2>4 DEF TrueOf, Ends, Sound, Evolves, Finished, Reasons, Lines, st
  <2> QED
    BY <1>0, <1>1, <2>2, <2>3, <2>4, <2>5 DEF Reported, st
<1>8. CASE RefuseCancel(n)
  <2> DEFINE f == [e EXCEPT !.cancels = @ - 1]
  <2>1. e.cancels > 0 /\ e.cancels - 1 \in Nat /\ e.st \in Finished
        /\ Becomes(f)
    BY <1>0, <1>8 DEF RefuseCancel, Becomes
  <2>2. f \in ExchangeOrder /\ f.st = e.st /\ f.filled = e.filled /\ f.cancels <= e.cancels
    BY <1>0, <2>1 DEF ExchangeOrder
  <2>3. PICK kind \in {"NotCancelled", "Failure"} : Emit(<<Report(kind, n, 0)>>)
    BY <1>8 DEF RefuseCancel
  <2> DEFINE m == Report(kind, n, 0)
  <2>4. m \in Message /\ m.num = n /\ m.kind = kind /\ m.filled = 0
    BY <1>0, ReportFacts DEF Reports
  <2>5. Emit(<<m>>)
    BY <2>3
  <2> HIDE DEF f, m
  <2>6. TrueOf(m, f) /\ Sound(f) /\ Evolves(e, f)
    BY <1>0, <2>1, <2>2, <2>4 DEF TrueOf, Ends, Sound, Evolves, Finished, Reasons, Lines
  <2> QED
    BY <1>0, <1>2, <2>1, <2>2, <2>4, <2>5, <2>6 DEF Finished, Reasons
<1> QED
  BY <1>3, <1>4, <1>5, <1>6, <1>7, <1>8 DEF EngineStep

-----------------------------------------------------------------------------
(* Truth is kept. *)

(* No two orders share a slot.                                             *)
LEMMA OneOrderPerSlot ==
    ASSUME Inv, NEW m \in Nums, NEW n \in Nums, ctx[m] = ctx[n], ctx[n] # NoSlot
    PROVE  m = n
<1>1. Belongs(ctx[n], n) /\ Belongs(ctx[n], m)
  BY DEF Inv, CtxOK
<1> QED
  BY <1>1, TagFacts DEF Belongs

LEMMA OneHeldPerSlot ==
    ASSUME Inv, NEW m \in Nums, NEW n \in Nums, NEW s \in Slots, Holds(s, m), Holds(s, n)
    PROVE  m = n
<1>1. \A k \in Nums : ctx[k] = s => Belongs(s, k)
  BY SlotFacts DEF Inv, CtxOK
<1> QED
  BY <1>1, OneOrderPerSlot, SlotFacts, TagFacts DEF Holds, Belongs

(* A registered order holds the slot that it is registered with.           *)
LEMMA RegisteredHolds ==
    ASSUME Inv, NEW n \in Nums, byId[n] # NoSlot
    PROVE  byId[n] \in Slots /\ Holds(byId[n], n)
<1>1. byId[n] \in Slots /\ orders[byId[n]].num = n
  BY RegisteredBelongs
<1>2. ctx[n] = byId[n] \/ orders[byId[n]].cid = IntMax
  BY RestoredFacts DEF Inv, RegisteredIsHeard, ContextRefused
<1> QED
  BY <1>1, <1>2 DEF Holds

(* A cancel hands the engine the slot of its order, which it knows, unless *)
(* login restored the order and its context was refused.                   *)
LEMMA CancelHears ==
    ASSUME Inv, SendCancel
    PROVE  \/ UNCHANGED ctx
           \/ /\ main.num \in Tagged /\ ctx[main.num] = NoSlot
              /\ byId[main.num] \in Slots /\ orders[byId[main.num]].cid = IntMax
              /\ ctx' = [ctx EXCEPT ![main.num] = byId[main.num]]
<1>1. main.num \in Nums /\ byId[main.num] # NoSlot
  BY DEF SendCancel, Inv, CallOK
<1>2. byId[main.num] \in Slots
  BY <1>1, RegisteredBelongs
<1>3. ctx[main.num] = byId[main.num] \/ ContextRefused(main.num)
  BY <1>1 DEF Inv, RegisteredIsHeard
<1>4. RestoredId(main.num) = IntMax
  BY <1>1, RestoredFacts
<1> QED
  BY <1>1, <1>2, <1>3, <1>4 DEF SendCancel, ContextRefused, Inv, TypeOK, EngineTypeOK

LEMMA StillTrue ==
    ASSUME NEW e \in ExchangeOrder, NEW f \in ExchangeOrder, Evolves(e, f)
    PROVE  /\ \A m \in Message : TrueOf(m, e) => TrueOf(m, f)
           /\ \A o \in Order : SlotTrueOf(o, e) => SlotTrueOf(o, f)
<1>1. Ends \subseteq Finished /\ {"Refused", "Cancel", "PFBC", "Reject"} \subseteq Finished
  BY DEF Ends, Finished, Reasons
<1>2. e.filled \in Nat /\ f.filled \in Nat /\ e.filled <= f.filled
  BY QtyAssumption DEF ExchangeOrder, Evolves
<1>3. ASSUME NEW m \in Message, TrueOf(m, e)
      PROVE  TrueOf(m, f)
  <2>1. m.filled \in Nat
    BY QtyAssumption DEF Message
  <2>2. m.filled <= f.filled
    BY <1>2, <1>3, <2>1 DEF TrueOf
  <2> QED
    BY <1>1, <1>3, <2>2 DEF TrueOf, Evolves
<1>4. ASSUME NEW o \in Order, SlotTrueOf(o, e)
      PROVE  SlotTrueOf(o, f)
  <2>1. o.exec \in Nat
    BY QtyAssumption DEF Order
  <2>2. o.exec <= f.filled
    BY <1>2, <1>4, <2>1 DEF SlotTrueOf
  <2> QED
    BY <1>1, <1>4, <2>2 DEF SlotTrueOf, Evolves
<1> QED
  BY <1>3, <1>4

(* What a step leaves of the exchange and of the queue, if nothing was     *)
(* filled or ended in it and nothing was said.                             *)
SameExchange ==
    \A n \in Nums : exch'[n].st = exch[n].st /\ exch'[n].filled = exch[n].filled

NothingSaid ==
    /\ inbox' \in Seq(Message)
    /\ \A j \in 1..Len(inbox') : \E k \in 1..Len(inbox) : inbox'[j] = inbox[k]

(* A cancel that is sent changes neither.                                  *)
LEMMA SentCancel ==
    ASSUME exch \in [Nums -> ExchangeOrder], NEW n \in Nums,
           \/ UNCHANGED exch
           \/ exch' = [exch EXCEPT ![n].cancels = @ + 1, ![n].asked = TRUE]
    PROVE  SameExchange
BY DEF SameExchange, ExchangeOrder

LEMMA QueueFrame ==
    ASSUME Inv, Truth, SameExchange, NothingSaid
    PROVE  Truthful' /\ NoneUnsent' /\ \A n \in Nums : Sound(exch'[n])
<1>1. \A k \in 1..Len(inbox) : inbox[k] \in Message /\ inbox[k].num \in Nums
  BY QueueFacts DEF Inv, TypeOK, EngineTypeOK
<1>2. \A m : \A n \in Nums : TrueOf(m, exch[n]) => TrueOf(m, exch'[n])
  BY DEF SameExchange, TrueOf
<1>3. ASSUME NEW j \in 1..Len(inbox')
      PROVE  /\ TrueOf(inbox'[j], exch'[inbox'[j].num])
             /\ exch'[inbox'[j].num].st = "none" => inbox'[j].kind = "ReplayEnd"
  <2>1. PICK k \in 1..Len(inbox) : inbox'[j] = inbox[k]
    BY DEF NothingSaid
  <2>2. inbox[k].num \in Nums /\ TrueOf(inbox[k], exch[inbox[k].num])
        /\ (exch[inbox[k].num].st = "none" => inbox[k].kind = "ReplayEnd")
    BY <1>1 DEF Truth, Truthful, NoneUnsent
  <2> QED
    BY <1>2, <2>1, <2>2 DEF SameExchange
<1>4. \A n \in Nums : Sound(exch'[n])
  BY DEF Truth, SameExchange, Sound
<1> QED
  BY <1>3, <1>4 DEF Truthful, NoneUnsent

LEMMA TruthFrame ==
    ASSUME Inv, Truth, SameExchange, NothingSaid, \A n \in Nums : KeepsContext(n),
           \A s \in Slots : /\ orders'[s].exec = orders[s].exec
                            /\ orders'[s].cancelled = orders[s].cancelled
                            /\ orders'[s].reason = orders[s].reason
                            /\ SameOrder(s)
    PROVE  Truth'
<1>1. \A n \in Nums, s \in Slots : Holds(s, n)' => Holds(s, n)
  BY RegisteredHolds DEF Holds, KeepsContext, SameOrder
<1>2. SlotsTruthful'
  BY <1>1 DEF Truth, SlotsTruthful, SlotTrueOf, SameExchange
<1> QED
  BY <1>2, QueueFrame DEF Truth

LEMMA TruthOfEngine ==
    ASSUME Inv, Truth, NEW n \in Nums, Engine(n)
    PROVE  Truth'
<1>0. /\ exch \in [Nums -> ExchangeOrder] /\ inbox \in Seq(Message)
      /\ ctx \in [Nums -> Slots \cup {NoSlot}] /\ orders \in [Slots -> Order]
  BY DEF Inv, TypeOK, EngineTypeOK
<1>1. UNCHANGED <<ctx, orders>>
  BY DEF Engine, EngineStep, Acknowledge, Refuse, Reject, Fill, Cancel, RefuseCancel, Announce
<1>2. PICK f \in ExchangeOrder, msgs \in Seq(Message) :
        /\ exch' = [exch EXCEPT ![n] = f]
        /\ Evolves(exch[n], f) /\ Sound(f)
        /\ Says(n, exch[n], f, msgs) /\ Emit(msgs)
  BY EngineGoesOn DEF Inv, TypeOK, Truth, Engine
<1>3. exch'[n] = f /\ \A k \in Nums : k # n => exch'[k] = exch[k]
  BY <1>0, <1>2
<1>e. /\ Evolves(exch[n], f) /\ Sound(f)
      /\ Says(n, exch[n], f, msgs) /\ Emit(msgs)
  BY <1>2
<1>4. /\ \A m \in Message : TrueOf(m, exch[n]) => TrueOf(m, f)
      /\ \A o \in Order : SlotTrueOf(o, exch[n]) => SlotTrueOf(o, f)
      /\ f.st # "none"
  BY <1>0, <1>e, StillTrue DEF Evolves
<1>5. ASSUME NEW j \in 1..Len(inbox')
      PROVE  /\ TrueOf(inbox'[j], exch'[inbox'[j].num])
             /\ exch'[inbox'[j].num].st = "none" => inbox'[j].kind = "ReplayEnd"
  <2>1. CASE j \in 1..Len(inbox)
    <3>1. inbox'[j] = inbox[j] /\ inbox[j] \in Message /\ inbox[j].num \in Nums
      BY <1>0, <1>e, <2>1, Joined, QueueFacts
    <3>2. /\ TrueOf(inbox[j], exch[inbox[j].num])
          /\ exch[inbox[j].num].st = "none" => inbox[j].kind = "ReplayEnd"
      BY <2>1 DEF Truth, Truthful, NoneUnsent
    <3>3. CASE inbox[j].num = n
      BY <1>3, <1>4, <3>1, <3>2, <3>3
    <3>4. CASE inbox[j].num # n
      BY <1>3, <3>1, <3>2, <3>4
    <3> QED
      BY <3>3, <3>4
  <2>2. CASE j \notin 1..Len(inbox)
    <3>1. PICK k \in 1..Len(msgs) : inbox'[j] = msgs[k]
      BY <1>0, <1>e, <2>2, Joined
    <3>2. inbox'[j].num = n /\ TrueOf(inbox'[j], f)
      BY <1>e, <3>1 DEF Says
    <3> QED
      BY <1>3, <1>4, <3>2
  <2> QED
    BY <2>1, <2>2
<1>6. \A k \in Nums : Sound(exch'[k])
  BY <1>e, <1>3 DEF Truth
<1>7. SlotsTruthful'
  <2> SUFFICES ASSUME NEW k \in Nums, NEW s \in Slots, Holds(s, k)
               PROVE  SlotTrueOf(orders[s], exch'[k])
    BY <1>1 DEF SlotsTruthful, Holds
  <2>1. SlotTrueOf(orders[s], exch[k]) /\ orders[s] \in Order
    BY <1>0 DEF Truth, SlotsTruthful
  <2>2. CASE k = n
    BY <1>3, <1>4, <2>1, <2>2
  <2>3. CASE k # n
    BY <1>3, <2>1, <2>3
  <2> QED
    BY <2>2, <2>3
<1> QED
  BY <1>5, <1>6, <1>7 DEF Truth, Truthful, NoneUnsent

(* A handler records what its callback says, in the slot of its order.     *)
LEMMA TruthOfRecord ==
    ASSUME Inv, Truth, NEW i \in Deliverable, LineApplied(i) \/ ReportApplied(i)
    PROVE  Truth'
<1> SUFFICES ASSUME NEW m, m = inbox[i], NEW n, n = m.num, NEW s, s = ctx[n],
                    NEW o, o = orders[s], NEW kinds, Takes(i, kinds), m.kind \in Lines \cup Reported
             PROVE  Truth'
  BY DEF LineApplied, ReportApplied, Takes
<1>0. /\ exch \in [Nums -> ExchangeOrder] /\ inbox \in Seq(Message)
      /\ ctx \in [Nums -> Slots \cup {NoSlot}] /\ orders \in [Slots -> Order]
  BY DEF Inv, TypeOK, EngineTypeOK
<1>1. m \in Message /\ n \in Nums /\ i \in 1..Len(inbox)
  BY <1>0, TakesFacts, Remaining
<1>2. s \in Slots /\ o \in Order
  BY <1>0, <1>1 DEF LineApplied, ReportApplied, HasSlot, Ours
<1>3. UNCHANGED <<exch, ctx>>
  BY DEF LineApplied, ReportApplied
<1>4. TrueOf(m, exch[n]) /\ SlotTrueOf(o, exch[n])
  BY <1>1, <1>2 DEF Truth, Truthful, SlotsTruthful, Holds
<1>5. SlotTrueOf(orders'[s], exch[n])
  <2>1. CASE LineApplied(i)
    <3>1. orders'[s] = Updated(o, m) /\ m.kind \in Lines
      BY <1>0, <1>2, <2>1 DEF LineApplied, Takes
    <3>2. /\ Updated(o, m).exec = m.filled /\ Updated(o, m).reason = m.reason
          /\ Updated(o, m).cancelled = o.cancelled
      BY <1>2 DEF Updated, Order
    <3> QED
      BY <1>4, <3>1, <3>2 DEF TrueOf, SlotTrueOf
  <2>2. CASE ReportApplied(i)
    <3>1. orders'[s] = Marked(o, m) /\ m.kind \in Reported
      BY <1>0, <1>2, <2>2 DEF ReportApplied, Takes
    <3>2. CASE m.kind = "Cancel"
      BY <1>2, <1>4, <3>1, <3>2 DEF Marked, TrueOf, SlotTrueOf, Order
    <3>3. CASE m.kind = "Fill"
      BY <1>2, <1>4, <3>1, <3>3 DEF Marked, TrueOf, SlotTrueOf, Order
    <3>4. CASE m.kind \in {"Failure", "Reject"}
      BY <1>2, <1>4, <3>1, <3>4 DEF Marked, TrueOf, SlotTrueOf, Order
    <3> QED
      BY <3>1, <3>2, <3>3, <3>4 DEF Reported
  <2> QED
    BY <2>1, <2>2
<1>6. \A t \in Slots : t # s => orders'[t] = orders[t]
  BY <1>0 DEF LineApplied, ReportApplied
<1>7. \A t \in Slots, k \in Nums : Holds(t, k)' => Holds(t, k)
  <2>1. CASE \A t \in Slots : SameOrder(t)
    BY <1>3, <2>1 DEF Holds, SameOrder
  <2>2. CASE orders'[s].cid = Tag(n)
    <3>1. orders'[s].cid # IntMax
      <4>1. Tag(n) \in Nat /\ Tag(n) > IntMax /\ IntMax \in Nat
        BY <1>1, TagFacts, NumAssumption
      <4> QED
        BY <2>2, <4>1
    <3> QED
      BY <1>3, <1>6, <3>1 DEF Holds
  <2>3. ReportApplied(i) => \A t \in Slots : SameOrder(t)
    <3>1. ReportApplied(i) => m.kind \in Reported
      BY DEF ReportApplied, Takes
    <3>2. ReportApplied(i) => orders' = [orders EXCEPT ![s] = Marked(o, m)]
      BY DEF ReportApplied
    <3>3. m.kind \in Reported => Marked(o, m).num = o.num /\ Marked(o, m).cid = o.cid
      BY <1>2 DEF Marked, Order, Reported
    <3> HIDE DEF Holds
    <3> QED
      BY <1>0, <1>2, <1>6, <3>1, <3>2, <3>3 DEF SameOrder
  <2>4. LineApplied(i) => (\A t \in Slots : SameOrder(t)) \/ orders'[s].cid = Tag(n)
    BY LineNames
  <2> QED
    BY <2>1, <2>2, <2>3, <2>4
<1>8. SlotsTruthful'
  <2> SUFFICES ASSUME NEW k \in Nums, NEW t \in Slots, Holds(t, k)
               PROVE  SlotTrueOf(orders'[t], exch[k])
    BY <1>3, <1>7 DEF SlotsTruthful
  <2>1. CASE t = s
    <3>1. Holds(s, n)
      BY DEF Holds
    <3>2. k = n
      BY <1>1, <1>2, <2>1, <3>1, OneHeldPerSlot
    <3> QED
      BY <1>5, <2>1, <3>2
  <2>2. CASE t # s
    BY <1>6, <2>2 DEF Truth, SlotsTruthful
  <2> QED
    BY <2>1, <2>2
<1>9. SameExchange /\ NothingSaid
  <2>1. \A j \in 1..Len(inbox') : inbox'[j] = inbox[j] \/ inbox'[j] = inbox[j+1]
    BY <1>0, Remaining
  <2> QED
    BY <1>0, <1>3, <2>1, Remaining DEF SameExchange, NothingSaid
<1> QED
  BY <1>8, <1>9, QueueFrame DEF Truth

LEMMA TruthOfHandler ==
    ASSUME Inv, Truth, NEW i \in Deliverable, Handle(i)
    PROVE  Truth'
<1>0. /\ exch \in [Nums -> ExchangeOrder] /\ inbox \in Seq(Message)
      /\ orders \in [Slots -> Order]
  BY DEF Inv, TypeOK, EngineTypeOK
<1>1. CASE LineApplied(i) \/ ReportApplied(i)
  BY <1>1, TruthOfRecord
<1>2. CASE ~(LineApplied(i) \/ ReportApplied(i))
  <2>1. PICK kinds : Takes(i, kinds)
    BY <1>2 DEF Handle, LineDropped, LineStale, LineSendsCancel, LineError, ReportDropped,
                NotCancelledReport, SingleOrderReplay
  <2>2. NothingSaid
    <3>1. \A j \in 1..Len(inbox') : inbox'[j] = inbox[j] \/ inbox'[j] = inbox[j+1]
      BY <1>0, <2>1, Remaining
    <3> QED
      BY <1>0, <2>1, <3>1, Remaining DEF NothingSaid
  <2>3. UNCHANGED ctx
    BY <1>2 DEF Handle, LineDropped, LineStale, LineSendsCancel, LineError, ReportDropped,
                NotCancelledReport, SingleOrderReplay
  <2>4. CASE LineSendsCancel(i)
    <3>1. SameExchange
      <4> DEFINE k == inbox[i].num
                 f == [exch[k] EXCEPT !.cancels = @ + 1, !.asked = TRUE]
      <4>1. k \in Nums
        BY <1>0, <2>1, Remaining, QueueFacts
      <4>2. f.st = exch[k].st /\ f.filled = exch[k].filled
        BY <1>0, <4>1 DEF ExchangeOrder
      <4>3. UNCHANGED exch \/ exch' = [exch EXCEPT ![k] = f]
        BY <1>0, <2>4, <4>1 DEF LineSendsCancel
      <4> HIDE DEF f
      <4> QED
        BY <1>0, <4>1, <4>2, <4>3 DEF SameExchange
    <3>2. \A t \in Slots : /\ orders'[t].exec = orders[t].exec
                           /\ orders'[t].cancelled = orders[t].cancelled
                           /\ orders'[t].reason = orders[t].reason
                           /\ SameOrder(t)
      BY <1>0, <2>4 DEF LineSendsCancel, Order, SameOrder
    <3> QED
      BY <2>2, <2>3, <3>1, <3>2, TruthFrame DEF KeepsContext
  <2>5. CASE ~LineSendsCancel(i)
    <3>1. UNCHANGED <<exch, orders>>
      BY <1>2, <2>5 DEF Handle, LineDropped, LineStale, LineError, ReportDropped,
                        NotCancelledReport, SingleOrderReplay
    <3> QED
      BY <2>2, <2>3, <3>1, TruthFrame DEF SameExchange, KeepsContext, SameOrder
  <2> QED
    BY <2>4, <2>5
<1> QED
  BY <1>1, <1>2

(* A new slot, for an order n of which nothing is known that is not so.    *)
LEMMA TruthOfNewSlot ==
    ASSUME Inv, Truth, nextIndex \in Slots,
           Truthful', NoneUnsent', \A k \in Nums : Sound(exch'[k]),
           NEW n \in Nums, NEW o \in Order, orders' = [orders EXCEPT ![nextIndex] = o],
           o.cid = IntMax => o.num = n,
           SlotTrueOf(o, exch'[n]),
           \A q \in Order : SlotTrueOf(q, exch[n]) => SlotTrueOf(q, exch'[n]),
           \A k \in Nums \ {n} : exch'[k] = exch[k] /\ ctx'[k] = ctx[k],
           ctx'[n] \in {nextIndex, ctx[n]}
    PROVE  Truth'
<1>0. /\ ctx \in [Nums -> Slots \cup {NoSlot}] /\ orders \in [Slots -> Order]
  BY DEF Inv, TypeOK, EngineTypeOK
<1>1. \A k \in Nums : ctx[k] # NoSlot => ctx[k] \in Slots /\ ctx[k] # nextIndex
  BY <1>0, SlotFacts DEF Inv, CtxOK
<1>2. orders'[nextIndex] = o /\ \A s \in Slots : s # nextIndex => orders'[s] = orders[s]
  BY <1>0
<1>3. SlotsTruthful'
  <2> SUFFICES ASSUME NEW k \in Nums, NEW s \in Slots, Holds(s, k)'
               PROVE  SlotTrueOf(orders'[s], exch'[k])
    BY DEF SlotsTruthful
  <2>1. CASE s = nextIndex
    <3>1. k = n
      <4>1. CASE ctx'[k] = nextIndex
        BY <1>1, <4>1, SlotFacts
      <4>2. CASE o.num = k /\ o.cid = IntMax
        BY <4>2
      <4> QED
        BY <1>2, <2>1, <4>1, <4>2 DEF Holds
    <3> QED
      BY <1>2, <2>1, <3>1
  <2>2. CASE s # nextIndex
    <3>1. Holds(s, k) /\ orders'[s] = orders[s] /\ orders[s] \in Order
      BY <1>0, <1>2, <2>2 DEF Holds
    <3> QED
      BY <3>1 DEF Truth, SlotsTruthful
  <2> QED
    BY <2>1, <2>2
<1> QED
  BY <1>3 DEF Truth

(* Orders that are still to be sent are not at the exchange.               *)
Unsent == \A s \in Slots : s >= nextIndex => exch[OrderNum(s)].st = "none"

LEMMA UnsentStep ==
    ASSUME Inv, Truth, Unsent, Next
    PROVE  Unsent'
<1>0. /\ exch \in [Nums -> ExchangeOrder] /\ nextIndex \in 0..MaxOrders
      /\ \A s \in Slots : s \in Nat /\ OrderNum(s) \in Nums
  BY SlotFacts DEF Inv, TypeOK, EngineTypeOK
<1>1. ASSUME NEW r \in Requests, SendOrder(r)
      PROVE  Unsent'
  <2>1. nextIndex \in Slots /\ nextIndex' = nextIndex + 1
    BY <1>0, <1>1, SlotFacts DEF SendOrder
  <2>2. \A k \in Nums : k # OrderNum(nextIndex) => exch'[k] = exch[k]
    BY <1>0, <1>1 DEF SendOrder
  <2> QED
    BY <1>0, <2>1, <2>2, SlotFacts DEF Unsent
<1>2. CASE SameExchange /\ nextIndex' \in {nextIndex, nextIndex + 1}
  BY <1>0, <1>2, SlotAssumption DEF Unsent, SameExchange
<1>3. ASSUME NEW n \in Nums, Engine(n)
      PROVE  Unsent'
  <2>1. PICK f \in ExchangeOrder :
          exch' = [exch EXCEPT ![n] = f] /\ Evolves(exch[n], f)
    BY <1>3, EngineGoesOn DEF Inv, TypeOK, Truth, Engine
  <2>2. \A k \in Nums : k # n => exch'[k] = exch[k]
    BY <1>0, <2>1
  <2>3. exch[n].st # "none" /\ nextIndex' = nextIndex
    BY <1>3, <2>1 DEF Evolves, Engine
  <2> QED
    BY <1>0, <2>2, <2>3 DEF Unsent
<1>4. CASE SendCancel
  <2>1. main.num \in Nums
    BY <1>4 DEF SendCancel, Inv, CallOK
  <2>2. SameExchange
    BY <1>0, <1>4, <2>1, SentCancel DEF SendCancel
  <2> QED
    BY <1>2, <1>4, <2>2 DEF SendCancel
<1>5. ASSUME NEW i \in Deliverable, LineSendsCancel(i)
      PROVE  Unsent'
  <2>1. inbox[i].num \in Nums
    BY <1>5, TakesFacts DEF LineSendsCancel, Inv, TypeOK, EngineTypeOK
  <2>2. SameExchange
    BY <1>0, <1>5, <2>1, SentCancel DEF LineSendsCancel
  <2> QED
    BY <1>2, <1>5, <2>2 DEF LineSendsCancel
<1>6. CASE UNCHANGED exch /\ nextIndex' \in {nextIndex, nextIndex + 1}
  BY <1>2, <1>6 DEF SameExchange
<1> QED
  BY <1>1, <1>3, <1>4, <1>5, <1>6
  DEF Next, Call, Proceed, GiveUp, Callback, Handle, OpenOrderReplay, Login, FinishSend,
      AbortSend, TimeOut, CancelTimedOut, ReturnTimedOut, DoCancel, CancelNothing,
      FinishCancel, AbortCancel, RetrieveOrder, FinishRetrieve, Retrieved, AbortRetrieve,
      LineDropped, LineStale, LineApplied, LineError, ReportApplied, ReportDropped,
      NotCancelledReport, SingleOrderReplay, Test, Reset

LEMMA TruthOfSend ==
    ASSUME Inv, Truth, Unsent, NEW r \in Requests, SendOrder(r)
    PROVE  Truth'
<1> DEFINE n == OrderNum(nextIndex)
           o == NewOrder(Tag(n), 0, r.limit, r.lasting)
<1>0. /\ exch \in [Nums -> ExchangeOrder] /\ inbox \in Seq(Message)
      /\ ctx \in [Nums -> Slots \cup {NoSlot}] /\ nextIndex \in 0..MaxOrders
  BY DEF Inv, TypeOK, EngineTypeOK
<1>1. nextIndex \in Slots /\ n \in Nums
  BY <1>0, SlotFacts DEF SendOrder
<1>2. /\ o \in Order /\ o.exec = 0 /\ o.cancelled = FALSE /\ o.reason = "None"
      /\ o.cid # IntMax
  <2>1. Tag(n) \in Nat /\ r.limit \in BOOLEAN /\ r.lasting \in BOOLEAN
    BY <1>1, TagFacts, RequestAssumption
  <2>2. Tag(n) # IntMax
    <3>1. Tag(n) \in Nat /\ Tag(n) > IntMax /\ IntMax \in Nat
      BY <1>1, TagFacts, NumAssumption
    <3> QED
      BY <3>1
  <2> QED
    BY <2>1, <2>2, OrderFacts DEF NewOrder
<1>3. orders' = [orders EXCEPT ![nextIndex] = o] /\ UNCHANGED inbox
  BY DEF SendOrder
<1>4. exch[n].st = "none" /\ exch[n].filled = 0
  BY <1>0, <1>1 DEF Unsent, Truth, Sound, Slots
<1>5. \A k \in Nums : k # n => exch'[k] = exch[k] /\ ctx'[k] = ctx[k]
  BY <1>0, <1>1 DEF SendOrder
<1>6. /\ exch'[n].filled = 0
      /\ exch'[n].st \in {"none", "sent"}
      /\ (exch'[n] = exch[n] /\ ctx'[n] = ctx[n]) \/ ctx'[n] = nextIndex
  BY <1>0, <1>1, <1>4 DEF SendOrder, ExchangeOrder
<1> HIDE DEF n, o
<1>7. \A k \in Nums : Sound(exch'[k])
  BY <1>5, <1>6 DEF Truth, Sound
<1>8. ASSUME NEW j \in 1..Len(inbox)
      PROVE  /\ TrueOf(inbox[j], exch'[inbox[j].num])
             /\ exch'[inbox[j].num].st = "none" => inbox[j].kind = "ReplayEnd"
  <2>1. /\ TrueOf(inbox[j], exch[inbox[j].num]) /\ inbox[j].num \in Nums
        /\ exch[inbox[j].num].st = "none" => inbox[j].kind = "ReplayEnd"
    BY <1>0, QueueFacts DEF Truth, Truthful, NoneUnsent
  <2>2. CASE inbox[j].num # n
    BY <1>5, <2>1, <2>2
  <2>3. CASE inbox[j].num = n
    BY <1>4, <1>6, <2>1, <2>3 DEF TrueOf, Lines
  <2> QED
    BY <2>2, <2>3
<1>9. Truthful' /\ NoneUnsent'
  BY <1>3, <1>8 DEF Truthful, NoneUnsent
<1>10. SlotTrueOf(o, exch'[n])
  BY <1>2, <1>6 DEF SlotTrueOf, Ends
<1>11. \A q \in Order : SlotTrueOf(q, exch[n]) => SlotTrueOf(q, exch'[n])
  BY <1>4, <1>6 DEF SlotTrueOf, Ends
<1> QED
  BY <1>1, <1>2, <1>3, <1>5, <1>6, <1>7, <1>9, <1>10, <1>11, TruthOfNewSlot

(* A replay tells how the order stands.                                    *)
LEMMA ReplaySays ==
    ASSUME EngineTypeOK, NEW n \in Nums
    PROVE  /\ ReplayOf(n) \in Seq(Message)
           /\ \A j \in 1..Len(ReplayOf(n)) :
                LET m == ReplayOf(n)[j]
                IN  /\ m.num = n /\ TrueOf(m, exch[n])
                    /\ \/ m.kind = "ReplayEnd" /\ j = Len(ReplayOf(n))
                       \/ m.kind = "History" /\ m.filled = exch[n].filled /\ exch[n].st # "none"
<1>0. exch[n] \in ExchangeOrder /\ exch[n].filled \in 0..Qty /\ 0 \in 0..Qty
  BY QtyAssumption DEF EngineTypeOK, ExchangeOrder
<1> DEFINE end == Report("ReplayEnd", n, 0)
           line == Line("History", n, exch[n], Reason(exch[n]))
<1>1. end \in Message /\ end.kind = "ReplayEnd" /\ end.num = n /\ end.filled = 0
  BY <1>0, ReportFacts DEF Reports
<1>2. line \in Message /\ line.kind = "History" /\ line.num = n /\ line.filled = exch[n].filled
      /\ line.reason = Reason(exch[n])
  BY <1>0, MessageFacts DEF Lines, Line
<1>3. ReplayOf(n) = IF exch[n].st = "none" THEN <<end>> ELSE <<line, end>>
  BY DEF ReplayOf
<1> HIDE DEF end, line
<1>4. TrueOf(end, exch[n]) /\ TrueOf(line, exch[n])
  BY <1>0, <1>1, <1>2 DEF TrueOf, Reason, Ends, Lines
<1>5. CASE exch[n].st = "none"
  <2>1. <<end>> \in Seq(Message) /\ Len(<<end>>) = 1 /\ <<end>>[1] = end /\ 1..1 = {1}
    BY <1>1
  <2> QED
    BY <1>1, <1>3, <1>4, <1>5, <2>1
<1>6. CASE exch[n].st # "none"
  <2>1. /\ <<line, end>> \in Seq(Message) /\ Len(<<line, end>>) = 2
        /\ <<line, end>>[1] = line /\ <<line, end>>[2] = end /\ 1..2 = {1, 2}
    BY <1>1, <1>2
  <2> QED
    BY <1>1, <1>2, <1>3, <1>4, <1>6, <2>1
<1> QED
  BY <1>5, <1>6

LEMMA TruthOfRetrieve ==
    ASSUME Inv, Truth, NEW n \in Nums, RetrieveOrder(n)
    PROVE  Truth'
<1> DEFINE o == NewOrder(0, n, FALSE, FALSE)
<1>0. /\ exch \in [Nums -> ExchangeOrder] /\ inbox \in Seq(Message)
      /\ ctx \in [Nums -> Slots \cup {NoSlot}] /\ nextIndex \in 0..MaxOrders
      /\ EngineTypeOK
  BY DEF Inv, TypeOK, EngineTypeOK
<1>1. nextIndex \in Slots
  BY <1>0, SlotFacts DEF RetrieveOrder
<1>2. /\ o \in Order /\ o.exec = 0 /\ o.cancelled = FALSE /\ o.reason = "None"
      /\ o.num = n
  BY OrderFacts DEF NewOrder
<1>3. orders' = [orders EXCEPT ![nextIndex] = o] /\ UNCHANGED exch
  BY DEF RetrieveOrder
<1>5. \A k \in Nums : k # n => ctx'[k] = ctx[k]
  BY <1>0 DEF RetrieveOrder
<1>6. ctx'[n] = ctx[n] \/ ctx'[n] = nextIndex
  BY <1>0 DEF RetrieveOrder
<1> HIDE DEF o
<1>7. Truthful' /\ NoneUnsent'
  <2>1. CASE UNCHANGED inbox
    BY <1>3, <2>1 DEF Truth, Truthful, NoneUnsent
  <2>2. CASE Emit(ReplayOf(n))
    <3> SUFFICES ASSUME NEW j \in 1..Len(inbox')
                 PROVE  /\ TrueOf(inbox'[j], exch[inbox'[j].num])
                        /\ exch[inbox'[j].num].st = "none" => inbox'[j].kind = "ReplayEnd"
      BY <1>3 DEF Truthful, NoneUnsent
    <3>1. CASE j \in 1..Len(inbox)
      <4>1. inbox'[j] = inbox[j]
        BY <1>0, <2>2, <3>1, Joined, ReplaySays
      <4> QED
        BY <3>1, <4>1 DEF Truth, Truthful, NoneUnsent
    <3>2. CASE j \notin 1..Len(inbox)
      <4>1. PICK k \in 1..Len(ReplayOf(n)) : inbox'[j] = ReplayOf(n)[k]
        BY <1>0, <2>2, <3>2, Joined, ReplaySays
      <4> QED
        BY <1>0, <4>1, ReplaySays
    <3> QED
      BY <3>1, <3>2
  <2> QED
    BY <2>1, <2>2 DEF RetrieveOrder
<1>8. 0 <= exch[n].filled
  BY <1>0, QtyAssumption DEF ExchangeOrder
<1>9. SlotTrueOf(o, exch'[n])
  BY <1>2, <1>3, <1>8 DEF SlotTrueOf, Ends
<1>10. \A k \in Nums : Sound(exch'[k])
  BY <1>3 DEF Truth
<1> QED
  BY <1>1, <1>2, <1>3, <1>5, <1>6, <1>7, <1>9, <1>10, TruthOfNewSlot

LEMMA TruthOfRestore ==
    ASSUME Inv, Truth, NEW n \in Nums, OpenOrderReplay(n)
    PROVE  Truth'
<1> DEFINE new == NewOrder(RestoredId(n), n, FALSE, TRUE)
           o == [new EXCEPT !.exec = exch[n].filled]
<1>0. /\ exch \in [Nums -> ExchangeOrder] /\ inbox \in Seq(Message)
      /\ ctx \in [Nums -> Slots \cup {NoSlot}] /\ nextIndex \in 0..MaxOrders
      /\ exch[n].filled \in 0..Qty
  BY DEF Inv, TypeOK, EngineTypeOK, ExchangeOrder
<1>1. nextIndex \in Slots
  BY <1>0, SlotFacts DEF OpenOrderReplay
<1>2. /\ o \in Order /\ o.exec = exch[n].filled /\ o.cancelled = FALSE /\ o.reason = "None"
      /\ o.num = n
  <2>1. new \in Order /\ new.cancelled = FALSE /\ new.reason = "None" /\ new.num = n
    BY RestoredFacts, OrderFacts DEF NewOrder
  <2> HIDE DEF new
  <2> QED
    BY <1>0, <2>1 DEF Order
<1>3. orders' = [orders EXCEPT ![nextIndex] = o] /\ UNCHANGED <<exch, inbox>>
  BY DEF OpenOrderReplay
<1>4. /\ \A k \in Nums : k # n => ctx'[k] = ctx[k]
      /\ ctx'[n] \in {nextIndex, ctx[n]}
  BY <1>0 DEF OpenOrderReplay
<1> HIDE DEF o
<1>5. SameExchange /\ NothingSaid
  BY <1>0, <1>3 DEF SameExchange, NothingSaid
<1>6. Truthful' /\ NoneUnsent' /\ \A k \in Nums : Sound(exch'[k])
  BY <1>5, QueueFrame
<1>7. SlotTrueOf(o, exch'[n])
  BY <1>0, <1>2, <1>3, QtyAssumption DEF SlotTrueOf, Ends
<1> QED
  BY <1>1, <1>2, <1>3, <1>4, <1>6, <1>7, TruthOfNewSlot

LEMMA TruthOfCall ==
    ASSUME Inv, Truth,
           \/ SendCancel \/ CancelTimedOut \/ Login \/ FinishSend \/ AbortSend \/ TimeOut
           \/ ReturnTimedOut \/ CancelNothing \/ FinishCancel \/ AbortCancel \/ FinishRetrieve
           \/ AbortRetrieve \/ Test \/ Reset \/ UNCHANGED vars \/ \E n \in Nums : DoCancel(n)
    PROVE  Truth'
<1>0. /\ exch \in [Nums -> ExchangeOrder] /\ inbox \in Seq(Message)
      /\ orders \in [Slots -> Order] /\ ctx \in [Nums -> Slots \cup {NoSlot}]
  BY DEF Inv, TypeOK, EngineTypeOK
<1>1. NothingSaid
  <2>1. UNCHANGED inbox
    BY DEF SendCancel, CancelTimedOut, Login, FinishSend, AbortSend, TimeOut, ReturnTimedOut,
           CancelNothing, FinishCancel, AbortCancel, FinishRetrieve, Retrieved, AbortRetrieve,
           Test, Reset, vars, DoCancel
  <2> QED
    BY <1>0, <2>1 DEF NothingSaid
<1>2. CASE SendCancel
  <2>1. main.num \in Nums
    BY <1>2 DEF SendCancel, Inv, CallOK
  <2>2. UNCHANGED orders /\ SameExchange
    BY <1>0, <1>2, <2>1, SentCancel DEF SendCancel
  <2>3. \A n \in Nums : KeepsContext(n)
    BY <1>0, <1>2, <2>1 DEF SendCancel, KeepsContext
  <2> QED
    BY <1>1, <2>2, <2>3, TruthFrame DEF SameOrder
<1>3. CASE CancelTimedOut
  <2>1. UNCHANGED <<exch, ctx>>
    BY <1>3 DEF CancelTimedOut
  <2>2. \A s \in Slots : /\ orders'[s].exec = orders[s].exec
                         /\ orders'[s].cancelled = orders[s].cancelled
                         /\ orders'[s].reason = orders[s].reason
                         /\ SameOrder(s)
    <3>1. main.slot \in Slots
      <4>1. CallOK /\ main.pc = "timeout"
        BY <1>3 DEF CancelTimedOut, Inv
      <4> QED
        BY <4>1 DEF CallOK, Sending
    <3>2. CASE UNCHANGED orders
      BY <3>2 DEF SameOrder
    <3>3. CASE orders' = [orders EXCEPT ![main.slot].armed = ArmsCancel(orders[main.slot])]
      <4> DEFINE o == [orders[main.slot] EXCEPT !.armed = ArmsCancel(orders[main.slot])]
      <4>1. /\ o.exec = orders[main.slot].exec /\ o.cancelled = orders[main.slot].cancelled
            /\ o.reason = orders[main.slot].reason
            /\ o.num = orders[main.slot].num /\ o.cid = orders[main.slot].cid
        BY <1>0, <3>1 DEF Order
      <4>2. orders'[main.slot] = o /\ \A s \in Slots : s # main.slot => orders'[s] = orders[s]
        BY <1>0, <3>1, <3>3
      <4> HIDE DEF o
      <4> QED
        BY <4>1, <4>2 DEF SameOrder
    <3> QED
      BY <1>3, <3>2, <3>3 DEF CancelTimedOut
  <2> QED
    BY <1>1, <2>1, <2>2, TruthFrame DEF SameExchange, KeepsContext
<1>4. CASE UNCHANGED <<exch, ctx, orders>>
  BY <1>1, <1>4, TruthFrame DEF SameExchange, KeepsContext, SameOrder
<1> QED
  BY <1>2, <1>3, <1>4
  DEF Login, FinishSend, AbortSend, TimeOut, ReturnTimedOut, CancelNothing, FinishCancel,
      AbortCancel, FinishRetrieve, Retrieved, AbortRetrieve, Test, Reset, vars, DoCancel

LEMMA TruthStep ==
    ASSUME Inv, Truth, Unsent, [Next]_vars
    PROVE  Truth' /\ Unsent'
<1>1. Unsent'
  <2>1. CASE Next
    BY <2>1, UnsentStep
  <2>2. CASE UNCHANGED vars
    BY <2>2 DEF Unsent, vars
  <2> QED
    BY <2>1, <2>2
<1>2. Truth'
  <2>1. CASE Call
    BY <2>1, TruthOfSend, TruthOfRetrieve, TruthOfRestore, TruthOfCall DEF Call
  <2>2. CASE Proceed \/ GiveUp \/ UNCHANGED vars \/ Test \/ Reset
    BY <2>2, TruthOfCall DEF Proceed, GiveUp
  <2>3. CASE \E i \in Deliverable : Handle(i)
    BY <2>3, TruthOfHandler
  <2>4. CASE \E n \in Nums : Engine(n)
    BY <2>4, TruthOfEngine
  <2> QED
    BY <2>1, <2>2, <2>3, <2>4 DEF Next, Callback
<1> QED
  BY <1>1, <1>2

LEMMA TruthInit == Init => Truth /\ Unsent
<1> SUFFICES ASSUME Init PROVE Truth /\ Unsent
  OBVIOUS
<1>1. inbox = << >> /\ \A n \in Nums : ctx[n] = NoSlot
  BY DEF Init, EngineInit
<1>2. \A n \in Nums : exch[n].filled = 0 /\ (n \notin OldNums => exch[n].st = "none")
  BY DEF Init, EngineInit, NoExchangeOrder
<1>h. \A n \in Nums, s \in Slots : ~Holds(s, n)
  BY <1>1, SlotFacts, TagFacts DEF Init, NewOrder, Holds
<1>3. Unsent
  BY <1>2, SlotFacts DEF Unsent
<1> QED
  BY <1>1, <1>2, <1>3, <1>h DEF Truth, Truthful, Sound, SlotsTruthful, NoneUnsent

LEMMA TruthInvariance == Spec => [](Truth /\ Unsent)
BY TruthInit, TruthStep, Inductive, PTL DEF Spec

(* What BrokerTrade goes by did happen: whatever is lost, late or          *)
(* overtaken, no slot counts a fill that was not made, and none is marked  *)
(* cancelled while its order lives.                                        *)
THEOREM NothingIsInvented == Spec => []NothingInvented
<1>1. Inv /\ Truth => NothingInvented
  BY RegisteredHolds DEF Truth, SlotsTruthful, SlotTrueOf, NothingInvented, Live
<1> QED
  BY <1>1, Inductive, TruthInvariance, PTL

-----------------------------------------------------------------------------
(* Fills that a slot does not know of are in the queue. *)

Counting == Lines \cup {"Fill"}

(* A FillReport of order n is in the queue, behind its i-th callback.      *)
FillIn(i, n) == \E j \in 1..Len(inbox) : j > i /\ inbox[j].num = n /\ inbox[j].kind = "Fill"

QueueCounts ==
    \A i \in 1..Len(inbox), n \in Nums : inbox[i].num = n /\ inbox[i].kind \in Counting =>
        inbox[i].filled = exch[n].filled \/ FillIn(i, n)

Hears(n) == ctx[n] # NoSlot /\ orders[ctx[n]].cid = Tag(n)

SlotCounts(n) == Hears(n) => orders[ctx[n]].exec = exch[n].filled \/ FillIn(0, n)

Counted == QueueCounts /\ \A n \in Nums \ Tagged : SlotCounts(n)

SameFills == \A n \in Nums : exch'[n].filled = exch[n].filled

LEMMA CountedFrame ==
    ASSUME Inv, Counted, SameFills, UNCHANGED inbox,
           \A n \in Nums \ Tagged : Hears(n)' =>
              \/ Hears(n) /\ orders'[ctx'[n]].exec = orders[ctx[n]].exec
              \/ orders'[ctx'[n]].exec = exch[n].filled
    PROVE  Counted'
<1>1. \A i \in 1..Len(inbox) : inbox[i].num \in Nums
  BY QueueFacts DEF Inv, TypeOK, EngineTypeOK
<1>2. \A i, n : FillIn(i, n)' <=> FillIn(i, n)
  BY DEF FillIn
<1>3. QueueCounts'
  BY <1>1, <1>2 DEF Counted, QueueCounts, SameFills
<1>4. \A n \in Nums \ Tagged : SlotCounts(n)'
  BY <1>2 DEF Counted, SlotCounts, SameFills
<1> QED
  BY <1>3, <1>4 DEF Counted

LEMMA FillsTaken ==
    ASSUME inbox \in Seq(Message), "Reorder" \notin Faults, NEW i \in Deliverable,
           NEW kinds, Takes(i, kinds)
    PROVE  /\ \A n : \A j \in 1..Len(inbox') : FillIn(j + 1, n) => FillIn(j, n)'
           /\ \A n : FillIn(1, n) => FillIn(0, n)'
           /\ \A n : FillIn(0, n) /\ ~(inbox[i].num = n /\ inbox[i].kind = "Fill") => FillIn(0, n)'
<1>0. /\ i = 1 /\ 1 \in 1..Len(inbox) /\ Len(inbox) \in Nat
      /\ Len(inbox') = Len(inbox) - 1
      /\ \A j \in 1..Len(inbox) : j > 1 => j - 1 \in 1..Len(inbox') /\ inbox'[j - 1] = inbox[j]
  BY TakenFirst
<1>1. ASSUME NEW j \in Nat, NEW n, FillIn(j + 1, n)
      PROVE  FillIn(j, n)'
  <2>1. PICK k \in 1..Len(inbox) : k > j + 1 /\ inbox[k].num = n /\ inbox[k].kind = "Fill"
    BY <1>1 DEF FillIn
  <2>2. k > 1 /\ k - 1 > j
    BY <1>0, <2>1
  <2>3. k - 1 \in 1..Len(inbox') /\ inbox'[k - 1] = inbox[k]
    BY <1>0, <2>2
  <2> QED
    BY <2>1, <2>2, <2>3 DEF FillIn
<1>2. \A n : FillIn(1, n) => FillIn(0, n)'
  BY <1>1, 0 \in Nat, 0 + 1 = 1
<1>3. ASSUME NEW n, FillIn(0, n), ~(inbox[i].num = n /\ inbox[i].kind = "Fill")
      PROVE  FillIn(1, n)
  <2>1. PICK k \in 1..Len(inbox) : inbox[k].num = n /\ inbox[k].kind = "Fill"
    BY <1>3 DEF FillIn
  <2>2. k > 1
    BY <1>0, <1>3, <2>1
  <2> QED
    BY <2>1, <2>2 DEF FillIn
<1>4. \A j \in 1..Len(inbox') : j \in Nat
  OBVIOUS
<1> QED
  BY <1>1, <1>2, <1>3, <1>4

(* What a handler does to the slots: it leaves the counts, or records what *)
(* its callback says.                                                      *)
LEMMA HandlerCounts ==
    ASSUME Inv, NEW i \in Deliverable, Handle(i), NEW n \in Nums, Hears(n)'
    PROVE  \/ /\ Hears(n) /\ orders'[ctx'[n]].exec = orders[ctx[n]].exec
              /\ ~(inbox[i].num = n /\ inbox[i].kind = "Fill")
           \/ /\ inbox[i].num = n /\ inbox[i].kind \in Counting
              /\ orders'[ctx'[n]].exec = inbox[i].filled
<1> DEFINE m == inbox[i]
           s == ctx[m.num]
<1>0. /\ ctx \in [Nums -> Slots \cup {NoSlot}] /\ orders \in [Slots -> Order]
      /\ inbox \in Seq(Message) /\ ctx' = ctx
  BY DEF Inv, TypeOK, EngineTypeOK, Handle, LineDropped, LineStale, LineSendsCancel, LineApplied,
         LineError, ReportApplied, ReportDropped, NotCancelledReport, SingleOrderReplay
<1>1. m \in Message /\ m.num \in Nums
  <2>1. i \in 1..Len(inbox)
    BY DEF Deliverable
  <2> QED
    BY <1>0, <2>1, QueueFacts
<1>2. ctx[n] \in Slots /\ orders[ctx[n]] \in Order
  BY <1>0, SlotFacts DEF Hears
<1>3. n # m.num => ctx[n] # s
  BY <1>1, <1>2, OneOrderPerSlot, SlotFacts
<1> HIDE DEF s
<1>4. CASE LineApplied(i)
  <2>1. m.kind \in Lines /\ s # NoSlot /\ orders' = [orders EXCEPT ![s] = Updated(orders[s], m)]
    BY <1>4 DEF LineApplied, Takes, HasSlot, Ours, s
  <2>2. CASE n = m.num
    <3>1. s = ctx[n] /\ s \in Slots
      BY <1>2, <2>2 DEF s
    <3>2. orders'[s] = Updated(orders[s], m)
      BY <1>0, <2>1, <3>1
    <3>3. Updated(orders[s], m).exec = m.filled
      BY <1>2, <3>1 DEF Updated, Order
    <3> QED
      BY <1>0, <2>1, <2>2, <3>1, <3>2, <3>3 DEF Counting
  <2>3. CASE n # m.num
    BY <1>0, <1>2, <1>3, <2>1, <2>3 DEF Hears
  <2> QED
    BY <2>2, <2>3
<1>5. CASE ReportApplied(i)
  <2>1. m.kind \in Reported /\ s # NoSlot /\ orders' = [orders EXCEPT ![s] = Marked(orders[s], m)]
    BY <1>5 DEF ReportApplied, Takes, Ours, s
  <2>2. CASE n = m.num
    <3>1. s = ctx[n] /\ s \in Slots
      BY <1>2, <2>2 DEF s
    <3>2. orders'[s] = Marked(orders[s], m)
      BY <1>0, <2>1, <3>1
    <3>3. CASE m.kind = "Fill"
      <4>1. Marked(orders[s], m).exec = m.filled
        BY <1>2, <3>1, <3>3 DEF Marked, Order
      <4> QED
        BY <1>0, <2>2, <3>1, <3>2, <3>3, <4>1 DEF Counting
    <3>4. CASE m.kind # "Fill"
      <4>1. Marked(orders[s], m).exec = orders[s].exec /\ Marked(orders[s], m).cid = orders[s].cid
        <5>1. CASE m.kind = "Cancel"
          BY <1>2, <3>1, <5>1 DEF Marked, Order
        <5>2. CASE m.kind \in {"Failure", "Reject"}
          BY <1>2, <3>1, <5>2 DEF Marked, Order
        <5> QED
          BY <2>1, <3>4, <5>1, <5>2 DEF Reported
      <4> QED
        BY <1>0, <3>1, <3>2, <3>4, <4>1 DEF Hears
    <3> QED
      BY <3>3, <3>4
  <2>3. CASE n # m.num
    BY <1>0, <1>2, <1>3, <2>1, <2>3 DEF Hears
  <2> QED
    BY <2>2, <2>3
<1>6. CASE LineSendsCancel(i)
  <2>1. m.kind \in Lines
    BY <1>6 DEF LineSendsCancel, Takes
  <2>2. orders' = [orders EXCEPT ![s].armed = FALSE]
    BY <1>6 DEF LineSendsCancel, s
  <2>3. orders'[ctx[n]].exec = orders[ctx[n]].exec /\ orders'[ctx[n]].cid = orders[ctx[n]].cid
    <3>1. \A o \in Order : [o EXCEPT !.armed = FALSE].exec = o.exec
                           /\ [o EXCEPT !.armed = FALSE].cid = o.cid
      BY DEF Order
    <3>2. orders'[ctx[n]] \in {orders[ctx[n]], [orders[ctx[n]] EXCEPT !.armed = FALSE]}
      BY <1>0, <1>2, <2>2
    <3> QED
      BY <1>2, <3>1, <3>2
  <2> QED
    BY <1>0, <2>1, <2>3 DEF Hears, Lines
<1>7. CASE ~(LineApplied(i) \/ ReportApplied(i) \/ LineSendsCancel(i))
  <2>1. UNCHANGED orders
    BY <1>7 DEF Handle, LineDropped, LineStale, LineError, ReportDropped, NotCancelledReport,
                SingleOrderReplay
  <2>2. Hears(n) /\ orders'[ctx'[n]].exec = orders[ctx[n]].exec
    BY <1>0, <2>1 DEF Hears
  <2>3. ~(m.num = n /\ m.kind = "Fill")
    BY <1>7, <2>2 DEF Handle, LineDropped, LineStale, LineError, ReportDropped,
                NotCancelledReport, SingleOrderReplay, Takes, Lines, Ours, Hears
  <2> QED
    BY <2>2, <2>3
<1> QED
  BY <1>4, <1>5, <1>6, <1>7

LEMMA CountedOfHandler ==
    ASSUME Inv, Counted, "Reorder" \notin Faults, NEW i \in Deliverable, Handle(i), SameFills
    PROVE  Counted'
<1>0. inbox \in Seq(Message)
  BY DEF Inv, TypeOK, EngineTypeOK
<1>1. PICK kinds : Takes(i, kinds)
  BY DEF Handle, LineDropped, LineStale, LineSendsCancel, LineApplied, LineError, ReportApplied,
         ReportDropped, NotCancelledReport, SingleOrderReplay
<1>2. /\ i = 1 /\ 1 \in 1..Len(inbox)
      /\ \A j \in 1..Len(inbox') : inbox'[j] = inbox[j + 1] /\ j + 1 \in 1..Len(inbox)
  BY <1>0, <1>1, TakenFirst
<1>3. /\ \A n : \A j \in 1..Len(inbox') : FillIn(j + 1, n) => FillIn(j, n)'
      /\ \A n : FillIn(1, n) => FillIn(0, n)'
      /\ \A n : FillIn(0, n) /\ ~(inbox[i].num = n /\ inbox[i].kind = "Fill") => FillIn(0, n)'
  BY <1>0, <1>1, FillsTaken
<1>4. QueueCounts'
  <2> SUFFICES ASSUME NEW j \in 1..Len(inbox'), NEW n \in Nums, inbox'[j].num = n,
                      inbox'[j].kind \in Counting
               PROVE  inbox'[j].filled = exch'[n].filled \/ FillIn(j, n)'
    BY DEF QueueCounts
  <2>1. inbox'[j] = inbox[j + 1] /\ j + 1 \in 1..Len(inbox)
    BY <1>2
  <2>2. inbox[j + 1].filled = exch[n].filled \/ FillIn(j + 1, n)
    BY <2>1 DEF Counted, QueueCounts
  <2>3. FillIn(j + 1, n) => FillIn(j, n)'
    BY <1>3
  <2> QED
    BY <2>1, <2>2, <2>3 DEF SameFills
<1>5. ASSUME NEW n \in Nums \ Tagged, Hears(n)'
      PROVE  orders'[ctx'[n]].exec = exch'[n].filled \/ FillIn(0, n)'
  <2>1. exch'[n].filled = exch[n].filled
    BY DEF SameFills
  <2>2. CASE /\ Hears(n) /\ orders'[ctx'[n]].exec = orders[ctx[n]].exec
             /\ ~(inbox[i].num = n /\ inbox[i].kind = "Fill")
    BY <1>3, <2>1, <2>2 DEF Counted, SlotCounts
  <2>3. CASE /\ inbox[i].num = n /\ inbox[i].kind \in Counting
             /\ orders'[ctx'[n]].exec = inbox[i].filled
    BY <1>2, <1>3, <2>1, <2>3 DEF Counted, QueueCounts
  <2> QED
    BY <1>5, <2>2, <2>3, HandlerCounts
<1> QED
  BY <1>4, <1>5 DEF Counted, SlotCounts

LEMMA FillsJoined ==
    ASSUME inbox \in Seq(Message), NEW msgs \in Seq(Message), Emit(msgs)
    PROVE  \A i, n : FillIn(i, n) => FillIn(i, n)'
<1>1. /\ \A j \in 1..Len(inbox) : inbox'[j] = inbox[j]
      /\ Len(inbox') = Len(inbox) + Len(msgs) /\ Len(inbox) \in Nat /\ Len(msgs) \in Nat
  BY Joined
<1>2. \A j \in 1..Len(inbox) : j \in 1..Len(inbox')
  BY <1>1
<1> QED
  BY <1>1, <1>2 DEF FillIn

LEMMA CountedOfEngine ==
    ASSUME Inv, Truth, Counted, NEW n \in Nums, Engine(n)
    PROVE  Counted'
<1>0. exch \in [Nums -> ExchangeOrder] /\ inbox \in Seq(Message)
  BY DEF Inv, TypeOK, EngineTypeOK
<1>1. UNCHANGED <<ctx, orders>>
  BY DEF Engine, EngineStep, Acknowledge, Refuse, Reject, Fill, Cancel, RefuseCancel, Announce
<1>2. PICK f \in ExchangeOrder, msgs \in Seq(Message) :
        exch' = [exch EXCEPT ![n] = f] /\ Says(n, exch[n], f, msgs) /\ Emit(msgs)
  BY EngineGoesOn DEF Inv, TypeOK, Truth, Engine
<1>3. exch'[n] = f /\ \A k \in Nums : k # n => exch'[k] = exch[k]
  BY <1>0, <1>2
<1>4. /\ \A j \in 1..Len(msgs) :
           msgs[j].num = n /\ (msgs[j].kind \in Counting => msgs[j].filled = f.filled)
      /\ f.filled # exch[n].filled => \E j \in 1..Len(msgs) : msgs[j].kind = "Fill"
  BY <1>2 DEF Says, Counting, Lines
<1>j. /\ \A j \in 1..Len(inbox) : inbox'[j] = inbox[j]
      /\ \A j \in 1..Len(msgs) : inbox'[Len(inbox) + j] = msgs[j]
      /\ \A j \in 1..Len(inbox') : j \notin 1..Len(inbox) =>
           j - Len(inbox) \in 1..Len(msgs) /\ inbox'[j] = msgs[j - Len(inbox)]
      /\ Len(inbox') = Len(inbox) + Len(msgs) /\ Len(inbox) \in Nat /\ Len(msgs) \in Nat
  <2>1. inbox \in Seq(Message) /\ msgs \in Seq(Message) /\ Emit(msgs)
    BY <1>0, <1>2
  <2>2. Len(inbox) \in Nat /\ Len(msgs) \in Nat
    BY <2>1
  <2> QED
    BY <2>1, <2>2, Joined
<1>5. f.filled # exch[n].filled => \A i \in 0..Len(inbox) : FillIn(i, n)'
  <2> SUFFICES ASSUME f.filled # exch[n].filled, NEW i \in 0..Len(inbox)
               PROVE  FillIn(i, n)'
    OBVIOUS
  <2>1. PICK j \in 1..Len(msgs) : msgs[j].kind = "Fill" /\ msgs[j].num = n
    BY <1>4
  <2>2. Len(inbox) + j \in 1..Len(inbox') /\ Len(inbox) + j > i
    BY <1>j
  <2> QED
    BY <1>j, <2>1, <2>2 DEF FillIn
<1>6. \A i, k : FillIn(i, k) => FillIn(i, k)'
  BY <1>0, <1>2, FillsJoined
<1>7. ASSUME NEW j \in 1..Len(inbox'), NEW k \in Nums, inbox'[j].num = k,
             inbox'[j].kind \in Counting
      PROVE  inbox'[j].filled = exch'[k].filled \/ FillIn(j, k)'
  <2>1. CASE j \in 1..Len(inbox)
    <3>1. inbox'[j] = inbox[j] /\ j \in 0..Len(inbox)
      BY <1>j, <2>1
    <3>2. inbox[j].filled = exch[k].filled \/ FillIn(j, k)
      BY <1>7, <2>1, <3>1 DEF Counted, QueueCounts
    <3>3. exch'[k].filled = exch[k].filled \/ FillIn(j, k)'
      <4>1. CASE k = n
        BY <1>3, <1>5, <3>1, <4>1
      <4>2. CASE k # n
        BY <1>3, <4>2
      <4> QED
        BY <4>1, <4>2
    <3> QED
      BY <1>6, <3>1, <3>2, <3>3
  <2>2. CASE j \notin 1..Len(inbox)
    BY <1>3, <1>4, <1>7, <1>j, <2>2
  <2> QED
    BY <2>1, <2>2
<1>8. ASSUME NEW k \in Nums \ Tagged
      PROVE  SlotCounts(k)'
  <2>1. Hears(k)' => Hears(k)
    BY <1>1 DEF Hears
  <2>2. Hears(k) => orders[ctx[k]].exec = exch[k].filled \/ FillIn(0, k)
    BY DEF Counted, SlotCounts
  <2>3. exch'[k].filled = exch[k].filled \/ FillIn(0, k)'
    <3>1. 0 \in 0..Len(inbox)
      BY <1>j
    <3>2. CASE k = n
      BY <1>3, <1>5, <3>1, <3>2
    <3>3. CASE k # n
      BY <1>3, <3>3
    <3> QED
      BY <3>2, <3>3
  <2> QED
    BY <1>1, <1>6, <2>1, <2>2, <2>3 DEF SlotCounts
<1> QED
  BY <1>7, <1>8 DEF Counted, QueueCounts

(* Orders that are sent, retrieved or restored.                            *)
LEMMA CountedOfNewSlot ==
    ASSUME Inv, Counted, SameFills, nextIndex \in Slots, NEW o,
           orders' = [orders EXCEPT ![nextIndex] = o],
           NEW n \in Nums, \A k \in Nums \ {n} : ctx'[k] = ctx[k],
           n \in Tagged \/ ctx'[n] = ctx[n] \/ o.cid # Tag(n) \/ o.exec = exch[n].filled,
           ctx'[n] \in {ctx[n], nextIndex}
    PROVE  \A k \in Nums \ Tagged : Hears(k)' =>
              \/ Hears(k) /\ orders'[ctx'[k]].exec = orders[ctx[k]].exec
              \/ orders'[ctx'[k]].exec = exch[k].filled
<1>0. orders \in [Slots -> Order]
  BY DEF Inv, TypeOK
<1>1. \A k \in Nums : ctx[k] # NoSlot => ctx[k] \in Slots /\ ctx[k] # nextIndex
  BY SlotFacts DEF Inv, TypeOK, EngineTypeOK, CtxOK
<1>2. orders'[nextIndex] = o /\ \A s \in Slots : s # nextIndex => orders'[s] = orders[s]
  BY <1>0
<1> SUFFICES ASSUME NEW k \in Nums \ Tagged, Hears(k)'
             PROVE  \/ Hears(k) /\ orders'[ctx'[k]].exec = orders[ctx[k]].exec
                    \/ orders'[ctx'[k]].exec = exch[k].filled
  OBVIOUS
<1>3. CASE ctx'[k] = ctx[k]
  BY <1>1, <1>2, <1>3 DEF Hears
<1>4. CASE ctx'[k] # ctx[k]
  BY <1>2, <1>4 DEF Hears
<1> QED
  BY <1>3, <1>4

LEMMA CountedOfSend ==
    ASSUME Inv, Truth, Unsent, Counted, NEW r \in Requests, SendOrder(r)
    PROVE  Counted'
<1> DEFINE n == OrderNum(nextIndex)
           o == NewOrder(Tag(n), 0, r.limit, r.lasting)
<1>0. /\ exch \in [Nums -> ExchangeOrder] /\ ctx \in [Nums -> Slots \cup {NoSlot}]
      /\ nextIndex \in 0..MaxOrders
  BY DEF Inv, TypeOK, EngineTypeOK
<1>1. nextIndex \in Slots /\ n \in Nums
  BY <1>0, SlotFacts DEF SendOrder
<1>2. exch[n].filled = 0
  BY <1>0, <1>1 DEF Unsent, Truth, Sound, Slots
<1>3. SameFills
  BY <1>0, <1>1 DEF SendOrder, SameFills, ExchangeOrder
<1>4. o.exec = 0
  BY DEF NewOrder
<1>5. orders' = [orders EXCEPT ![nextIndex] = o] /\ UNCHANGED inbox
  BY DEF SendOrder
<1>6. (\A k \in Nums \ {n} : ctx'[k] = ctx[k]) /\ ctx'[n] \in {ctx[n], nextIndex}
  BY <1>0, <1>1 DEF SendOrder
<1> HIDE DEF n, o
<1>7. \A k \in Nums \ Tagged : Hears(k)' =>
         \/ Hears(k) /\ orders'[ctx'[k]].exec = orders[ctx[k]].exec
         \/ orders'[ctx'[k]].exec = exch[k].filled
  BY <1>1, <1>2, <1>3, <1>4, <1>5, <1>6, CountedOfNewSlot
<1> QED
  BY <1>3, <1>5, <1>7, CountedFrame

LEMMA CountedOfRestore ==
    ASSUME Inv, Counted, NEW n \in Nums, OpenOrderReplay(n)
    PROVE  Counted'
<1> DEFINE o == [NewOrder(RestoredId(n), n, FALSE, TRUE) EXCEPT !.exec = exch[n].filled]
<1>0. ctx \in [Nums -> Slots \cup {NoSlot}] /\ nextIndex \in 0..MaxOrders
  BY DEF Inv, TypeOK, EngineTypeOK
<1>1. nextIndex \in Slots /\ n \in Tagged
  BY <1>0, SlotFacts DEF OpenOrderReplay
<1>2. orders' = [orders EXCEPT ![nextIndex] = o] /\ UNCHANGED <<exch, inbox>>
  BY DEF OpenOrderReplay
<1>3. (\A k \in Nums \ {n} : ctx'[k] = ctx[k]) /\ ctx'[n] \in {ctx[n], nextIndex}
  BY <1>0 DEF OpenOrderReplay
<1> HIDE DEF o
<1>4. SameFills
  BY <1>2 DEF SameFills
<1>5. \A k \in Nums \ Tagged : Hears(k)' =>
         \/ Hears(k) /\ orders'[ctx'[k]].exec = orders[ctx[k]].exec
         \/ orders'[ctx'[k]].exec = exch[k].filled
  BY <1>1, <1>2, <1>3, <1>4, CountedOfNewSlot
<1> QED
  BY <1>2, <1>4, <1>5, CountedFrame

LEMMA CountedOfRetrieve ==
    ASSUME Inv, Counted, NEW n \in Nums, RetrieveOrder(n)
    PROVE  Counted'
<1> DEFINE o == NewOrder(0, n, FALSE, FALSE)
<1>0. /\ ctx \in [Nums -> Slots \cup {NoSlot}] /\ nextIndex \in 0..MaxOrders
      /\ inbox \in Seq(Message) /\ EngineTypeOK
  BY DEF Inv, TypeOK, EngineTypeOK
<1>1. nextIndex \in Slots
  BY <1>0, SlotFacts DEF RetrieveOrder
<1>2. orders' = [orders EXCEPT ![nextIndex] = o] /\ UNCHANGED exch
  BY DEF RetrieveOrder
<1>3. (\A k \in Nums \ {n} : ctx'[k] = ctx[k]) /\ ctx'[n] \in {ctx[n], nextIndex}
  BY <1>0 DEF RetrieveOrder
<1>4. o.cid # Tag(n)
  BY TagFacts, NumAssumption DEF NewOrder
<1> HIDE DEF o
<1>5. SameFills
  BY <1>2 DEF SameFills
<1>6. \A k \in Nums \ Tagged : Hears(k)' =>
         \/ Hears(k) /\ orders'[ctx'[k]].exec = orders[ctx[k]].exec
         \/ orders'[ctx'[k]].exec = exch[k].filled
  BY <1>1, <1>2, <1>3, <1>4, <1>5, CountedOfNewSlot
<1>7. CASE UNCHANGED inbox
  BY <1>5, <1>6, <1>7, CountedFrame
<1>8. CASE Emit(ReplayOf(n))
  <2>1. /\ \A j \in 1..Len(inbox) : inbox'[j] = inbox[j]
        /\ \A j \in 1..Len(inbox') : j \notin 1..Len(inbox) =>
             /\ inbox'[j].num = n
             /\ inbox'[j].kind = "ReplayEnd" \/ inbox'[j].filled = exch[n].filled
    <3> DEFINE msgs == ReplayOf(n)
    <3>1. /\ msgs \in Seq(Message)
          /\ \A j \in 1..Len(msgs) : /\ msgs[j].num = n
                                     /\ msgs[j].kind = "ReplayEnd" \/ msgs[j].filled = exch[n].filled
      BY <1>0, ReplaySays
    <3>2. Emit(msgs)
      BY <1>8
    <3> HIDE DEF msgs
    <3>3. /\ \A j \in 1..Len(inbox) : inbox'[j] = inbox[j]
          /\ \A j \in 1..Len(inbox') : j \notin 1..Len(inbox) =>
               j - Len(inbox) \in 1..Len(msgs) /\ inbox'[j] = msgs[j - Len(inbox)]
      <4>1. inbox \in Seq(Message) /\ msgs \in Seq(Message)
        BY <1>0, <3>1
      <4> QED
        BY <3>2, <4>1, Joined
    <3> QED
      BY <3>1, <3>3
  <2>2. \A i, k : FillIn(i, k) => FillIn(i, k)'
    BY <1>0, <1>8, FillsJoined, ReplaySays
  <2>3. QueueCounts'
    <3> SUFFICES ASSUME NEW j \in 1..Len(inbox'), NEW k \in Nums, inbox'[j].num = k,
                        inbox'[j].kind \in Counting
                 PROVE  inbox'[j].filled = exch'[k].filled \/ FillIn(j, k)'
      BY DEF QueueCounts
    <3>1. CASE j \in 1..Len(inbox)
      BY <1>2, <2>1, <2>2, <3>1 DEF Counted, QueueCounts
    <3>2. CASE j \notin 1..Len(inbox)
      BY <1>2, <2>1, <3>2 DEF Counting, Lines
    <3> QED
      BY <3>1, <3>2
  <2>4. ASSUME NEW k \in Nums \ Tagged, Hears(k)'
        PROVE  orders'[ctx'[k]].exec = exch'[k].filled \/ FillIn(0, k)'
    <3>1. CASE Hears(k) /\ orders'[ctx'[k]].exec = orders[ctx[k]].exec
      BY <1>2, <2>2, <3>1 DEF Counted, SlotCounts
    <3>2. CASE orders'[ctx'[k]].exec = exch[k].filled
      BY <1>2, <3>2
    <3> QED
      BY <1>6, <2>4, <3>1, <3>2
  <2> QED
    BY <2>3, <2>4 DEF Counted, SlotCounts
<1> QED
  BY <1>7, <1>8 DEF RetrieveOrder

LEMMA CountedOfCall ==
    ASSUME Inv, Counted,
           \/ SendCancel \/ CancelTimedOut \/ Login \/ FinishSend \/ AbortSend \/ TimeOut
           \/ ReturnTimedOut \/ CancelNothing \/ FinishCancel \/ AbortCancel \/ FinishRetrieve
           \/ AbortRetrieve \/ Test \/ Reset \/ UNCHANGED vars \/ \E n \in Nums : DoCancel(n)
    PROVE  Counted'
<1>0. /\ exch \in [Nums -> ExchangeOrder] /\ orders \in [Slots -> Order]
      /\ ctx \in [Nums -> Slots \cup {NoSlot}]
  BY DEF Inv, TypeOK, EngineTypeOK
<1>1. CASE SendCancel
  <2>1. main.num \in Nums
    BY <1>1 DEF SendCancel, Inv, CallOK
  <2>2. UNCHANGED <<orders, inbox>> /\ SameExchange
    BY <1>0, <1>1, <2>1, SentCancel DEF SendCancel
  <2>3. \A n \in Nums : Hears(n)' => Hears(n) /\ ctx'[n] = ctx[n]
    <3>1. \A n \in Nums : Tag(n) # IntMax
      BY TagFacts, NumAssumption
    <3> QED
      BY <1>0, <1>1, <2>1, <2>2, <3>1, CancelHears DEF Hears
  <2> QED
    BY <2>2, <2>3, CountedFrame DEF Hears, SameFills, SameExchange
<1>2. CASE CancelTimedOut
  <2>1. UNCHANGED <<exch, ctx, inbox>>
    BY <1>2 DEF CancelTimedOut
  <2>2. CASE UNCHANGED orders
    BY <2>1, <2>2, CountedFrame DEF Hears, SameFills
  <2>3. CASE orders' = [orders EXCEPT ![main.slot].armed = ArmsCancel(orders[main.slot])]
    <3> DEFINE a == ArmsCancel(orders[main.slot])
    <3>1. \A o \in Order : [o EXCEPT !.armed = a].exec = o.exec
                           /\ [o EXCEPT !.armed = a].cid = o.cid
      BY DEF Order
    <3>2. orders' = [orders EXCEPT ![main.slot] = [orders[main.slot] EXCEPT !.armed = a]]
      BY <2>3
    <3> HIDE DEF a
    <3>3. \A s \in Slots : orders'[s].exec = orders[s].exec /\ orders'[s].cid = orders[s].cid
      BY <1>0, <3>1, <3>2
    <3>4. \A n \in Nums : Hears(n)' => Hears(n) /\ orders'[ctx'[n]].exec = orders[ctx[n]].exec
      BY <1>0, <2>1, <3>3 DEF Hears
    <3> QED
      BY <2>1, <3>4, CountedFrame DEF SameFills
  <2> QED
    BY <1>2, <2>2, <2>3 DEF CancelTimedOut
<1>3. CASE UNCHANGED <<exch, ctx, orders, inbox>>
  BY <1>3, CountedFrame DEF Hears, SameFills
<1> QED
  BY <1>1, <1>2, <1>3
  DEF Login, FinishSend, AbortSend, TimeOut, ReturnTimedOut, CancelNothing, FinishCancel,
      AbortCancel, FinishRetrieve, Retrieved, AbortRetrieve, Test, Reset, vars, DoCancel

LEMMA CountedStep ==
    ASSUME Inv, Truth, Unsent, Counted, "Reorder" \notin Faults, [Next]_vars
    PROVE  Counted'
<1>1. ASSUME NEW i \in Deliverable, Handle(i)
      PROVE  Counted'
  <2>1. SameFills
    <3>0. exch \in [Nums -> ExchangeOrder] /\ inbox \in Seq(Message)
      BY DEF Inv, TypeOK, EngineTypeOK
    <3>1. CASE LineSendsCancel(i)
      <4>1. inbox[i].num \in Nums
        BY <3>0, <3>1, TakesFacts DEF LineSendsCancel
      <4> QED
        BY <3>0, <3>1, <4>1, SentCancel DEF LineSendsCancel, SameFills, SameExchange
    <3>2. CASE ~LineSendsCancel(i)
      <4>1. UNCHANGED exch
        BY <1>1, <3>2 DEF Handle, LineDropped, LineStale, LineApplied, LineError, ReportApplied,
                          ReportDropped, NotCancelledReport, SingleOrderReplay
      <4> QED
        BY <4>1 DEF SameFills
    <3> QED
      BY <3>1, <3>2
  <2> QED
    BY <1>1, <2>1, CountedOfHandler
<1>2. CASE Call
  BY <1>2, CountedOfSend, CountedOfRetrieve, CountedOfRestore, CountedOfCall DEF Call
<1>3. CASE Proceed \/ GiveUp \/ UNCHANGED vars \/ Test \/ Reset
  BY <1>3, CountedOfCall DEF Proceed, GiveUp
<1>4. CASE \E n \in Nums : Engine(n)
  BY <1>4, CountedOfEngine
<1> QED
  BY <1>1, <1>2, <1>3, <1>4 DEF Next, Callback

LEMMA CountedInit == Init => Counted
<1> SUFFICES ASSUME Init PROVE Counted
  OBVIOUS
<1>1. inbox = << >> /\ \A n \in Nums : ctx[n] = NoSlot
  BY DEF Init, EngineInit
<1> QED
  BY <1>1 DEF Counted, QueueCounts, SlotCounts, Hears

(* When nothing is under way BrokerTrade answers what was filled, of every *)
(* order but those that were restored at login, if RApi delivers callbacks *)
(* in the order in which it made them.                                     *)
THEOREM FillsAreRecorded ==
    ASSUME "Reorder" \notin Faults
    PROVE  Spec => []FillsRecorded
<1>1. Init => Counted
  BY CountedInit
<1>2. Inv /\ Truth /\ Unsent /\ Counted /\ [Next]_vars => Counted'
  BY CountedStep
<1>3. Inv /\ Counted => FillsRecorded
  <2> SUFFICES ASSUME Inv, Counted, Quiet, NEW n \in Nums \ Tagged, byId[n] # NoSlot
               PROVE  orders[byId[n]].exec = exch[n].filled
    BY DEF FillsRecorded, KnowsFills
  <2>1. ctx[n] = byId[n] /\ orders[byId[n]].cid = Tag(n)
    BY KnownFacts DEF Inv, RegisteredIsHeard, ContextRefused
  <2>2. Hears(n)
    BY <2>1 DEF Hears
  <2>3. ~FillIn(0, n)
    BY DEF Quiet, FillIn
  <2> QED
    BY <2>1, <2>2, <2>3 DEF Counted, SlotCounts
<1> QED
  BY <1>1, <1>2, <1>3, Inductive, TruthInvariance, PTL DEF Spec

-----------------------------------------------------------------------------
(* No slot counts down. *)

(* A slot that the next callback of its order may write.                   *)
Open(n) == ctx[n] # NoSlot /\ orders[ctx[n]].cid \in {0, Tag(n)}

CountOf(n, i) == inbox[i].num = n /\ inbox[i].kind \in Counting

(* What callbacks tell of an order grows, and is no less than its slot     *)
(* knows.                                                                  *)
Grows ==
    \A n \in Nums, i, j \in 1..Len(inbox) :
        i < j /\ CountOf(n, i) /\ CountOf(n, j) => inbox[i].filled <= inbox[j].filled

Ahead ==
    \A n \in Nums, i \in 1..Len(inbox) :
        Open(n) /\ CountOf(n, i) => orders[ctx[n]].exec <= inbox[i].filled

(* History is asked for by retrieveOrder, with a slot of its own.          *)
HistoryIsAsked ==
    \A n \in Nums, i \in 1..Len(inbox) : inbox[i].num = n /\ inbox[i].kind = "History" =>
        main.pc # "login" /\ Open(n)

Blank == \A s \in Slots : s >= nextIndex => orders[s].exec = 0

Ascends == Grows /\ Ahead /\ HistoryIsAsked /\ Blank

(* No slot counts down in this step, and only blank slots come into use.   *)
Rises ==
    /\ \A s \in Slots : orders'[s].exec >= orders[s].exec
    /\ Blank'

LEMMA ExecFacts ==
    ASSUME Inv
    PROVE  /\ \A s \in Slots : orders[s] \in Order /\ orders[s].exec \in Nat
           /\ \A n \in Nums : exch[n] \in ExchangeOrder /\ exch[n].filled \in Nat
           /\ \A i \in 1..Len(inbox) : inbox[i] \in Message /\ inbox[i].filled \in Nat
                                       /\ inbox[i].num \in Nums
           /\ \A n \in Nums : ctx[n] # NoSlot => ctx[n] \in Slots
           /\ inbox \in Seq(Message)
<1>1. TypeOK /\ EngineTypeOK
  BY DEF Inv, TypeOK
<1>2. \A s \in Slots : orders[s] \in Order
  BY <1>1 DEF TypeOK
<1>3. \A n \in Nums : exch[n] \in ExchangeOrder
  BY <1>1 DEF EngineTypeOK
<1>4. \A i \in 1..Len(inbox) : inbox[i] \in Message /\ inbox[i].num \in Nums
  BY <1>1, QueueFacts DEF EngineTypeOK
<1>5. /\ \A o \in Order : o.exec \in Nat
      /\ \A e \in ExchangeOrder : e.filled \in Nat
      /\ \A m \in Message : m.filled \in Nat
  BY QtyAssumption DEF Order, ExchangeOrder, Message
<1> QED
  BY <1>1, <1>2, <1>3, <1>4, <1>5 DEF EngineTypeOK

(* Steps that leave the queue: the slots keep their counts, or are new and *)
(* count nothing.                                                          *)
LEMMA AscendsFrame ==
    ASSUME Inv, Ascends, UNCHANGED inbox, Blank',
           main'.pc = "login" => main.pc = "login",
           \A n \in Nums : Open(n)' =>
              \/ Open(n) /\ orders'[ctx'[n]].exec = orders[ctx[n]].exec
              \/ orders'[ctx'[n]].exec = 0,
           \A n \in Nums, i \in 1..Len(inbox) :
              inbox[i].num = n /\ inbox[i].kind = "History" => Open(n)'
    PROVE  Ascends'
<1>1. \A n, i : CountOf(n, i)' <=> CountOf(n, i)
  BY DEF CountOf
<1>2. Grows'
  BY <1>1 DEF Ascends, Grows
<1>3. Ahead'
  <2> SUFFICES ASSUME NEW n \in Nums, NEW i \in 1..Len(inbox), Open(n)', CountOf(n, i)
               PROVE  orders'[ctx'[n]].exec <= inbox[i].filled
    BY <1>1 DEF Ahead
  <2>1. inbox[i].filled \in Nat
    BY ExecFacts
  <2>2. CASE Open(n) /\ orders'[ctx'[n]].exec = orders[ctx[n]].exec
    BY <2>2 DEF Ascends, Ahead
  <2>3. CASE orders'[ctx'[n]].exec = 0
    BY <2>1, <2>3
  <2> QED
    BY <2>2, <2>3
<1>4. HistoryIsAsked'
  BY DEF Ascends, HistoryIsAsked
<1> QED
  BY <1>2, <1>3, <1>4 DEF Ascends

(* What a handler does to a slot and its count.                            *)
LEMMA HandlerRaises ==
    ASSUME Inv, Ascends, NEW i \in Deliverable, Handle(i)
    PROVE  /\ UNCHANGED <<main, ctx, nextIndex>> /\ i \in 1..Len(inbox)
           /\ \A n \in Nums : Open(n)' => Open(n)
           /\ \A n \in Nums : ctx[n] # NoSlot /\ Open(n) => Open(n)'
           /\ \A s \in Slots : \/ orders'[s].exec = orders[s].exec
                               \/ \E n \in Nums : /\ s = ctx[n] /\ Open(n) /\ CountOf(n, i)
                                                  /\ orders'[s].exec = inbox[i].filled
<1> DEFINE m == inbox[i]
           s == ctx[m.num]
<1>0. /\ orders \in [Slots -> Order] /\ ctx \in [Nums -> Slots \cup {NoSlot}]
  BY DEF Inv, TypeOK, EngineTypeOK
<1>1. UNCHANGED <<main, ctx, nextIndex>> /\ i \in 1..Len(inbox)
  BY DEF Handle, LineDropped, LineStale, LineSendsCancel, LineApplied, LineError,
         ReportApplied, ReportDropped, NotCancelledReport, SingleOrderReplay, Deliverable
<1>2. m.num \in Nums /\ m \in Message
  BY <1>1, ExecFacts
<1>3. ASSUME NEW o \in Order, s \in Slots, orders' = [orders EXCEPT ![s] = o],
             o.cid = orders[s].cid \/ (orders[s].cid = 0 /\ o.cid = Tag(m.num)),
             \/ o.exec = orders[s].exec
             \/ Open(m.num) /\ CountOf(m.num, i) /\ o.exec = m.filled
      PROVE  /\ \A n \in Nums : Open(n)' => Open(n)
             /\ \A n \in Nums : ctx[n] # NoSlot /\ Open(n) => Open(n)'
             /\ \A t \in Slots : \/ orders'[t].exec = orders[t].exec
                                 \/ \E n \in Nums : /\ t = ctx[n] /\ Open(n) /\ CountOf(n, i)
                                                    /\ orders'[t].exec = inbox[i].filled
  <2>1. orders'[s] = o /\ \A t \in Slots : t # s => orders'[t] = orders[t]
    BY <1>0, <1>3
  <2>2. \A n \in Nums : ctx[n] = s => n = m.num
    BY <1>2, <1>3, OneOrderPerSlot, SlotFacts
  <2>3. ASSUME NEW n \in Nums
        PROVE  (Open(n)' => Open(n)) /\ (Open(n) => Open(n)')
    <3>1. CASE ctx[n] = s
      BY <1>1, <1>3, <2>1, <2>2, <3>1 DEF Open
    <3>2. CASE ctx[n] # s
      BY <1>0, <1>1, <2>1, <3>2 DEF Open
    <3> QED
      BY <3>1, <3>2
  <2> QED
    BY <1>2, <1>3, <2>1, <2>3
<1> HIDE DEF s
<1>4. CASE UNCHANGED orders
  BY <1>1, <1>4 DEF Open
<1>5. CASE LineApplied(i)
  <2>1. m.kind \in Lines /\ HasSlot(m) /\ orders' = [orders EXCEPT ![s] = Updated(orders[s], m)]
    BY <1>5 DEF LineApplied, Takes, s
  <2>2. s \in Slots /\ orders[s] \in Order
    BY <1>0, <1>2, <2>1 DEF HasSlot, Ours, s
  <2>3. Updated(orders[s], m) \in Order
    BY <1>2, <2>2, OrderFacts
  <2>4. /\ Updated(orders[s], m).exec = m.filled
        /\ \/ Updated(orders[s], m).cid = orders[s].cid
           \/ orders[s].cid = 0 /\ Updated(orders[s], m).cid = Tag(m.num)
    BY <2>2 DEF Updated, Order
  <2>5. Open(m.num)
    <3>1. CASE m.kind = "History"
      BY <1>1, <1>2, <2>2, <3>1, SlotFacts DEF Ascends, HistoryIsAsked, s
    <3>2. CASE m.kind = "Line"
      BY <2>1, <3>2 DEF HasSlot, Ours, Open
    <3> QED
      BY <2>1, <3>1, <3>2 DEF Lines
  <2>6. CountOf(m.num, i)
    BY <2>1 DEF CountOf, Counting
  <2> QED
    BY <1>1, <1>3, <2>1, <2>2, <2>3, <2>4, <2>5, <2>6
<1>6. CASE ReportApplied(i)
  <2>1. m.kind \in Reported /\ Ours(m) /\ orders' = [orders EXCEPT ![s] = Marked(orders[s], m)]
    BY <1>6 DEF ReportApplied, Takes, s
  <2>2. s \in Slots /\ orders[s] \in Order
    BY <1>0, <1>2, <2>1 DEF Ours, s
  <2>3. Marked(orders[s], m) \in Order
    BY <1>2, <2>1, <2>2, OrderFacts
  <2>4. /\ Marked(orders[s], m).cid = orders[s].cid
        /\ \/ Marked(orders[s], m).exec = orders[s].exec
           \/ m.kind = "Fill" /\ Marked(orders[s], m).exec = m.filled
    <3>1. CASE m.kind = "Cancel"
      BY <2>2, <3>1 DEF Marked, Order
    <3>2. CASE m.kind = "Fill"
      BY <2>2, <3>2 DEF Marked, Order
    <3>3. CASE m.kind \in {"Failure", "Reject"}
      BY <2>2, <3>3 DEF Marked, Order
    <3> QED
      BY <2>1, <3>1, <3>2, <3>3 DEF Reported
  <2>5. Open(m.num) /\ (m.kind = "Fill" => CountOf(m.num, i))
    BY <2>1 DEF Ours, Open, CountOf, Counting
  <2> QED
    BY <1>1, <1>3, <2>1, <2>2, <2>3, <2>4, <2>5
<1>7. CASE LineSendsCancel(i)
  <2>1. HasSlot(m) /\ orders' = [orders EXCEPT ![s].armed = FALSE]
    BY <1>7 DEF LineSendsCancel, s
  <2>2. s \in Slots /\ orders[s] \in Order
    BY <1>0, <1>2, <2>1 DEF HasSlot, Ours, s
  <2>3. /\ [orders[s] EXCEPT !.armed = FALSE] \in Order
        /\ [orders[s] EXCEPT !.armed = FALSE].cid = orders[s].cid
        /\ [orders[s] EXCEPT !.armed = FALSE].exec = orders[s].exec
    BY <2>2 DEF Order
  <2> QED
    BY <1>1, <1>3, <2>1, <2>2, <2>3
<1> QED
  BY <1>4, <1>5, <1>6, <1>7, <1>1
  DEF Handle, LineDropped, LineStale, LineError, ReportDropped, NotCancelledReport,
      SingleOrderReplay

LEMMA AscendsOfHandler ==
    ASSUME Inv, Ascends, "Reorder" \notin Faults, NEW i \in Deliverable, Handle(i)
    PROVE  Ascends' /\ Rises
<1>0. inbox \in Seq(Message)
  BY ExecFacts
<1>t. PICK kinds : Takes(i, kinds)
  BY DEF Handle, LineDropped, LineStale, LineSendsCancel, LineApplied, LineError, ReportApplied,
         ReportDropped, NotCancelledReport, SingleOrderReplay
<1>1. /\ i = 1 /\ 1 \in 1..Len(inbox)
      /\ \A j \in 1..Len(inbox') : inbox'[j] = inbox[j + 1] /\ j + 1 \in 1..Len(inbox) /\ j \in Nat
  BY <1>0, <1>t, TakenFirst
<1>2. /\ UNCHANGED <<main, ctx, nextIndex>>
      /\ \A n \in Nums : Open(n)' <=> Open(n)
      /\ \A s \in Slots : \/ orders'[s].exec = orders[s].exec
                          \/ \E n \in Nums : /\ s = ctx[n] /\ Open(n) /\ CountOf(n, i)
                                             /\ orders'[s].exec = inbox[i].filled
  BY HandlerRaises DEF Open
<1>3. \A n \in Nums, j \in 1..Len(inbox') : CountOf(n, j)' <=> CountOf(n, j + 1)
  BY <1>1 DEF CountOf
<1>4. Grows'
  <2> SUFFICES ASSUME NEW n \in Nums, NEW j \in 1..Len(inbox'), NEW k \in 1..Len(inbox'),
                      j < k, CountOf(n, j)', CountOf(n, k)'
               PROVE  inbox'[j].filled <= inbox'[k].filled
    BY DEF Grows
  <2>1. j + 1 < k + 1
    BY <1>1
  <2> QED
    BY <1>1, <1>3, <2>1 DEF Ascends, Grows
<1>5. Ahead'
  <2> SUFFICES ASSUME NEW n \in Nums, NEW j \in 1..Len(inbox'), Open(n), CountOf(n, j + 1)
               PROVE  orders'[ctx[n]].exec <= inbox[j + 1].filled
    BY <1>1, <1>2, <1>3 DEF Ahead
  <2>1. ctx[n] \in Slots /\ 1 < j + 1
    BY <1>1, ExecFacts DEF Open
  <2>2. CASE orders'[ctx[n]].exec = orders[ctx[n]].exec
    BY <1>1, <2>2 DEF Ascends, Ahead
  <2>3. ASSUME NEW k \in Nums, ctx[n] = ctx[k], CountOf(k, i),
               orders'[ctx[n]].exec = inbox[i].filled
        PROVE  orders'[ctx[n]].exec <= inbox[j + 1].filled
    <3>1. k = n
      BY <2>1, <2>3, OneOrderPerSlot, SlotFacts
    <3> QED
      BY <1>1, <2>1, <2>3, <3>1 DEF Ascends, Grows
  <2> QED
    BY <1>2, <2>1, <2>2, <2>3
<1>6. HistoryIsAsked'
  BY <1>1, <1>2 DEF Ascends, HistoryIsAsked
<1>7. \A s \in Slots : orders'[s].exec >= orders[s].exec
  <2> SUFFICES ASSUME NEW n \in Nums, NEW s \in Slots, s = ctx[n], Open(n), CountOf(n, i)
               PROVE  inbox[i].filled >= orders[s].exec
    BY <1>2, ExecFacts
  <2> QED
    BY <1>1, ExecFacts DEF Ascends, Ahead
<1>8. Blank'
  <2> SUFFICES ASSUME NEW s \in Slots, s >= nextIndex
               PROVE  orders'[s].exec = 0
    BY <1>2 DEF Blank
  <2>1. \A n \in Nums : s # ctx[n]
    BY ExecFacts, SlotFacts DEF Inv, CtxOK, TypeOK
  <2> QED
    BY <1>2, <2>1 DEF Ascends, Blank
<1> QED
  BY <1>4, <1>5, <1>6, <1>7, <1>8 DEF Ascends, Rises

(* Callbacks join the queue that tell of order n as much as was filled.    *)
LEMMA AscendsJoined ==
    ASSUME Inv, Truth, Ascends, NEW n \in Nums, NEW msgs \in Seq(Message), Emit(msgs),
           \A j \in 1..Len(msgs) : msgs[j].num = n,
           \A j \in 1..Len(msgs) : msgs[j].kind \in Counting => msgs[j].filled = exch'[n].filled,
           exch[n].filled <= exch'[n].filled, exch'[n].filled \in Nat,
           \A k \in Nums : Open(k)' =>
              \/ Open(k) /\ orders'[ctx'[k]].exec = orders[ctx[k]].exec
              \/ orders'[ctx'[k]].exec = 0
    PROVE  Grows' /\ Ahead'
<1>0. inbox \in Seq(Message)
  BY ExecFacts
<1>1. /\ \A j \in 1..Len(inbox) : inbox'[j] = inbox[j]
      /\ \A j \in 1..Len(inbox') : j \notin 1..Len(inbox) =>
           j - Len(inbox) \in 1..Len(msgs) /\ inbox'[j] = msgs[j - Len(inbox)]
      /\ Len(inbox) \in Nat
  <2>1. inbox \in Seq(Message) /\ msgs \in Seq(Message) /\ Emit(msgs)
    BY <1>0
  <2>2. Len(inbox) \in Nat
    BY <2>1
  <2> QED
    BY <2>1, <2>2, Joined
<1>2. ASSUME NEW j \in 1..Len(inbox'), NEW k \in Nums, CountOf(k, j)'
      PROVE  \/ j \in 1..Len(inbox) /\ CountOf(k, j) /\ inbox'[j] = inbox[j]
             \/ j \notin 1..Len(inbox) /\ k = n /\ inbox'[j].filled = exch'[n].filled
  BY <1>1, <1>2 DEF CountOf
<1>3. ASSUME NEW j \in 1..Len(inbox), CountOf(n, j)
      PROVE  inbox[j].filled <= exch'[n].filled
  <2>1. inbox[j].filled <= exch[n].filled
    BY <1>3 DEF Truth, Truthful, TrueOf, CountOf
  <2>2. inbox[j].filled \in Nat /\ exch[n].filled \in Nat
    BY ExecFacts
  <2> QED
    BY <2>1, <2>2
<1>4. Grows'
  <2> SUFFICES ASSUME NEW k \in Nums, NEW i \in 1..Len(inbox'), NEW j \in 1..Len(inbox'),
                      i < j, CountOf(k, i)', CountOf(k, j)'
               PROVE  inbox'[i].filled <= inbox'[j].filled
    BY DEF Grows
  <2>1. CASE j \in 1..Len(inbox)
    <3>1. i \in 1..Len(inbox)
      BY <1>1, <2>1
    <3> QED
      BY <1>2, <2>1, <3>1 DEF Ascends, Grows
  <2>2. CASE j \notin 1..Len(inbox) /\ i \in 1..Len(inbox)
    BY <1>2, <1>3, <2>2
  <2>3. CASE j \notin 1..Len(inbox) /\ i \notin 1..Len(inbox)
    BY <1>2, <2>3
  <2> QED
    BY <2>1, <2>2, <2>3
<1>5. Ahead'
  <2> SUFFICES ASSUME NEW k \in Nums, NEW j \in 1..Len(inbox'), Open(k)', CountOf(k, j)'
               PROVE  orders'[ctx'[k]].exec <= inbox'[j].filled
    BY DEF Ahead
  <2>1. inbox'[j].filled \in Nat
    <3>1. CASE j \in 1..Len(inbox)
      BY <1>1, <3>1, ExecFacts
    <3>2. CASE j \notin 1..Len(inbox)
      BY <1>2, <3>2
    <3> QED
      BY <3>1, <3>2
  <2>2. CASE orders'[ctx'[k]].exec = 0
    BY <2>1, <2>2
  <2>3. CASE Open(k) /\ orders'[ctx'[k]].exec = orders[ctx[k]].exec
    <3>1. CASE j \in 1..Len(inbox)
      BY <1>2, <2>3, <3>1 DEF Ascends, Ahead
    <3>2. CASE j \notin 1..Len(inbox)
      <4>1. k = n /\ inbox'[j].filled = exch'[n].filled
        BY <1>2, <3>2
      <4>2. orders[ctx[n]].exec <= exch[n].filled
        BY <2>3, <4>1, ExecFacts DEF Truth, SlotsTruthful, SlotTrueOf, Open, Holds
      <4>3. orders[ctx[n]].exec \in Nat /\ exch[n].filled \in Nat
        BY <2>3, <4>1, ExecFacts DEF Open
      <4> QED
        BY <2>3, <4>1, <4>2, <4>3
    <3> QED
      BY <3>1, <3>2
  <2> QED
    BY <2>2, <2>3
<1> QED
  BY <1>4, <1>5

LEMMA AscendsOfEngine ==
    ASSUME Inv, Truth, Ascends, NEW n \in Nums, Engine(n)
    PROVE  Ascends' /\ Rises
<1>0. exch \in [Nums -> ExchangeOrder] /\ inbox \in Seq(Message)
  BY DEF Inv, TypeOK, EngineTypeOK
<1>1. UNCHANGED <<ctx, orders, main, nextIndex>>
  BY DEF Engine, EngineStep, Acknowledge, Refuse, Reject, Fill, Cancel, RefuseCancel, Announce
<1>2. PICK f \in ExchangeOrder, msgs \in Seq(Message) :
        /\ exch' = [exch EXCEPT ![n] = f] /\ Evolves(exch[n], f)
        /\ Says(n, exch[n], f, msgs) /\ Emit(msgs)
  BY EngineGoesOn DEF Inv, TypeOK, Truth, Engine
<1>3. exch'[n] = f /\ f.filled \in Nat /\ exch[n].filled <= f.filled
  BY <1>0, <1>2, QtyAssumption DEF Evolves, ExchangeOrder
<1>4. \A j \in 1..Len(msgs) : /\ msgs[j].num = n /\ msgs[j].kind # "History"
                              /\ msgs[j].kind \in Counting => msgs[j].filled = f.filled
  BY <1>2 DEF Says, Counting, Lines
<1>5. \A k \in Nums : Open(k)' => Open(k) /\ orders'[ctx'[k]].exec = orders[ctx[k]].exec
  BY <1>1 DEF Open
<1>6. Grows' /\ Ahead'
  BY <1>2, <1>3, <1>4, <1>5, AscendsJoined
<1>7. HistoryIsAsked'
  <2> SUFFICES ASSUME NEW k \in Nums, NEW j \in 1..Len(inbox'), inbox'[j].num = k,
                      inbox'[j].kind = "History"
               PROVE  main.pc # "login" /\ Open(k)'
    BY <1>1 DEF HistoryIsAsked
  <2>1. j \in 1..Len(inbox) /\ inbox'[j] = inbox[j]
    BY <1>0, <1>2, <1>4, Joined
  <2> QED
    BY <1>1, <2>1 DEF Ascends, HistoryIsAsked, Open
<1>8. Blank' /\ \A s \in Slots : orders'[s].exec >= orders[s].exec
  BY <1>1, ExecFacts DEF Ascends, Blank
<1> QED
  BY <1>6, <1>7, <1>8 DEF Ascends, Rises

(* A new slot that counts c.                                               *)
LEMMA RisesByNewSlot ==
    ASSUME Inv, Ascends, nextIndex \in Slots, nextIndex' = nextIndex + 1,
           NEW o, o.exec \in Nat, orders' = [orders EXCEPT ![nextIndex] = o]
    PROVE  Rises
<1>0. orders \in [Slots -> Order] /\ \A s \in Slots : s \in Nat /\ orders[s].exec \in Nat
  BY ExecFacts, SlotFacts DEF Inv, TypeOK
<1>1. orders'[nextIndex] = o /\ \A s \in Slots : s # nextIndex => orders'[s] = orders[s]
  BY <1>0
<1>2. orders[nextIndex].exec = 0
  BY <1>0 DEF Ascends, Blank
<1>3. \A s \in Slots : orders'[s].exec >= orders[s].exec
  BY <1>0, <1>1, <1>2
<1>4. Blank'
  BY <1>0, <1>1 DEF Ascends, Blank
<1> QED
  BY <1>3, <1>4 DEF Rises

(* New slots for order n, and what becomes of the other orders.            *)
LEMMA OpenByNewSlot ==
    ASSUME Inv, nextIndex \in Slots, NEW o, orders' = [orders EXCEPT ![nextIndex] = o],
           NEW n \in Nums, \A k \in Nums \ {n} : ctx'[k] = ctx[k],
           ctx'[n] \in {ctx[n], nextIndex}
    PROVE  /\ \A k \in Nums : ctx'[k] = ctx[k] =>
                 (Open(k)' <=> Open(k)) /\ (Open(k) => orders'[ctx'[k]].exec = orders[ctx[k]].exec)
           /\ ctx'[n] = nextIndex => orders'[ctx'[n]] = o
<1>0. orders \in [Slots -> Order]
  BY DEF Inv, TypeOK
<1>1. \A k \in Nums : ctx[k] # NoSlot => ctx[k] \in Slots /\ ctx[k] # nextIndex
  BY SlotFacts DEF Inv, TypeOK, EngineTypeOK, CtxOK
<1>2. orders'[nextIndex] = o /\ \A s \in Slots : s # nextIndex => orders'[s] = orders[s]
  BY <1>0
<1> QED
  BY <1>1, <1>2 DEF Open

LEMMA AscendsOfNew ==
    ASSUME Inv, Truth, Ascends,
           \/ \E r \in Requests : SendOrder(r)
           \/ \E n \in Nums : RetrieveOrder(n) \/ OpenOrderReplay(n)
    PROVE  Ascends' /\ Rises
<1>0. /\ ctx \in [Nums -> Slots \cup {NoSlot}] /\ nextIndex \in 0..MaxOrders
      /\ inbox \in Seq(Message) /\ EngineTypeOK
  BY DEF Inv, TypeOK, EngineTypeOK
<1>1. ASSUME NEW r \in Requests, SendOrder(r)
      PROVE  Ascends' /\ Rises
  <2>1. nextIndex \in Slots /\ nextIndex' = nextIndex + 1 /\ OrderNum(nextIndex) \in Nums
    BY <1>0, <1>1, SlotFacts DEF SendOrder
  <2>n. PICK n \in Nums : n = OrderNum(nextIndex)
    BY <2>1
  <2> DEFINE o == NewOrder(Tag(n), 0, r.limit, r.lasting)
  <2>2. o.exec = 0 /\ o.cid = Tag(n) /\ orders' = [orders EXCEPT ![nextIndex] = o]
    BY <1>1, <2>n DEF SendOrder, NewOrder
  <2>3. (\A k \in Nums \ {n} : ctx'[k] = ctx[k]) /\ ctx'[n] \in {ctx[n], nextIndex}
    BY <1>0, <1>1, <2>1, <2>n DEF SendOrder
  <2>4. UNCHANGED inbox /\ main.pc = "idle" /\ (main'.pc = "login" => main.pc = "login")
    BY <1>1 DEF SendOrder, mainIdle, Idle
  <2> HIDE DEF o
  <2>5. Rises
    <3>1. o.exec \in Nat
      BY <2>2
    <3> QED
      BY <2>1, <2>2, <3>1, RisesByNewSlot
  <2>6. /\ \A k \in Nums : ctx'[k] = ctx[k] =>
             (Open(k)' <=> Open(k)) /\ (Open(k) => orders'[ctx'[k]].exec = orders[ctx[k]].exec)
        /\ ctx'[n] = nextIndex => orders'[ctx'[n]] = o
    BY <2>1, <2>2, <2>3, OpenByNewSlot
  <2>7. ctx'[n] = nextIndex => Open(n)' /\ orders'[ctx'[n]].exec = 0
    <3>1. nextIndex # NoSlot
      BY <2>1, SlotFacts
    <3> QED
      BY <2>2, <2>6, <3>1 DEF Open
  <2>8. \A k \in Nums : Open(k)' =>
          \/ Open(k) /\ orders'[ctx'[k]].exec = orders[ctx[k]].exec
          \/ orders'[ctx'[k]].exec = 0
    BY <2>3, <2>6, <2>7
  <2>9. \A k \in Nums, i \in 1..Len(inbox) :
           inbox[i].num = k /\ inbox[i].kind = "History" => Open(k)'
    <3> SUFFICES ASSUME NEW k \in Nums, NEW i \in 1..Len(inbox), inbox[i].num = k,
                        inbox[i].kind = "History"
                 PROVE  Open(k)'
      OBVIOUS
    <3>1. CASE ctx'[k] = ctx[k]
      <4>1. Open(k)
        BY <3>1 DEF Ascends, HistoryIsAsked
      <4> QED
        BY <2>6, <3>1, <4>1
    <3>2. CASE ctx'[k] # ctx[k]
      BY <2>3, <2>7, <3>2
    <3> QED
      BY <3>1, <3>2
  <2> QED
    BY <2>4, <2>5, <2>8, <2>9, AscendsFrame DEF Rises
<1>2. ASSUME NEW n \in Nums, OpenOrderReplay(n)
      PROVE  Ascends' /\ Rises
  <2> DEFINE o == [NewOrder(RestoredId(n), n, FALSE, TRUE) EXCEPT !.exec = exch[n].filled]
  <2>1. nextIndex \in Slots /\ nextIndex' = nextIndex + 1
    BY <1>0, <1>2, SlotFacts DEF OpenOrderReplay
  <2>2. /\ orders' = [orders EXCEPT ![nextIndex] = o]
        /\ o.exec \in Nat /\ o.cid = RestoredId(n)
    <3>1. exch[n].filled \in Nat
      BY ExecFacts
    <3>2. o.exec = exch[n].filled /\ o.cid = RestoredId(n)
      BY DEF NewOrder
    <3> QED
      BY <1>2, <3>1, <3>2 DEF OpenOrderReplay
  <2>3. (\A k \in Nums \ {n} : ctx'[k] = ctx[k]) /\ ctx'[n] \in {ctx[n], nextIndex}
    BY <1>0, <1>2 DEF OpenOrderReplay
  <2>4. UNCHANGED <<inbox, main>> /\ main.pc = "login"
    BY <1>2 DEF OpenOrderReplay
  <2> HIDE DEF o
  <2>5. Rises
    BY <2>1, <2>2, RisesByNewSlot
  <2>6. /\ \A k \in Nums : ctx'[k] = ctx[k] =>
             (Open(k)' <=> Open(k)) /\ (Open(k) => orders'[ctx'[k]].exec = orders[ctx[k]].exec)
        /\ ctx'[n] = nextIndex => orders'[ctx'[n]] = o
    BY <2>1, <2>2, <2>3, OpenByNewSlot
  <2>7. ctx'[n] = nextIndex => ~Open(n)'
    <3>1. o.cid \notin {0, Tag(n)}
      BY <2>2, RestoredFacts, TagFacts, NumAssumption
    <3> QED
      BY <2>6, <3>1 DEF Open
  <2>8. \A k \in Nums : Open(k)' => Open(k) /\ orders'[ctx'[k]].exec = orders[ctx[k]].exec
    BY <2>3, <2>6, <2>7
  <2>9. \A k \in Nums, i \in 1..Len(inbox) : ~(inbox[i].num = k /\ inbox[i].kind = "History")
    BY <2>4 DEF Ascends, HistoryIsAsked
  <2> QED
    BY <2>4, <2>5, <2>8, <2>9, AscendsFrame DEF Rises
<1>3. ASSUME NEW n \in Nums, RetrieveOrder(n)
      PROVE  Ascends' /\ Rises
  <2> DEFINE o == NewOrder(0, n, FALSE, FALSE)
             msgs == ReplayOf(n)
  <2>1. nextIndex \in Slots /\ nextIndex' = nextIndex + 1
    BY <1>0, <1>3, SlotFacts DEF RetrieveOrder
  <2>2. o.exec = 0 /\ o.cid = 0 /\ orders' = [orders EXCEPT ![nextIndex] = o]
    BY <1>3 DEF RetrieveOrder, NewOrder
  <2>3. /\ \A k \in Nums \ {n} : ctx'[k] = ctx[k]
        /\ ctx'[n] \in {ctx[n], nextIndex}
        /\ UNCHANGED inbox \/ (Emit(msgs) /\ ctx'[n] = nextIndex)
        /\ UNCHANGED exch
    BY <1>0, <1>3 DEF RetrieveOrder
  <2>4. main.pc = "idle" /\ main'.pc # "login"
    BY <1>3 DEF RetrieveOrder, mainIdle, Idle
  <2>m. /\ msgs \in Seq(Message)
        /\ \A j \in 1..Len(msgs) : msgs[j].num = n
        /\ \A j \in 1..Len(msgs) : msgs[j].kind \in Counting => msgs[j].filled = exch[n].filled
    BY <1>0, ReplaySays DEF Counting, Lines
  <2> HIDE DEF o, msgs
  <2>5. Rises
    <3>1. o.exec \in Nat
      BY <2>2
    <3> QED
      BY <2>1, <2>2, <3>1, RisesByNewSlot
  <2>6. /\ \A k \in Nums : ctx'[k] = ctx[k] =>
             (Open(k)' <=> Open(k)) /\ (Open(k) => orders'[ctx'[k]].exec = orders[ctx[k]].exec)
        /\ ctx'[n] = nextIndex => orders'[ctx'[n]] = o
    BY <2>1, <2>2, <2>3, OpenByNewSlot
  <2>7. ctx'[n] = nextIndex => Open(n)' /\ orders'[ctx'[n]].exec = 0
    <3>1. nextIndex # NoSlot
      BY <2>1, SlotFacts
    <3> QED
      BY <2>2, <2>6, <3>1 DEF Open
  <2>8. \A k \in Nums : Open(k)' =>
          \/ Open(k) /\ orders'[ctx'[k]].exec = orders[ctx[k]].exec
          \/ orders'[ctx'[k]].exec = 0
    BY <2>3, <2>6, <2>7
  <2>9. \A k \in Nums, i \in 1..Len(inbox) :
           inbox[i].num = k /\ inbox[i].kind = "History" => Open(k)'
    <3> SUFFICES ASSUME NEW k \in Nums, NEW i \in 1..Len(inbox), inbox[i].num = k,
                        inbox[i].kind = "History"
                 PROVE  Open(k)'
      OBVIOUS
    <3>1. CASE ctx'[k] = ctx[k]
      <4>1. Open(k)
        BY <3>1 DEF Ascends, HistoryIsAsked
      <4> QED
        BY <2>6, <3>1, <4>1
    <3>2. CASE ctx'[k] # ctx[k]
      BY <2>3, <2>7, <3>2
    <3> QED
      BY <3>1, <3>2
  <2>10. CASE UNCHANGED inbox
    BY <2>4, <2>5, <2>8, <2>9, <2>10, AscendsFrame DEF Rises
  <2>11. CASE Emit(msgs) /\ ctx'[n] = nextIndex
    <3>1. exch'[n].filled = exch[n].filled /\ exch[n].filled \in Nat
      BY <2>3, ExecFacts
    <3>2. Grows' /\ Ahead'
      BY <2>8, <2>11, <2>m, <3>1, AscendsJoined
    <3>3. HistoryIsAsked'
      <4> SUFFICES ASSUME NEW k \in Nums, NEW j \in 1..Len(inbox'), inbox'[j].num = k,
                          inbox'[j].kind = "History"
                   PROVE  Open(k)'
        BY <2>4 DEF HistoryIsAsked
      <4>1. CASE k = n
        BY <2>7, <2>11, <4>1
      <4>2. CASE k # n
        <5>0. inbox \in Seq(Message) /\ msgs \in Seq(Message) /\ Emit(msgs)
          BY <1>0, <2>11, <2>m
        <5>1. /\ \A l \in 1..Len(inbox) : inbox'[l] = inbox[l]
              /\ \A l \in 1..Len(inbox') : l \notin 1..Len(inbox) =>
                   l - Len(inbox) \in 1..Len(msgs) /\ inbox'[l] = msgs[l - Len(inbox)]
          BY <5>0, Joined
        <5>2. j \in 1..Len(inbox) /\ inbox'[j] = inbox[j]
          BY <2>m, <4>2, <5>1
        <5> QED
          BY <2>9, <5>2
      <4> QED
        BY <4>1, <4>2
    <3> QED
      BY <2>5, <3>2, <3>3 DEF Ascends, Rises
  <2> QED
    BY <2>3, <2>10, <2>11
<1> QED
  BY <1>1, <1>2, <1>3

(* The slots keep what they count, and the orders their slots.             *)
LEMMA AscendsStill ==
    ASSUME Inv, Ascends, UNCHANGED <<ctx, inbox, nextIndex>>,
           main'.pc = "login" => main.pc = "login",
           \A s \in Slots : orders'[s].exec = orders[s].exec /\ orders'[s].cid = orders[s].cid
    PROVE  Ascends' /\ Rises
<1>1. Blank' /\ \A s \in Slots : orders'[s].exec >= orders[s].exec
  BY ExecFacts DEF Ascends, Blank
<1>2. \A n \in Nums : /\ Open(n)' <=> Open(n)
                      /\ Open(n) => orders'[ctx'[n]].exec = orders[ctx[n]].exec
  BY ExecFacts DEF Open
<1>3. \A n \in Nums, i \in 1..Len(inbox) :
         inbox[i].num = n /\ inbox[i].kind = "History" => Open(n)'
  BY <1>2 DEF Ascends, HistoryIsAsked
<1> QED
  BY <1>1, <1>2, <1>3, AscendsFrame DEF Rises

(* Login comes first, and once.                                            *)
LEMMA LoginEnds ==
    ASSUME main \in MainStates,
           \/ SendCancel \/ CancelTimedOut \/ Login \/ FinishSend \/ AbortSend \/ TimeOut
           \/ ReturnTimedOut \/ CancelNothing \/ FinishCancel \/ AbortCancel \/ FinishRetrieve
           \/ AbortRetrieve \/ Test \/ Reset \/ UNCHANGED vars \/ \E n \in Nums : DoCancel(n)
    PROVE  main'.pc = "login" => main.pc = "login"
<1>0. /\ \A p : [main EXCEPT !.pc = p].pc = p
      /\ \A n : [Idle EXCEPT !.pc = "cancel", !.num = n].pc = "cancel"
      /\ \A n : [main EXCEPT !.pc = "cancel", !.num = n, !.then = "clear"].pc = "cancel"
      /\ Idle.pc = "idle"
  BY DEF MainStates, Idle
<1>1. CASE UNCHANGED main
  BY <1>1
<1>2. CASE main' = Idle \/ Return
  BY <1>0, <1>2 DEF Return
<1>3. CASE SendCancel \/ CancelTimedOut \/ TimeOut \/ \E n \in Nums : DoCancel(n)
  BY <1>0, <1>2, <1>3 DEF SendCancel, CancelTimedOut, TimeOut, DoCancel
<1> QED
  BY <1>1, <1>2, <1>3
  DEF Login, FinishSend, AbortSend, ReturnTimedOut, CancelNothing, FinishCancel, AbortCancel,
      FinishRetrieve, Retrieved, AbortRetrieve, Test, Reset, vars

LEMMA AscendsOfCall ==
    ASSUME Inv, Ascends,
           \/ SendCancel \/ CancelTimedOut \/ Login \/ FinishSend \/ AbortSend \/ TimeOut
           \/ ReturnTimedOut \/ CancelNothing \/ FinishCancel \/ AbortCancel \/ FinishRetrieve
           \/ AbortRetrieve \/ Test \/ Reset \/ UNCHANGED vars \/ \E n \in Nums : DoCancel(n)
    PROVE  Ascends' /\ Rises
<1>0. /\ exch \in [Nums -> ExchangeOrder] /\ orders \in [Slots -> Order]
      /\ ctx \in [Nums -> Slots \cup {NoSlot}] /\ main \in MainStates
  BY DEF Inv, TypeOK, EngineTypeOK
<1>m. main'.pc = "login" => main.pc = "login"
  BY LoginEnds DEF Inv, TypeOK
<1>1. CASE SendCancel
  <2>1. UNCHANGED <<orders, inbox, nextIndex>>
    BY <1>1 DEF SendCancel
  <2>2. CASE UNCHANGED ctx
    BY <1>m, <2>1, <2>2, AscendsStill
  <2>3. CASE ctx # ctx'
    <3>0. PICK k \in Nums : k = main.num
      BY <1>1 DEF SendCancel, Inv, CallOK
    <3>1. /\ ctx[k] = NoSlot /\ byId[k] \in Slots /\ orders[byId[k]].cid = IntMax
          /\ ctx' = [ctx EXCEPT ![k] = byId[k]]
      BY <1>1, <2>3, <3>0, CancelHears
    <3>2. Tag(k) # IntMax /\ IntMax # 0
      BY TagFacts, NumAssumption
    <3>3. ~Open(k) /\ ~Open(k)'
      <4>1. ctx'[k] = byId[k]
        BY <1>0, <3>1
      <4>2. orders'[ctx'[k]].cid = IntMax
        BY <2>1, <3>1, <4>1
      <4> QED
        BY <3>1, <3>2, <4>2 DEF Open
    <3>4. \A n \in Nums : /\ Open(n)' <=> Open(n)
                          /\ Open(n) => orders'[ctx'[n]].exec = orders[ctx[n]].exec
      <4>1. ASSUME NEW n \in Nums, n # k
            PROVE  /\ Open(n)' <=> Open(n)
                   /\ Open(n) => orders'[ctx'[n]].exec = orders[ctx[n]].exec
        <5>1. ctx'[n] = ctx[n]
          BY <1>0, <3>1, <4>1
        <5> QED
          BY <2>1, <5>1 DEF Open
      <4> QED
        BY <3>3, <4>1
    <3>5. \A n \in Nums, i \in 1..Len(inbox) :
             inbox[i].num = n /\ inbox[i].kind = "History" => Open(n)'
      BY <3>4 DEF Ascends, HistoryIsAsked
    <3>6. Rises
      BY <2>1, ExecFacts DEF Rises, Ascends, Blank
    <3> QED
      BY <1>m, <2>1, <3>4, <3>5, <3>6, AscendsFrame DEF Rises
  <2> QED
    BY <2>2, <2>3
<1>2. CASE CancelTimedOut
  <2>1. UNCHANGED <<ctx, inbox, nextIndex>>
    BY <1>2 DEF CancelTimedOut
  <2>2. CASE UNCHANGED orders
    BY <1>m, <2>1, <2>2, AscendsStill
  <2>3. CASE orders' = [orders EXCEPT ![main.slot].armed = ArmsCancel(orders[main.slot])]
    <3> DEFINE a == ArmsCancel(orders[main.slot])
    <3>1. \A o \in Order : [o EXCEPT !.armed = a].exec = o.exec
                           /\ [o EXCEPT !.armed = a].cid = o.cid
      BY DEF Order
    <3>2. orders' = [orders EXCEPT ![main.slot] = [orders[main.slot] EXCEPT !.armed = a]]
      BY <2>3
    <3> HIDE DEF a
    <3>3. \A s \in Slots : orders'[s].exec = orders[s].exec /\ orders'[s].cid = orders[s].cid
      BY <1>0, <3>1, <3>2
    <3> QED
      BY <1>m, <2>1, <3>3, AscendsStill
  <2> QED
    BY <1>2, <2>2, <2>3 DEF CancelTimedOut
<1>3. CASE UNCHANGED <<ctx, orders, inbox, nextIndex>>
  BY <1>m, <1>3, AscendsStill
<1> QED
  BY <1>1, <1>2, <1>3
  DEF Login, FinishSend, AbortSend, TimeOut, ReturnTimedOut, CancelNothing, FinishCancel,
      AbortCancel, FinishRetrieve, Retrieved, AbortRetrieve, Test, Reset, vars, DoCancel

LEMMA AscendsStep ==
    ASSUME Inv, Truth, Ascends, "Reorder" \notin Faults, [Next]_vars
    PROVE  Ascends' /\ Rises
<1>1. ASSUME NEW i \in Deliverable, Handle(i)
      PROVE  Ascends' /\ Rises
  BY <1>1, AscendsOfHandler
<1>2. CASE Call
  BY <1>2, AscendsOfNew, AscendsOfCall DEF Call
<1>3. CASE Proceed \/ GiveUp \/ UNCHANGED vars \/ Test \/ Reset
  BY <1>3, AscendsOfCall DEF Proceed, GiveUp
<1>4. CASE \E n \in Nums : Engine(n)
  BY <1>4, AscendsOfEngine
<1> QED
  BY <1>1, <1>2, <1>3, <1>4 DEF Next, Callback

LEMMA AscendsInit == Init => Ascends
<1> SUFFICES ASSUME Init PROVE Ascends
  OBVIOUS
<1>1. inbox = << >> /\ Len(inbox) = 0 /\ 1..Len(inbox) = {}
  BY DEF Init, EngineInit
<1>2. Blank
  BY DEF Init, NewOrder, Blank
<1> QED
  BY <1>1, <1>2 DEF Ascends, Grows, Ahead, HistoryIsAsked

(* exec_qty_ of an order never falls, if RApi delivers callbacks in the    *)
(* order in which it made them: what BrokerTrade answered for an order it  *)
(* does not take back.                                                     *)
THEOREM FillsGoUp ==
    ASSUME "Reorder" \notin Faults
    PROVE  Spec => FillsNeverFall
<1>1. Init => Ascends
  BY AscendsInit
<1>2. Inv /\ Truth /\ Ascends /\ [Next]_vars => Ascends' /\ Rises
  BY AscendsStep
<1>3. Rises => \A s \in Slots : orders'[s].exec >= orders[s].exec
  BY DEF Rises
<1> QED
  BY <1>1, <1>2, <1>3, Inductive, TruthInvariance, PTL DEF Spec, FillsNeverFall

-----------------------------------------------------------------------------
(* What login restores hears nothing. *)

Restored(os, s) == os[s].cid = IntMax

(* retrieveOrder asks for history with a slot of its own, and no slot is   *)
(* taken for restored before it is.                                        *)
Deaf ==
    /\ \A i \in 1..Len(inbox) : inbox[i].kind = "History" =>
         /\ main.pc # "login"
         /\ ctx[inbox[i].num] # NoSlot /\ ~Restored(orders, ctx[inbox[i].num])
    /\ \A s \in Slots : s >= nextIndex => ~Restored(orders, s)

Frozen ==
    \A s \in Slots :
        /\ Restored(orders, s) =>
             /\ Restored(orders', s)
             /\ orders'[s].exec = orders[s].exec /\ orders'[s].cancelled = orders[s].cancelled
        /\ s < nextIndex /\ Restored(orders', s) => Restored(orders, s)

(* The slots and the history under way stay what they are.                 *)
LEMMA DeafStill ==
    ASSUME Inv, Deaf, UNCHANGED nextIndex, main'.pc = "login" => main.pc = "login",
           \A n \in Nums : ctx[n] # NoSlot => ctx'[n] = ctx[n],
           \A s \in Slots : /\ Restored(orders', s) <=> Restored(orders, s)
                            /\ Restored(orders, s) => /\ orders'[s].exec = orders[s].exec
                                              /\ orders'[s].cancelled = orders[s].cancelled,
           \A j \in 1..Len(inbox') : inbox'[j].kind = "History" =>
                                       \E k \in 1..Len(inbox) : inbox'[j] = inbox[k]
    PROVE  Deaf' /\ Frozen
<1>1. Frozen
  BY DEF Frozen
<1>2. \A s \in Slots : s >= nextIndex' => ~Restored(orders', s)
  BY DEF Deaf
<1>3. ASSUME NEW j \in 1..Len(inbox'), inbox'[j].kind = "History"
      PROVE  /\ main'.pc # "login"
             /\ ctx'[inbox'[j].num] # NoSlot /\ ~Restored(orders', ctx'[inbox'[j].num])
  <2>1. PICK k \in 1..Len(inbox) : inbox'[j] = inbox[k]
    BY <1>3
  <2>2. inbox[k].num \in Nums /\ (ctx[inbox[k].num] # NoSlot => ctx[inbox[k].num] \in Slots)
    BY ExecFacts
  <2>3. /\ main.pc # "login"
        /\ ctx[inbox[k].num] # NoSlot /\ ~Restored(orders, ctx[inbox[k].num])
    BY <1>3, <2>1 DEF Deaf
  <2> QED
    BY <2>1, <2>2, <2>3 DEF Restored
<1> QED
  BY <1>1, <1>2, <1>3 DEF Deaf, Restored

LEMMA DeafOfHandler ==
    ASSUME Inv, Deaf, NEW i \in Deliverable, Handle(i)
    PROVE  Deaf' /\ Frozen
<1> DEFINE m == inbox[i]
           s == ctx[m.num]
<1>0. /\ orders \in [Slots -> Order] /\ ctx \in [Nums -> Slots \cup {NoSlot}]
      /\ inbox \in Seq(Message)
  BY DEF Inv, TypeOK, EngineTypeOK
<1>1. UNCHANGED <<main, ctx, nextIndex>> /\ i \in 1..Len(inbox)
  BY DEF Handle, LineDropped, LineStale, LineSendsCancel, LineApplied, LineError,
         ReportApplied, ReportDropped, NotCancelledReport, SingleOrderReplay, Deliverable
<1>2. m.num \in Nums
  BY <1>1, ExecFacts
<1>3. \A j \in 1..Len(inbox') : \E k \in 1..Len(inbox) : inbox'[j] = inbox[k]
  <2>1. PICK kinds \in {Lines, {"LineError"}, Reported, {"NotCancelled"}, {"ReplayEnd"}} :
          Takes(i, kinds)
    BY DEF Handle, LineDropped, LineStale, LineSendsCancel, LineApplied, LineError,
           ReportApplied, ReportDropped, NotCancelledReport, SingleOrderReplay
  <2>2. \A j \in 1..Len(inbox') : /\ inbox'[j] = inbox[IF j < i THEN j ELSE j + 1]
                                  /\ j + 1 \in 1..Len(inbox) /\ j \in 1..Len(inbox)
    BY <1>0, <2>1, Remaining
  <2> QED
    BY <2>2
<1>4. \A n \in Nums : Tag(n) # IntMax /\ IntMax # 0
  BY TagFacts, NumAssumption
<1>5. HasSlot(m) => s \in Slots /\ ~Restored(orders, s)
  <2>1. CASE m.kind = "History"
    BY <1>0, <1>1, <1>2, <2>1 DEF HasSlot, Deaf
  <2>2. CASE m.kind # "History"
    BY <1>0, <1>2, <1>4, <2>2 DEF HasSlot, Ours, Restored
  <2> QED
    BY <2>1, <2>2
<1>6. Ours(m) => s \in Slots /\ ~Restored(orders, s)
  BY <1>0, <1>2, <1>4 DEF Ours, Restored
<1>7. \/ UNCHANGED orders
      \/ \E o \in Order : /\ s \in Slots /\ ~Restored(orders, s) /\ orders' = [orders EXCEPT ![s] = o]
                          /\ o.cid \in {orders[s].cid, Tag(m.num)}
  <2>1. CASE LineSendsCancel(i)
    <3>1. HasSlot(m) /\ orders' = [orders EXCEPT ![s].armed = FALSE]
      BY <2>1 DEF LineSendsCancel
    <3>2. [orders[s] EXCEPT !.armed = FALSE] \in Order
          /\ [orders[s] EXCEPT !.armed = FALSE].cid = orders[s].cid
      <4>1. orders[s] \in Order
        BY <1>0, <1>5, <3>1
      <4>2. \A o \in Order : /\ [o EXCEPT !.armed = FALSE] \in Order
                             /\ [o EXCEPT !.armed = FALSE].cid = o.cid
        BY DEF Order
      <4> QED
        BY <4>1, <4>2
    <3> HIDE DEF m, s
    <3> QED
      BY <1>5, <3>1, <3>2
  <2>2. CASE LineApplied(i)
    <3>1. HasSlot(m) /\ orders' = [orders EXCEPT ![s] = Updated(orders[s], m)] /\ s \in Slots
      BY <1>5, <2>2 DEF LineApplied
    <3>2. orders[s] \in Order /\ m \in Message
      BY <1>0, <1>1, <3>1
    <3>3. Updated(orders[s], m) \in Order
      BY <3>2, OrderFacts
    <3>4. Updated(orders[s], m).cid \in {orders[s].cid, Tag(m.num)}
      BY <3>2 DEF Updated, Order
    <3> HIDE DEF m, s
    <3> QED
      BY <1>5, <3>1, <3>3, <3>4
  <2>3. CASE ReportApplied(i)
    <3>1. /\ m.kind \in Reported /\ Ours(m) /\ s \in Slots
          /\ orders' = [orders EXCEPT ![s] = Marked(orders[s], m)]
      BY <1>6, <2>3 DEF ReportApplied, Takes
    <3>2. orders[s] \in Order /\ m \in Message
      BY <1>0, <1>1, <3>1
    <3>3. Marked(orders[s], m) \in Order
      BY <3>1, <3>2, OrderFacts
    <3>4. Marked(orders[s], m).cid = orders[s].cid
      <4>1. CASE m.kind = "Cancel"
        BY <3>2, <4>1 DEF Marked, Order
      <4>2. CASE m.kind = "Fill"
        BY <3>2, <4>2 DEF Marked, Order
      <4>3. CASE m.kind \in {"Failure", "Reject"}
        BY <3>2, <4>3 DEF Marked, Order
      <4> QED
        BY <3>1, <4>1, <4>2, <4>3 DEF Reported
    <3> HIDE DEF m, s
    <3> QED
      BY <1>6, <3>1, <3>3, <3>4
  <2> QED
    BY <2>1, <2>2, <2>3
    DEF Handle, LineDropped, LineStale, LineError, ReportDropped, NotCancelledReport,
        SingleOrderReplay
<1>8. \A t \in Slots : /\ Restored(orders', t) <=> Restored(orders, t)
                       /\ Restored(orders, t) => orders'[t] = orders[t]
  <2> HIDE DEF m, s
  <2>1. Tag(m.num) # IntMax
    BY <1>2, <1>4
  <2> QED
    BY <1>0, <1>7, <2>1 DEF Restored
<1> QED
  BY <1>1, <1>3, <1>8, DeafStill

(* A new slot.                                                             *)
LEMMA DeafOfNew ==
    ASSUME Inv, Deaf,
           \/ \E r \in Requests : SendOrder(r)
           \/ \E n \in Nums : RetrieveOrder(n) \/ OpenOrderReplay(n)
    PROVE  Deaf' /\ Frozen
<1>0. /\ orders \in [Slots -> Order] /\ ctx \in [Nums -> Slots \cup {NoSlot}]
      /\ inbox \in Seq(Message) /\ EngineTypeOK /\ nextIndex \in Nat
      /\ \A n \in Nums : Tag(n) # IntMax /\ IntMax # 0
  BY TagFacts, NumAssumption DEF Inv, TypeOK, EngineTypeOK
<1>1. nextIndex \in Slots /\ nextIndex' = nextIndex + 1 /\ \A t \in Slots : t \in Nat
  BY SlotFacts DEF SendOrder, RetrieveOrder, OpenOrderReplay, Inv, TypeOK
<1>2. \A n \in Nums : ctx[n] # NoSlot => ctx[n] \in Slots /\ ctx[n] # nextIndex
  BY <1>0, <1>1, SlotFacts DEF Inv, CtxOK
<1>3. ASSUME NEW o, orders' = [orders EXCEPT ![nextIndex] = o]
      PROVE  /\ orders'[nextIndex] = o
             /\ \A t \in Slots : t # nextIndex => orders'[t] = orders[t]
             /\ Frozen /\ \A t \in Slots : t >= nextIndex' => ~Restored(orders', t)
  <2>1. orders'[nextIndex] = o /\ \A t \in Slots : t # nextIndex => orders'[t] = orders[t]
    BY <1>0, <1>1, <1>3
  <2>2. ~Restored(orders, nextIndex)
    BY <1>0, <1>1 DEF Deaf
  <2> QED
    BY <1>0, <1>1, <2>1, <2>2 DEF Frozen, Restored, Deaf
<1>4. ASSUME NEW n \in Nums, OpenOrderReplay(n)
      PROVE  Deaf' /\ Frozen
  <2>1. \A i \in 1..Len(inbox) : inbox[i].kind # "History"
    BY <1>4 DEF OpenOrderReplay, Deaf
  <2>2. UNCHANGED inbox /\ \E o : orders' = [orders EXCEPT ![nextIndex] = o]
    BY <1>4 DEF OpenOrderReplay
  <2> QED
    BY <1>3, <2>1, <2>2 DEF Deaf
<1>5. ASSUME NEW n \in Nums, NEW o, orders' = [orders EXCEPT ![nextIndex] = o], o.cid # IntMax,
             \A k \in Nums \ {n} : ctx'[k] = ctx[k], ctx'[n] \in {ctx[n], nextIndex},
             main.pc # "login", main'.pc # "login"
      PROVE  /\ Frozen /\ \A t \in Slots : t >= nextIndex' => ~Restored(orders', t)
             /\ ctx'[n] = nextIndex => ~Restored(orders', ctx'[n])
             /\ \A i \in 1..Len(inbox) : inbox[i].kind = "History" =>
                   ctx'[inbox[i].num] # NoSlot /\ ~Restored(orders', ctx'[inbox[i].num])
  <2>1. /\ orders'[nextIndex] = o /\ \A t \in Slots : t # nextIndex => orders'[t] = orders[t]
        /\ Frozen /\ \A t \in Slots : t >= nextIndex' => ~Restored(orders', t)
    BY <1>3, <1>5
  <2>2. ~Restored(orders', nextIndex) /\ nextIndex # NoSlot
    BY <1>1, <1>5, <2>1, SlotFacts DEF Restored
  <2>3. ASSUME NEW i \in 1..Len(inbox), inbox[i].kind = "History"
        PROVE  ctx'[inbox[i].num] # NoSlot /\ ~Restored(orders', ctx'[inbox[i].num])
    <3>1. inbox[i].num \in Nums
      BY ExecFacts
    <3>2. ctx[inbox[i].num] # NoSlot /\ ~Restored(orders, ctx[inbox[i].num])
      BY <2>3 DEF Deaf
    <3>3. ~Restored(orders', ctx[inbox[i].num])
      BY <1>2, <2>1, <3>1, <3>2 DEF Restored
    <3>4. ctx'[inbox[i].num] \in {ctx[inbox[i].num], nextIndex}
      BY <1>5, <3>1
    <3> QED
      BY <2>2, <3>2, <3>3, <3>4
  <2> QED
    BY <2>1, <2>2, <2>3
<1>6. ASSUME NEW r \in Requests, SendOrder(r)
      PROVE  Deaf' /\ Frozen
  <2> DEFINE n == OrderNum(nextIndex)
             o == NewOrder(Tag(n), 0, r.limit, r.lasting)
  <2>1. n \in Nums
    BY <1>1, SlotFacts
  <2>2. orders' = [orders EXCEPT ![nextIndex] = o] /\ UNCHANGED inbox /\ main.pc = "idle"
        /\ main'.pc \in {"idle", "buying"}
    BY <1>6 DEF SendOrder, mainIdle, Idle
  <2>3. o.cid # IntMax
    BY <1>0, <2>1 DEF NewOrder
  <2>4. (\A k \in Nums \ {n} : ctx'[k] = ctx[k]) /\ ctx'[n] \in {ctx[n], nextIndex}
    BY <1>0, <1>6, <2>1 DEF SendOrder
  <2> HIDE DEF n, o
  <2> QED
    BY <1>5, <2>1, <2>2, <2>3, <2>4 DEF Deaf
<1>7. ASSUME NEW n \in Nums, RetrieveOrder(n)
      PROVE  Deaf' /\ Frozen
  <2> DEFINE o == NewOrder(0, n, FALSE, FALSE)
             msgs == ReplayOf(n)
  <2>1. orders' = [orders EXCEPT ![nextIndex] = o] /\ main.pc = "idle"
        /\ main'.pc \in {"idle", "retrieving"}
    BY <1>7 DEF RetrieveOrder, mainIdle, Idle
  <2>2. o.cid # IntMax
    BY <1>0, <1>7 DEF NewOrder
  <2>3. /\ \A k \in Nums \ {n} : ctx'[k] = ctx[k]
        /\ ctx'[n] \in {ctx[n], nextIndex}
        /\ UNCHANGED inbox \/ (ctx'[n] = nextIndex /\ Emit(msgs))
    BY <1>0, <1>7 DEF RetrieveOrder
  <2>4. msgs \in Seq(Message) /\ \A j \in 1..Len(msgs) : msgs[j].num = n
    BY <1>0, ReplaySays
  <2> HIDE DEF o, msgs
  <2>5. /\ Frozen /\ \A t \in Slots : t >= nextIndex' => ~Restored(orders', t)
        /\ ctx'[n] = nextIndex => ~Restored(orders', ctx'[n])
        /\ \A i \in 1..Len(inbox) : inbox[i].kind = "History" =>
              ctx'[inbox[i].num] # NoSlot /\ ~Restored(orders', ctx'[inbox[i].num])
    BY <1>5, <2>1, <2>2, <2>3
  <2>6. CASE UNCHANGED inbox
    BY <2>1, <2>5, <2>6 DEF Deaf
  <2>7. CASE ctx'[n] = nextIndex /\ Emit(msgs)
    <3>1. /\ \A l \in 1..Len(inbox) : inbox'[l] = inbox[l]
          /\ \A l \in 1..Len(inbox') : l \notin 1..Len(inbox) =>
               l - Len(inbox) \in 1..Len(msgs) /\ inbox'[l] = msgs[l - Len(inbox)]
      BY <1>0, <2>4, <2>7, Joined
    <3>2. \A l \in 1..Len(inbox') : inbox'[l].kind = "History" =>
            ctx'[inbox'[l].num] # NoSlot /\ ~Restored(orders', ctx'[inbox'[l].num])
      <4> SUFFICES ASSUME NEW l \in 1..Len(inbox'), inbox'[l].kind = "History"
                   PROVE  ctx'[inbox'[l].num] # NoSlot /\ ~Restored(orders', ctx'[inbox'[l].num])
        OBVIOUS
      <4>1. CASE l \in 1..Len(inbox)
        BY <2>5, <3>1, <4>1
      <4>2. CASE l \notin 1..Len(inbox)
        <5>1. /\ l - Len(inbox) \in 1..Len(msgs) /\ inbox'[l] = msgs[l - Len(inbox)]
          BY <3>1, <4>2
        <5>2. inbox'[l].num = n
          BY <2>4, <5>1
        <5>3. nextIndex # NoSlot
          BY <1>1, SlotFacts
        <5> QED
          BY <2>5, <2>7, <5>2, <5>3
      <4> QED
        BY <4>1, <4>2
    <3> QED
      BY <2>1, <2>5, <3>2 DEF Deaf
  <2> QED
    BY <2>3, <2>6, <2>7
<1> QED
  BY <1>4, <1>6, <1>7

LEMMA DeafOfEngine ==
    ASSUME Inv, Truth, Deaf, NEW n \in Nums, Engine(n)
    PROVE  Deaf' /\ Frozen
<1>0. inbox \in Seq(Message) /\ UNCHANGED <<main, nextIndex, orders>>
  BY DEF Inv, TypeOK, EngineTypeOK, Engine
<1>1. UNCHANGED ctx
  BY DEF Engine, EngineStep, Acknowledge, Refuse, Reject, Fill, Cancel, RefuseCancel, Announce
<1>2. PICK f \in ExchangeOrder, msgs \in Seq(Message) : Says(n, exch[n], f, msgs) /\ Emit(msgs)
  BY EngineGoesOn DEF Inv, TypeOK, Truth, Engine
<1>3. \A j \in 1..Len(msgs) : msgs[j].kind # "History"
  BY <1>2 DEF Says
<1>4. \A j \in 1..Len(inbox') : inbox'[j].kind = "History" =>
        j \in 1..Len(inbox) /\ inbox'[j] = inbox[j]
  BY <1>0, <1>2, <1>3, Joined
<1>5. \A t \in Slots : (Restored(orders', t) <=> Restored(orders, t)) /\ orders'[t] = orders[t]
  BY <1>0 DEF Restored
<1> QED
  BY <1>0, <1>1, <1>4, <1>5, DeafStill

LEMMA DeafOfCall ==
    ASSUME Inv, Deaf,
           \/ SendCancel \/ CancelTimedOut \/ Login \/ FinishSend \/ AbortSend \/ TimeOut
           \/ ReturnTimedOut \/ CancelNothing \/ FinishCancel \/ AbortCancel \/ FinishRetrieve
           \/ AbortRetrieve \/ Test \/ Reset \/ UNCHANGED vars \/ \E n \in Nums : DoCancel(n)
    PROVE  Deaf' /\ Frozen
<1>0. /\ orders \in [Slots -> Order] /\ ctx \in [Nums -> Slots \cup {NoSlot}]
      /\ main'.pc = "login" => main.pc = "login"
  BY LoginEnds DEF Inv, TypeOK, EngineTypeOK
<1>1. /\ UNCHANGED <<nextIndex, inbox>>
      /\ \A n \in Nums : ctx[n] # NoSlot => ctx'[n] = ctx[n]
  <2>1. CASE SendCancel
    BY <1>0, <2>1, CancelHears DEF SendCancel
  <2> QED
    BY <2>1
    DEF CancelTimedOut, Login, FinishSend, AbortSend, TimeOut, ReturnTimedOut, CancelNothing,
        FinishCancel, AbortCancel, FinishRetrieve, Retrieved, AbortRetrieve, Test, Reset, vars,
        DoCancel
<1>2. \A t \in Slots : /\ orders'[t].cid = orders[t].cid /\ orders'[t].exec = orders[t].exec
                       /\ orders'[t].cancelled = orders[t].cancelled
  <2>1. CASE CancelTimedOut
    BY <1>0, <2>1 DEF CancelTimedOut, Order
  <2>2. CASE ~CancelTimedOut
    <3>1. UNCHANGED orders
      BY <2>2
      DEF SendCancel, Login, FinishSend, AbortSend, TimeOut, ReturnTimedOut, CancelNothing,
          FinishCancel, AbortCancel, FinishRetrieve, Retrieved, AbortRetrieve, Test, Reset, vars,
          DoCancel
    <3> QED
      BY <3>1
  <2> QED
    BY <2>1, <2>2
<1>3. \A t \in Slots : Restored(orders', t) <=> Restored(orders, t)
  BY <1>2 DEF Restored
<1> QED
  BY <1>0, <1>1, <1>2, <1>3, DeafStill

LEMMA DeafStep ==
    ASSUME Inv, Truth, Deaf, [Next]_vars
    PROVE  Deaf' /\ Frozen
<1>1. ASSUME NEW i \in Deliverable, Handle(i)
      PROVE  Deaf' /\ Frozen
  BY <1>1, DeafOfHandler
<1>2. CASE Call
  BY <1>2, DeafOfNew, DeafOfCall DEF Call
<1>3. CASE Proceed \/ GiveUp \/ UNCHANGED vars \/ Test \/ Reset
  BY <1>3, DeafOfCall DEF Proceed, GiveUp
<1>4. CASE \E n \in Nums : Engine(n)
  BY <1>4, DeafOfEngine
<1> QED
  BY <1>1, <1>2, <1>3, <1>4 DEF Next, Callback

LEMMA DeafInit == Init => Deaf
<1> SUFFICES ASSUME Init PROVE Deaf
  OBVIOUS
<1>1. inbox = << >> /\ 1..Len(inbox) = {}
  BY DEF Init, EngineInit
<1>2. \A s \in Slots : orders[s].cid = 0
  BY DEF Init, NewOrder
<1> QED
  BY <1>1, <1>2, NumAssumption DEF Deaf, Restored

(* An order that login restored keeps what the replay said of it: whatever *)
(* is filled or cancelled afterwards, the quantity that BrokerTrade        *)
(* answers for it never changes, with or without faults.                   *)
THEOREM RestoredOrdersStayAsTheyWere ==
    Spec => [][\A s \in Slots : orders[s].cid = IntMax =>
                 /\ orders'[s].cid = IntMax
                 /\ orders'[s].exec = orders[s].exec
                 /\ orders'[s].cancelled = orders[s].cancelled]_vars
<1>1. Inv /\ Truth /\ Deaf /\ [Next]_vars => Deaf' /\ Frozen
  BY DeafStep
<1>2. Frozen => \A s \in Slots : orders[s].cid = IntMax =>
                   /\ orders'[s].cid = IntMax
                   /\ orders'[s].exec = orders[s].exec
                   /\ orders'[s].cancelled = orders[s].cancelled
  BY DEF Frozen, Restored
<1> QED
  BY <1>1, <1>2, DeafInit, Inductive, TruthInvariance, PTL DEF Spec
=============================================================================
