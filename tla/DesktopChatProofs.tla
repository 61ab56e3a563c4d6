-------------------------- MODULE DesktopChatProofs --------------------------
(* Theorems about DesktopChat, for any number of chats and sessions and any
   limits.  Two of them are about users who do not send in a new view before the
   call of the old one has returned: the shared slots are only safe for them.  *)
EXTENDS DesktopChat, SequenceTheorems, TLAPS

Unhurried == "hurry" \notin UserOps

-----------------------------------------------------------------------------
(* Types. *)

\* A call that shows a request, or waits for its answer, has it at the head of
\* its queue, and its child has made it.
Asked(c) ==
  /\ pc[c] \in {"show", "wait"} => queue[c] # <<>> /\ queue[c][1] \in Kinds
  /\ \A i \in 1..Len(queue[c]) : queue[c][i] \in Kinds => asks[c] >= 1
Typed == TypeOK /\ \A c \in Chats : Asked(c)

LEMMA Constants ==
  /\ MaxConsecutive \in Nat \ {0} /\ MaxTotal \in Nat \ {0} /\ MaxNoise \in Nat /\ MaxAsks \in Nat
  /\ MaxSwitches \in Nat /\ Home \in Sessions /\ NoChat \notin Chats /\ Chats \subseteq Nat
  /\ Kinds = {"confirm", "clarify"} /\ Slots = Chats \cup {NoChat}
BY LimitsAssumption DEF Kinds, Slots

\* The head of a queue and the rest, and two queues after one another.
LEMMA HeadAndTail ==
  ASSUME NEW S, NEW q \in Seq(S), q # <<>>
  PROVE  /\ Head(q) = q[1] /\ q[1] \in S /\ Tail(q) \in Seq(S) /\ Len(q) >= 1
         /\ Len(Tail(q)) = Len(q) - 1 /\ \A i \in 1..Len(Tail(q)) : Tail(q)[i] = q[i + 1]
BY HeadTailProperties

LEMMA After ==
  ASSUME NEW S, NEW q \in Seq(S), NEW r \in Seq(S)
  PROVE  /\ q \o r \in Seq(S) /\ Len(q \o r) = Len(q) + Len(r)
         /\ \A i \in 1..Len(q) : (q \o r)[i] = q[i]
         /\ \A i \in 1..Len(r) : (q \o r)[Len(q) + i] = r[i]
<1>1. /\ q \o r \in Seq(S) /\ Len(q \o r) = Len(q) + Len(r) /\ Len(q) \in Nat /\ Len(r) \in Nat
      /\ \A i \in 1..Len(q) + Len(r) : (q \o r)[i] = IF i <= Len(q) THEN q[i] ELSE r[i - Len(q)]
  BY ConcatProperties, LenProperties
<1>2. ASSUME NEW i \in 1..Len(r) PROVE (q \o r)[Len(q) + i] = r[i]
  <2>1. Len(q) + i \in 1..Len(q) + Len(r) /\ ~(Len(q) + i <= Len(q)) /\ (Len(q) + i) - Len(q) = i
    BY <1>1
  <2> QED BY <1>1, <2>1
<1> QED BY <1>1, <1>2

\* The events es go to the end of the queue of c.
Adds(c, es) ==
  /\ queue' \in [Chats -> Seq(Events)] /\ \A d \in Chats \ {c} : queue'[d] = queue[d]
  /\ Len(queue'[c]) = Len(queue[c]) + Len(es)
  /\ \A i \in 1..Len(queue[c]) : queue'[c][i] = queue[c][i]
  /\ \A i \in 1..Len(es) : queue'[c][Len(queue[c]) + i] = es[i]

LEMMA QueueAdds ==
  ASSUME queue \in [Chats -> Seq(Events)], NEW c \in Chats, NEW es \in Seq(Events),
         queue' = [queue EXCEPT ![c] = queue[c] \o es]
  PROVE  Adds(c, es)
<1>1. queue[c] \in Seq(Events)
  OBVIOUS
<1>2. /\ queue[c] \o es \in Seq(Events) /\ Len(queue[c] \o es) = Len(queue[c]) + Len(es)
      /\ \A i \in 1..Len(queue[c]) : (queue[c] \o es)[i] = queue[c][i]
      /\ \A i \in 1..Len(es) : (queue[c] \o es)[Len(queue[c]) + i] = es[i]
  BY <1>1, After
<1>3. queue'[c] = queue[c] \o es /\ \A d \in Chats \ {c} : queue'[d] = queue[d]
  OBVIOUS
<1>4. queue' \in [Chats -> Seq(Events)]
  BY <1>2
<1> QED BY <1>2, <1>3, <1>4 DEF Adds

LEMMA Regrouped == \A q, r, t \in Seq(Events) : (q \o r) \o t = q \o (r \o t)
<1> TAKE q, r, t \in Seq(Events)
<1> QED BY ConcatAssociative

LEMMA OneEvent ==
  ASSUME NEW ev \in Events
  PROVE  <<ev>> \in Seq(Events) /\ Len(<<ev>>) = 1 /\ <<ev>>[1] = ev
OBVIOUS

\* What the child prints: an event, after the recovery it ends a run with.
Recovery(c) == IF invalid[c].run > 0 THEN <<"recovered">> ELSE <<>>
Said(c, ev) == Recovery(c) \o <<ev>>
Unheard(c) == Corrupt(c) \/ Over(c)

LEMMA SaidIs ==
  ASSUME NEW c \in Chats, NEW ev \in Events
  PROVE  /\ Said(c, ev) \in Seq(Events) /\ \A i \in 1..Len(Said(c, ev)) : Said(c, ev)[i] \in {"recovered", ev}
         /\ IF invalid[c].run > 0
            THEN Len(Said(c, ev)) = 2 /\ Said(c, ev)[1] = "recovered" /\ Said(c, ev)[2] = ev
            ELSE Len(Said(c, ev)) = 1 /\ Said(c, ev)[1] = ev
<1>r. "recovered" \in Events
  BY DEF Events
<1>1. Recovery(c) \in Seq(Events) /\ <<ev>> \in Seq(Events)
  BY <1>r, OneEvent, EmptySeq DEF Recovery
<1>2. /\ Said(c, ev) \in Seq(Events) /\ Len(Said(c, ev)) = Len(Recovery(c)) + Len(<<ev>>)
      /\ \A i \in 1..Len(Recovery(c)) : Said(c, ev)[i] = Recovery(c)[i]
      /\ \A i \in 1..Len(<<ev>>) : Said(c, ev)[Len(Recovery(c)) + i] = <<ev>>[i]
  BY <1>1, After DEF Said
<1>3. Len(<<ev>>) = 1 /\ <<ev>>[1] = ev
  BY OneEvent
<1>4. CASE invalid[c].run > 0
  <2>1. Recovery(c) = <<"recovered">> /\ Len(Recovery(c)) = 1 /\ Recovery(c)[1] = "recovered"
    BY <1>4 DEF Recovery
  <2>2. Len(Said(c, ev)) = 2 /\ Said(c, ev)[1] = "recovered" /\ Said(c, ev)[2] = ev
    BY <1>2, <1>3, <2>1
  <2>3. \A i \in 1..Len(Said(c, ev)) : i = 1 \/ i = 2
    BY <2>2
  <2> QED BY <1>2, <1>4, <2>2, <2>3
<1>5. CASE ~(invalid[c].run > 0)
  <2>1. Recovery(c) = <<>> /\ Len(Recovery(c)) = 0
    BY <1>5 DEF Recovery
  <2>2. Len(Said(c, ev)) = 1 /\ Said(c, ev)[1] = ev
    BY <1>2, <1>3, <2>1
  <2>3. \A i \in 1..Len(Said(c, ev)) : i = 1
    BY <2>2
  <2> QED BY <1>2, <1>5, <2>2, <2>3
<1> QED BY <1>4, <1>5

LEMMA PrintsAdds ==
  ASSUME TypeOK, NEW c \in Chats, NEW ev \in Events, Prints(c, ev)
  PROVE  /\ invalid' \in [Chats -> [run : 0..MaxConsecutive, all : 0..MaxTotal]]
         /\ \A d \in Chats \ {c} : invalid'[d] = invalid[d]
         /\ \/ Unheard(c) /\ UNCHANGED <<queue, invalid>>
            \/ ~Unheard(c) /\ Adds(c, Said(c, ev)) /\ invalid'[c].run = 0
<1>1. CASE Unheard(c)
  BY <1>1 DEF Prints, Unheard, TypeOK
<1>2. CASE ~Unheard(c)
  <2>1. /\ queue' = [queue EXCEPT ![c] = (@ \o Recovery(c)) \o <<ev>>]
        /\ invalid' = [invalid EXCEPT ![c].run = 0]
    BY <1>2 DEF Prints, Unheard, ReadLine, Recovery
  <2>r. "recovered" \in Events
    BY DEF Events
  <2>2. Recovery(c) \in Seq(Events) /\ <<ev>> \in Seq(Events) /\ queue[c] \in Seq(Events)
    BY <2>r, OneEvent, EmptySeq DEF Recovery, TypeOK
  <2>3. (queue[c] \o Recovery(c)) \o <<ev>> = queue[c] \o (Recovery(c) \o <<ev>>)
    BY <2>2, Regrouped, Zenon
  <2>4. Recovery(c) \o <<ev>> \in Seq(Events)
    BY <2>2, ConcatProperties
  <2>5. queue \in [Chats -> Seq(Events)]
    BY DEF TypeOK
  <2>6. queue' = [queue EXCEPT ![c] = queue[c] \o (Recovery(c) \o <<ev>>)]
    BY <2>1, <2>3, <2>5
  <2>7. Adds(c, Said(c, ev))
    BY <2>4, <2>5, <2>6, QueueAdds DEF Said
  <2>8. invalid \in [Chats -> [run : 0..MaxConsecutive, all : 0..MaxTotal]] /\ 0 \in 0..MaxConsecutive
    BY Constants DEF TypeOK
  <2> QED BY <1>2, <2>1, <2>7, <2>8
<1> QED BY <1>1, <1>2

\* The two things noise may add.
Warning(c) == IF invalid[c].run = 0 THEN <<"warning">> ELSE <<>>
Report(c) == IF Corrupt(c)' THEN <<"corrupt">> ELSE <<>>
Noise(c) == Warning(c) \o Report(c)

LEMMA NoiseIs ==
  ASSUME NEW c \in Chats
  PROVE  /\ Noise(c) \in Seq(Events)
         /\ invalid[c].run = 0 /\ ~Corrupt(c)' => Len(Noise(c)) = 1 /\ Noise(c)[1] = "warning"
         /\ invalid[c].run = 0 /\ Corrupt(c)' => /\ Len(Noise(c)) = 2 /\ Noise(c)[1] = "warning"
                                                 /\ Noise(c)[2] = "corrupt"
         /\ invalid[c].run # 0 /\ ~Corrupt(c)' => Len(Noise(c)) = 0
         /\ invalid[c].run # 0 /\ Corrupt(c)' => Len(Noise(c)) = 1 /\ Noise(c)[1] = "corrupt"
<1>w. "warning" \in Events /\ "corrupt" \in Events
  BY DEF Events
<1>1. Warning(c) \in Seq(Events) /\ Report(c) \in Seq(Events)
  BY <1>w, OneEvent, EmptySeq DEF Warning, Report
<1>2. /\ Noise(c) \in Seq(Events) /\ Len(Noise(c)) = Len(Warning(c)) + Len(Report(c))
      /\ \A i \in 1..Len(Warning(c)) : Noise(c)[i] = Warning(c)[i]
      /\ \A i \in 1..Len(Report(c)) : Noise(c)[Len(Warning(c)) + i] = Report(c)[i]
  BY <1>1, After DEF Noise
<1>3. IF invalid[c].run = 0 THEN Len(Warning(c)) = 1 /\ Warning(c)[1] = "warning" ELSE Len(Warning(c)) = 0
  BY DEF Warning
<1>4. IF Corrupt(c)' THEN Len(Report(c)) = 1 /\ Report(c)[1] = "corrupt" ELSE Len(Report(c)) = 0
  BY DEF Report
<1> QED BY <1>2, <1>3, <1>4

LEMMA NoiseAdds ==
  ASSUME TypeOK, NEW c \in Chats, ChildNoise(c)
  PROVE  /\ invalid' \in [Chats -> [run : 0..MaxConsecutive, all : 0..MaxTotal]]
         /\ \A d \in Chats \ {c} : invalid'[d] = invalid[d]
         /\ invalid'[c].run = invalid[c].run + 1
         /\ Adds(c, Noise(c))
<1>1. invalid[c] \in [run : 0..MaxConsecutive, all : 0..MaxTotal] /\ ~Corrupt(c)
  BY DEF TypeOK, ChildNoise
<1>2. invalid[c].run + 1 \in 0..MaxConsecutive /\ invalid[c].all + 1 \in 0..MaxTotal
  BY <1>1, Constants DEF Corrupt
<1>3. invalid' = [invalid EXCEPT ![c] = [run |-> invalid[c].run + 1, all |-> invalid[c].all + 1]]
  BY DEF ChildNoise, TypeOK
<1>4. /\ invalid' \in [Chats -> [run : 0..MaxConsecutive, all : 0..MaxTotal]]
      /\ \A d \in Chats \ {c} : invalid'[d] = invalid[d]
      /\ invalid'[c].run = invalid[c].run + 1
  BY <1>1, <1>2, <1>3 DEF TypeOK
<1>w. "warning" \in Events /\ "corrupt" \in Events
  BY DEF Events
<1>5. Warning(c) \in Seq(Events) /\ Report(c) \in Seq(Events) /\ queue[c] \in Seq(Events)
  BY <1>w, OneEvent, EmptySeq DEF Warning, Report, TypeOK
<1>6. queue' = [queue EXCEPT ![c] = (@ \o Warning(c)) \o Report(c)]
  BY DEF ChildNoise, Warning, Report
<1>7. (queue[c] \o Warning(c)) \o Report(c) = queue[c] \o (Warning(c) \o Report(c))
  BY <1>5, Regrouped, Zenon
<1>8. queue \in [Chats -> Seq(Events)]
  BY DEF TypeOK
<1>9. queue' = [queue EXCEPT ![c] = queue[c] \o (Warning(c) \o Report(c))]
  BY <1>6, <1>7, <1>8
<1>10. Warning(c) \o Report(c) \in Seq(Events)
  BY <1>5, ConcatProperties
<1> QED BY <1>4, <1>8, <1>9, <1>10, QueueAdds DEF Noise

Cards == [chat : Chats, kind : Kinds, n : 1..MaxAsks]
Lines == [method : Kinds, yes : BOOLEAN]

\* A card less, and a card or line more.
LEMMA CardLess ==
  ASSUME NEW s \in Seq(Cards), NEW i \in DOMAIN s
  PROVE  /\ RemoveAt(s, i) \in Seq(Cards)
         /\ \A j \in 1..Len(RemoveAt(s, i)) : \E k \in 1..Len(s) \ {i} : RemoveAt(s, i)[j] = s[k]
<1>1. i \in 1..Len(s) /\ Len(s) \in Nat /\ \A j \in 1..Len(s) : s[j] \in Cards
  BY LenProperties, ElementOfSeq
<1> DEFINE a == SubSeq(s, 1, i - 1)
           b == SubSeq(s, i + 1, Len(s))
<1>2. /\ a \in Seq(Cards) /\ Len(a) = i - 1
      /\ \A j \in 1..i - 1 : a[j] = s[j]
  <2>1. 1 \in Int /\ i - 1 \in Int /\ \A j \in 1..i - 1 : s[j] \in Cards
    BY <1>1
  <2>2. /\ a \in Seq(Cards) /\ Len(a) = IF 1 <= i - 1 THEN (i - 1) - 1 + 1 ELSE 0
        /\ \A j \in 1..(i - 1) - 1 + 1 : a[j] = s[1 + j - 1]
    BY <2>1, SubSeqProperties
  <2> QED BY <1>1, <2>2
<1>3. /\ b \in Seq(Cards) /\ Len(b) = Len(s) - i
      /\ \A j \in 1..Len(s) - i : b[j] = s[i + j]
  <2>1. i + 1 \in Int /\ Len(s) \in Int /\ \A j \in i + 1..Len(s) : s[j] \in Cards
    BY <1>1
  <2>2. /\ b \in Seq(Cards) /\ Len(b) = IF i + 1 <= Len(s) THEN Len(s) - (i + 1) + 1 ELSE 0
        /\ \A j \in 1..Len(s) - (i + 1) + 1 : b[j] = s[(i + 1) + j - 1]
    BY <2>1, SubSeqProperties
  <2> QED BY <1>1, <2>2
<1>4. RemoveAt(s, i) = a \o b
  BY DEF RemoveAt
<1> HIDE DEF a, b
<1>5. /\ a \o b \in Seq(Cards) /\ Len(a \o b) = Len(s) - 1
      /\ \A j \in 1..Len(s) - 1 : (a \o b)[j] = IF j <= i - 1 THEN a[j] ELSE b[j - (i - 1)]
  <2>1. /\ a \o b \in Seq(Cards) /\ Len(a \o b) = Len(a) + Len(b)
        /\ \A j \in 1..Len(a) + Len(b) : (a \o b)[j] = IF j <= Len(a) THEN a[j] ELSE b[j - Len(a)]
    BY <1>2, <1>3, ConcatProperties
  <2>2. Len(a) + Len(b) = Len(s) - 1 /\ Len(a) = i - 1
    BY <1>1, <1>2, <1>3
  <2>3. \A j \in 1..Len(s) - 1 : (a \o b)[j] = IF j <= i - 1 THEN a[j] ELSE b[j - (i - 1)]
    BY <2>1, <2>2, Zenon
  <2> QED BY <2>1, <2>2, <2>3
<1>6. ASSUME NEW j \in 1..Len(s) - 1
      PROVE  \E k \in 1..Len(s) \ {i} : (a \o b)[j] = s[k]
  <2>1. CASE j <= i - 1
    BY <1>1, <1>2, <1>5, <2>1
  <2>2. CASE ~(j <= i - 1)
    <3>1. j - (i - 1) \in 1..Len(s) - i /\ i + (j - (i - 1)) = j + 1 /\ j + 1 \in 1..Len(s) \ {i}
      BY <1>1, <2>2
    <3>2. (a \o b)[j] = b[j - (i - 1)]
      BY <1>5, <2>2
    <3>3. b[j - (i - 1)] = s[i + (j - (i - 1))]
      BY <1>3, <3>1
    <3> QED BY <3>1, <3>2, <3>3
  <2> QED BY <2>1, <2>2
<1> QED BY <1>4, <1>5, <1>6

LEMMA OneMore ==
  ASSUME NEW S, NEW s \in Seq(S), NEW x \in S
  PROVE  /\ Append(s, x) \in Seq(S) /\ Len(Append(s, x)) = Len(s) + 1
         /\ \A i \in 1..Len(s) : Append(s, x)[i] = s[i]
         /\ Append(s, x)[Len(s) + 1] = x
BY AppendProperties

\* A call is over: what it leaves of its own, and of the view that waits for it.
LEMMA ReturnTyped ==
  ASSUME TypeOK, NEW c \in Chats, Return(c)
  PROVE  /\ pc' \in [Chats -> Points] /\ pc'[c] = "done"
         /\ queue' \in [Chats -> Seq(Events)] /\ queue'[c] = <<>>
         /\ invalid' \in [Chats -> [run : 0..MaxConsecutive, all : 0..MaxTotal]]
         /\ reply' \in [Chats -> {"none", "yes", "no", "dropped"}] /\ reaping' \in [Chats -> Slots]
         /\ \A d \in Chats \ {c} : /\ pc'[d] = pc[d] /\ queue'[d] = queue[d] /\ invalid'[d] = invalid[d]
                                   /\ reply'[d] = reply[d] /\ reaping'[d] = reaping[d]
         /\ inFlight' = (IF inFlight = c THEN NoChat ELSE inFlight)
         /\ cards' = (IF inFlight = c THEN <<>> ELSE cards)
         /\ inFlight' \in Slots /\ cards' \in Seq(Cards)
         /\ UNCHANGED <<view, target, switches, session>>
<1>1. /\ pc \in [Chats -> Points] /\ queue \in [Chats -> Seq(Events)] /\ cards \in Seq(Cards)
      /\ invalid \in [Chats -> [run : 0..MaxConsecutive, all : 0..MaxTotal]]
      /\ reply \in [Chats -> {"none", "yes", "no", "dropped"}] /\ reaping \in [Chats -> Slots]
      /\ inFlight \in Slots
  BY DEF TypeOK, Cards
<1>2. pc' \in [Chats -> Points] /\ pc'[c] = "done" /\ \A d \in Chats \ {c} : pc'[d] = pc[d]
  BY <1>1 DEF Return, At, Points
<1>3. queue' \in [Chats -> Seq(Events)] /\ queue'[c] = <<>> /\ \A d \in Chats \ {c} : queue'[d] = queue[d]
  BY <1>1, EmptySeq DEF Return
<1>4. [run |-> 0, all |-> 0] \in [run : 0..MaxConsecutive, all : 0..MaxTotal]
  BY Constants
<1>5. /\ invalid' \in [Chats -> [run : 0..MaxConsecutive, all : 0..MaxTotal]]
      /\ \A d \in Chats \ {c} : invalid'[d] = invalid[d]
  BY <1>1, <1>4 DEF Return
<1>6. /\ reply' \in [Chats -> {"none", "yes", "no", "dropped"}] /\ reaping' \in [Chats -> Slots]
      /\ \A d \in Chats \ {c} : reply'[d] = reply[d] /\ reaping'[d] = reaping[d]
  BY <1>1 DEF Return, Slots
<1>7. /\ inFlight' = (IF inFlight = c THEN NoChat ELSE inFlight)
      /\ cards' = (IF inFlight = c THEN <<>> ELSE cards)
      /\ UNCHANGED <<view, target, switches, session>>
  BY DEF Return
<1>8. inFlight' \in Slots /\ cards' \in Seq(Cards)
  BY <1>1, <1>7, EmptySeq DEF Slots
<1> QED BY <1>2, <1>3, <1>5, <1>6, <1>7, <1>8

LEMMA TypedInit == Init => Typed
<1> SUFFICES ASSUME Init PROVE Typed
  OBVIOUS
<1>1. [run |-> 0, all |-> 0] \in [run : 0..MaxConsecutive, all : 0..MaxTotal]
  BY Constants
<1>2. TypeOK
  BY <1>1, Constants, EmptySeq DEF Init, TypeOK, Points
<1>3. \A c \in Chats : Asked(c)
  BY DEF Init, Asked
<1> QED BY <1>2, <1>3 DEF Typed

LEMMA AskedKeeps ==
  ASSUME Typed, NEW c \in Chats, queue'[c] = queue[c], pc'[c] \in {"show", "wait"} => pc[c] \in {"show", "wait"},
         asks'[c] >= asks[c], asks'[c] \in Nat
  PROVE  Asked(c)'
<1>1. asks[c] \in Nat
  BY Constants DEF Typed, TypeOK
<1> QED BY <1>1 DEF Typed, Asked

LEMMA TypeStep == Typed /\ [Next]_vars => TypeOK'
<1> SUFFICES ASSUME Typed, [Next]_vars PROVE TypeOK'
  OBVIOUS
<1>t. TypeOK
  BY DEF Typed
<1>a. /\ pc \in [Chats -> Points] /\ queue \in [Chats -> Seq(Events)] /\ cards \in Seq(Cards)
      /\ child \in [Chats -> {"none", "idle", "work", "over", "gone"} \cup Kinds]
      /\ stdin \in [Chats -> Seq(Lines)] /\ asks \in [Chats -> 0..MaxAsks]
      /\ reply \in [Chats -> {"none", "yes", "no", "dropped"}] /\ reaping \in [Chats -> Slots]
      /\ sender \in [Kinds -> Slots] /\ inFlight \in Slots
  BY <1>t DEF TypeOK, Cards, Lines
<1>1. ASSUME NEW c \in Chats, Send(c) PROVE TypeOK'
  BY <1>1, <1>t DEF Send, At, TypeOK, agent, observed, Points, Slots
<1>2. ASSUME NEW i \in DOMAIN cards, NEW yes, yes \in BOOLEAN, Respond(i, yes) PROVE TypeOK'
  <2>1. cards' \in Seq(Cards)
    BY <1>2, <1>a, CardLess DEF Respond
  <2>2. cards[i] \in Cards
    BY <1>a, ElementOfSeq, LenProperties
  <2>3. sender' \in [Kinds -> Slots]
    BY <1>2, <1>a, <2>2 DEF Respond, Slots, Cards
  <2>4. reply' \in [Chats -> {"none", "yes", "no", "dropped"}]
    BY <1>2, <1>a DEF Respond
  <2>5. answered' \in [Chats -> {"none", "yes", "no"}]
    BY <1>2, <1>t DEF Respond, TypeOK
  <2> QED BY <1>2, <1>t, <2>1, <2>3, <2>4, <2>5 DEF Respond, TypeOK, agent, Cards
<1>3. CASE PressStop
  <2>1. stopped' \in [Chats -> BOOLEAN] /\ target' \subseteq Sessions /\ stopping' = "confirm"
    BY <1>3, <1>t DEF PressStop, TypeOK
  <2> QED BY <1>3, <1>t, <2>1, Constants DEF PressStop, TypeOK, agent, call
<1>4. ASSUME NEW s \in Sessions, SwitchSession(s) PROVE TypeOK'
  <2>1. stopped' \in [Chats -> BOOLEAN] /\ target' \subseteq Sessions /\ stopping' = "confirm"
    BY <1>4, <1>t DEF SwitchSession, TypeOK
  <2>2. switches' \in 0..MaxSwitches
    BY <1>4, <1>t, Constants DEF SwitchSession, TypeOK
  <2> QED BY <1>4, <1>t, <2>1, <2>2, Constants DEF SwitchSession, TypeOK, agent, call
<1>5. ASSUME NEW k \in Kinds, StopAnswer(k) PROVE TypeOK'
  <2>1. reply' \in [Chats -> {"none", "yes", "no", "dropped"}] /\ sender' \in [Kinds -> Slots]
    BY <1>5, <1>a DEF StopAnswer, Dropped, Slots
  <2>2. stopping' \in {"idle", "process"} \cup Kinds
    BY <1>5, Constants DEF StopAnswer
  <2> QED BY <1>5, <1>t, <2>1, <2>2 DEF StopAnswer, TypeOK, agent, ui, observed
<1>6. CASE StopProcess
  <2>1. child' \in [Chats -> {"none", "idle", "work", "over", "gone"} \cup Kinds] /\ process' \in Slots
    BY <1>6, <1>a DEF StopProcess, Killed, Slots
  <2>2. view' \in Sessions /\ inFlight' \in Slots /\ cards' \in Seq(Cards) /\ stopping' \in {"idle", "process"} \cup Kinds
    <3>1. CASE target \ {view} = {}
      BY <1>6, <1>a, <1>t, <3>1 DEF StopProcess, TypeOK
    <3>2. CASE target \ {view} # {}
      <4>1. /\ view' \in target /\ inFlight' = NoChat /\ cards' = <<>> /\ stopping' = "confirm"
        BY <1>6, <3>2 DEF StopProcess
      <4>2. <<>> \in Seq(Cards)
        BY EmptySeq
      <4> QED BY <1>t, <4>1, <4>2, Constants DEF TypeOK, Slots
    <3> QED BY <3>1, <3>2
  <2> QED BY <1>6, <1>t, <2>1, <2>2 DEF StopProcess, TypeOK, call, observed, Cards
<1>7. ASSUME NEW c \in Chats, Spawn(c) PROVE TypeOK'
  BY <1>7, <1>t DEF Spawn, At, TypeOK, ui, observed, Points
<1>8. ASSUME NEW c \in Chats, Store(c) PROVE TypeOK'
  BY <1>8, <1>t DEF Store, At, TypeOK, ui, agent, observed, Points, Slots
<1>9. ASSUME NEW c \in Chats, Request(c) PROVE TypeOK'
  <2>1. CASE Return(c) /\ UNCHANGED child
    BY <1>9, <1>t, <2>1, ReturnTyped DEF Request, TypeOK, observed, Cards
  <2>2. CASE At(c, "loop")
    <3>1. child' \in [Chats -> {"none", "idle", "work", "over", "gone"} \cup Kinds]
      BY <1>9, <1>a DEF Request
    <3> QED BY <1>9, <1>t, <2>2, <3>1, ReturnTyped DEF Request, At, Points, TypeOK, ui, observed, Cards
  <2> QED BY <1>9, <2>1, <2>2 DEF Request
<1>10. ASSUME NEW c \in Chats, Offer(c) PROVE TypeOK'
  <2>1. reply' \in [Chats -> {"none", "yes", "no", "dropped"}] /\ sender' \in [Kinds -> Slots]
    BY <1>10, <1>a DEF Offer, Dropped, Slots
  <2> QED BY <1>10, <1>t, <2>1 DEF Offer, At, TypeOK, agent, ui, observed, Points
<1>11. ASSUME NEW c \in Chats, Show(c) PROVE TypeOK'
  <2>1. queue[c] # <<>> /\ queue[c][1] \in Kinds /\ Head(queue[c]) = queue[c][1] /\ 1 \in 1..Len(queue[c])
    BY <1>11, <1>a, HeadAndTail, LenProperties DEF Show, Typed, Asked
  <2>2. asks[c] \in 1..MaxAsks
    BY <1>a, <2>1, Constants DEF Typed, Asked
  <2>3. PICK x \in Cards : x = [chat |-> c, kind |-> Head(queue[c]), n |-> asks[c]]
    BY <2>1, <2>2 DEF Cards
  <2>4. cards' \in Seq(Cards)
    BY <1>11, <1>a, <2>3, OneMore DEF Show
  <2> QED BY <1>11, <1>t, <2>4 DEF Show, At, TypeOK, agent, observed, Points, Cards
<1>12. ASSUME NEW c \in Chats, Resolve(c) PROVE TypeOK'
  <2>1. queue[c] # <<>> /\ Head(queue[c]) \in Kinds
    BY <1>12, <1>a, HeadAndTail DEF Resolve, Typed, Asked
  <2>2. queue' \in [Chats -> Seq(Events)]
    BY <1>12, <1>a, <2>1, HeadAndTail DEF Resolve
  <2>3. reply' \in [Chats -> {"none", "yes", "no", "dropped"}] /\ sender' \in [Kinds -> Slots]
    BY <1>12, <1>a DEF Resolve, Dropped, Slots
  <2>4. PICK x \in Lines : x = [method |-> Head(queue[c]), yes |-> Granted(reply[c])]
    <3>1. Granted(reply[c]) \in BOOLEAN
      BY DEF Granted
    <3>2. [method |-> Head(queue[c]), yes |-> Granted(reply[c])] \in Lines
      BY <2>1, <3>1 DEF Lines
    <3> QED BY <3>2
  <2>5. stdin' \in [Chats -> Seq(Lines)]
    BY <1>12, <1>a, <2>4, OneMore DEF Resolve
  <2> QED BY <1>12, <1>t, <2>2, <2>3, <2>5 DEF Resolve, At, TypeOK, ui, observed, Points, Lines
<1>13. ASSUME NEW c \in Chats, Forward(c) PROVE TypeOK'
  <2>1. queue' \in [Chats -> Seq(Events)]
    BY <1>13, <1>a, HeadAndTail DEF Forward
  <2>2. pc' \in [Chats -> Points] /\ unsettled' \in [Chats -> BOOLEAN]
    BY <1>13, <1>a, <1>t DEF Forward, At, Points, TypeOK
  <2> QED BY <1>13, <1>t, <2>1, <2>2 DEF Forward, TypeOK, ui
<1>14. ASSUME NEW c \in Chats, EndOfStream(c) PROVE TypeOK'
  BY <1>14, <1>t DEF EndOfStream, At, TypeOK, ui, agent, observed, Points
<1>15. ASSUME NEW c \in Chats, Leave(c) PROVE TypeOK'
  <2>1. CASE Return(c)
    BY <1>15, <1>t, <2>1, ReturnTyped DEF Leave, TypeOK, observed, Cards, Slots
  <2>2. CASE ~Return(c)
    BY <1>15, <1>t, <2>2 DEF Leave, At, TypeOK, ui, observed, Points, Slots
  <2> QED BY <2>1, <2>2
<1>16. ASSUME NEW c \in Chats, Reap(c) PROVE TypeOK'
  BY <1>16, <1>t, ReturnTyped DEF Reap, TypeOK, observed, Cards
<1>17. ASSUME NEW c \in Chats, NEW k \in Kinds, ChildAsks(c, k) PROVE TypeOK'
  <2>1. k \in Events
    BY DEF Events
  <2>2. /\ invalid' \in [Chats -> [run : 0..MaxConsecutive, all : 0..MaxTotal]]
        /\ queue' \in [Chats -> Seq(Events)]
    BY <1>17, <1>t, <1>a, <2>1, PrintsAdds DEF ChildAsks, Adds
  <2>3. child' \in [Chats -> {"none", "idle", "work", "over", "gone"} \cup Kinds]
    BY <1>17, <1>a DEF ChildAsks
  <2>4. asks' \in [Chats -> 0..MaxAsks]
    BY <1>17, <1>a, Constants DEF ChildAsks
  <2> QED BY <1>17, <1>t, <2>2, <2>3, <2>4 DEF ChildAsks, TypeOK, ui, call, observed
<1>18. ASSUME NEW c \in Chats, ChildReads(c) PROVE TypeOK'
  <2>1. stdin' \in [Chats -> Seq(Lines)]
    BY <1>18, <1>a, HeadAndTail DEF ChildReads
  <2>2. /\ child' \in [Chats -> {"none", "idle", "work", "over", "gone"} \cup Kinds]
        /\ answered' \in [Chats -> {"none", "yes", "no"}]
    BY <1>18, <1>a, <1>t DEF ChildReads, TypeOK
  <2> QED BY <1>18, <1>t, <2>1, <2>2 DEF ChildReads, TypeOK, ui, call, Lines
<1>19. ASSUME NEW c \in Chats, ChildDone(c) PROVE TypeOK'
  <2>1. "end" \in Events
    BY DEF Events
  <2>2. /\ invalid' \in [Chats -> [run : 0..MaxConsecutive, all : 0..MaxTotal]]
        /\ queue' \in [Chats -> Seq(Events)]
    BY <1>19, <1>t, <1>a, <2>1, PrintsAdds DEF ChildDone, Adds
  <2>3. child' \in [Chats -> {"none", "idle", "work", "over", "gone"} \cup Kinds]
    BY <1>19, <1>a DEF ChildDone
  <2> QED BY <1>19, <1>t, <2>2, <2>3 DEF ChildDone, TypeOK, ui, call, observed
<1>20. ASSUME NEW c \in Chats, ChildExits(c) \/ ChildCrashes(c) PROVE TypeOK'
  <2>1. child' \in [Chats -> {"none", "idle", "work", "over", "gone"} \cup Kinds]
    BY <1>20, <1>a DEF ChildExits, ChildCrashes
  <2> QED BY <1>20, <1>t, <2>1 DEF ChildExits, ChildCrashes, TypeOK, ui, call, observed
<1>21. ASSUME NEW c \in Chats, ChildNoise(c) PROVE TypeOK'
  <2>1. /\ invalid' \in [Chats -> [run : 0..MaxConsecutive, all : 0..MaxTotal]]
        /\ queue' \in [Chats -> Seq(Events)]
    BY <1>21, <1>t, NoiseAdds DEF Adds
  <2> QED BY <1>21, <1>t, <2>1 DEF ChildNoise, TypeOK, ui, call, observed
<1>22. CASE UNCHANGED vars
  BY <1>22, <1>t DEF vars, ui, call, agent, observed, TypeOK
<1> QED BY <1>1, <1>2, <1>3, <1>4, <1>5, <1>6, <1>7, <1>8, <1>9, <1>10, <1>11, <1>12, <1>13, <1>14,
           <1>15, <1>16, <1>17, <1>18, <1>19, <1>20, <1>21, <1>22
        DEF Next, Thread, Child, Stop, User, Responds, Rest

LEMMA AddsAsked ==
  ASSUME Typed, NEW c \in Chats, NEW es \in Seq(Events), Adds(c, es),
         pc'[c] \in {"show", "wait"} => pc[c] \in {"show", "wait"},
         asks'[c] \in Nat, asks'[c] >= asks[c], \A i \in 1..Len(es) : es[i] \in Kinds => asks'[c] >= 1
  PROVE  Asked(c)'
<1>1. /\ queue[c] \in Seq(Events) /\ Len(queue[c]) \in Nat /\ Len(es) \in Nat /\ asks[c] \in Nat
      /\ queue'[c] \in Seq(Events) /\ queue[c] # <<>> => Len(queue[c]) >= 1
  BY Constants, LenProperties, EmptySeq DEF Typed, TypeOK, Adds
<1>2. /\ Len(queue'[c]) = Len(queue[c]) + Len(es)
      /\ \A i \in 1..Len(queue[c]) : queue'[c][i] = queue[c][i]
      /\ \A i \in 1..Len(es) : queue'[c][Len(queue[c]) + i] = es[i]
  BY DEF Adds
<1>3. ASSUME NEW i \in 1..Len(queue'[c]), queue'[c][i] \in Kinds PROVE asks'[c] >= 1
  <2>1. CASE i \in 1..Len(queue[c])
    BY <1>1, <1>2, <1>3, <2>1 DEF Typed, Asked
  <2>2. CASE i \notin 1..Len(queue[c])
    <3>1. i - Len(queue[c]) \in 1..Len(es) /\ Len(queue[c]) + (i - Len(queue[c])) = i
      BY <1>1, <1>2, <2>2
    <3>2. queue'[c][i] = es[i - Len(queue[c])]
      BY <1>2, <3>1
    <3> QED BY <1>3, <3>1, <3>2
  <2> QED BY <2>1, <2>2
<1>4. pc'[c] \in {"show", "wait"} => queue'[c] # <<>> /\ queue'[c][1] \in Kinds
  <2> SUFFICES ASSUME pc'[c] \in {"show", "wait"} PROVE queue'[c] # <<>> /\ queue'[c][1] \in Kinds
    OBVIOUS
  <2>1. queue[c] # <<>> /\ queue[c][1] \in Kinds
    BY DEF Typed, Asked
  <2>2. queue'[c][1] = queue[c][1] /\ Len(queue'[c]) >= 1
    BY <1>1, <1>2, <2>1
  <2> QED BY <2>1, <2>2, EmptySeq
<1> QED BY <1>3, <1>4 DEF Asked

LEMMA AskedStep == Typed /\ [Next]_vars => \A c \in Chats : Asked(c)'
<1> SUFFICES ASSUME Typed, [Next]_vars, NEW d \in Chats PROVE Asked(d)'
  OBVIOUS
<1>t. TypeOK /\ asks[d] \in Nat /\ queue[d] \in Seq(Events) /\ Len(queue[d]) \in Nat
  <2>1. TypeOK /\ asks[d] \in 0..MaxAsks /\ queue[d] \in Seq(Events)
    BY DEF Typed, TypeOK
  <2> QED BY <2>1, Constants, LenProperties
<1>a. /\ pc \in [Chats -> Points] /\ queue \in [Chats -> Seq(Events)] /\ asks \in [Chats -> 0..MaxAsks]
  BY DEF Typed, TypeOK
\* Steps that neither show a request nor change the queue of the call.
<1>k. ASSUME queue'[d] = queue[d], asks'[d] = asks[d], pc'[d] \in {"show", "wait"} => pc[d] \in {"show", "wait"}
      PROVE  Asked(d)'
  BY <1>k, <1>t, AskedKeeps
<1>1. ASSUME NEW c \in Chats, Send(c) PROVE Asked(d)'
  BY <1>1, <1>a, <1>k DEF Send, At, agent
<1>2. ASSUME NEW i \in DOMAIN cards, NEW yes, yes \in BOOLEAN, Respond(i, yes) PROVE Asked(d)'
  BY <1>2, <1>k DEF Respond, agent
<1>3. CASE PressStop \/ \E s \in Sessions : SwitchSession(s)
  BY <1>3, <1>k DEF PressStop, SwitchSession, agent, call
<1>4. CASE StopProcess \/ \E k \in Kinds : StopAnswer(k)
  BY <1>4, <1>k DEF StopAnswer, StopProcess, agent, call
<1>5. ASSUME NEW c \in Chats, Spawn(c) \/ Store(c) \/ EndOfStream(c) PROVE Asked(d)'
  BY <1>5, <1>a, <1>k DEF Spawn, Store, EndOfStream, At, agent
<1>6. ASSUME NEW c \in Chats, Return(c), UNCHANGED asks PROVE Asked(d)'
  <2>1. CASE c = d
    BY <1>6, <1>t, <2>1, ReturnTyped DEF Asked
  <2>2. CASE c # d
    BY <1>6, <1>t, <1>k, <2>2, ReturnTyped
  <2> QED BY <2>1, <2>2
<1>7. ASSUME NEW c \in Chats, Request(c) PROVE Asked(d)'
  BY <1>6, <1>7, <1>a, <1>k DEF Request, At
<1>8. ASSUME NEW c \in Chats, Offer(c) PROVE Asked(d)'
  <2>1. CASE c = d
    <3>1. queue[d] # <<>> /\ queue[d][1] \in Kinds
      BY <1>8, <1>a, <2>1, HeadAndTail DEF Offer
    <3> QED BY <1>8, <3>1 DEF Offer, agent, Asked, Typed
  <2>2. CASE c # d
    BY <1>8, <1>a, <1>k, <2>2 DEF Offer, At, agent
  <2> QED BY <2>1, <2>2
<1>9. ASSUME NEW c \in Chats, Show(c) PROVE Asked(d)'
  BY <1>9, <1>a, <1>k DEF Show, At, agent
\* The head of the queue is handled.
<1>10. ASSUME NEW c \in Chats, queue[c] # <<>>, queue' = [queue EXCEPT ![c] = Tail(@)], UNCHANGED asks,
              \A e \in Chats \ {c} : pc'[e] = pc[e], pc'[c] \notin {"show", "wait"}
       PROVE  Asked(d)'
  <2>1. CASE c = d
    <3>1. Tail(queue[d]) = queue'[d] /\ pc'[d] \notin {"show", "wait"}
      BY <1>10, <1>a, <2>1
    <3>q. queue[d] # <<>> /\ queue[d] \in Seq(Events)
      BY <1>10, <1>t, <2>1
    <3>h. /\ Len(Tail(queue[d])) = Len(queue[d]) - 1 /\ Len(queue[d]) >= 1
          /\ \A i \in 1..Len(Tail(queue[d])) : Tail(queue[d])[i] = queue[d][i + 1]
      BY <3>q, HeadAndTail
    <3>2. /\ Len(queue'[d]) = Len(queue[d]) - 1 /\ Len(queue[d]) >= 1
          /\ \A i \in 1..Len(queue'[d]) : queue'[d][i] = queue[d][i + 1]
      BY <3>1, <3>h
    <3> QED BY <1>10, <1>t, <3>1, <3>2 DEF Asked, Typed
  <2>2. CASE c # d
    BY <1>10, <1>a, <1>k, <2>2
  <2> QED BY <2>1, <2>2
<1>11. ASSUME NEW c \in Chats, Resolve(c) PROVE Asked(d)'
  <2>1. queue[c] # <<>>
    BY <1>11 DEF Resolve, Typed, Asked
  <2>2. (\A e \in Chats \ {c} : pc'[e] = pc[e]) /\ pc'[c] = "loop"
    BY <1>11, <1>a DEF Resolve, At
  <2> QED BY <1>10, <1>11, <2>1, <2>2 DEF Resolve
<1>12. ASSUME NEW c \in Chats, Forward(c) PROVE Asked(d)'
  <2>2. (\A e \in Chats \ {c} : pc'[e] = pc[e]) /\ pc'[c] \in {"leave", "loop"}
    BY <1>12, <1>a DEF Forward, At
  <2> QED BY <1>10, <1>12, <2>2 DEF Forward
<1>13. ASSUME NEW c \in Chats, Leave(c) PROVE Asked(d)'
  BY <1>6, <1>13, <1>a, <1>k DEF Leave, At
<1>14. ASSUME NEW c \in Chats, Reap(c) PROVE Asked(d)'
  BY <1>6, <1>14 DEF Reap
\* The child prints something.
<1>15. ASSUME NEW c \in Chats, NEW es \in Seq(Events), Adds(c, es), UNCHANGED pc,
              \A e \in Chats \ {c} : asks'[e] = asks[e],
              asks'[c] \in Nat, asks'[c] >= asks[c], \A i \in 1..Len(es) : es[i] \in Kinds => asks'[c] >= 1
       PROVE  Asked(d)'
  <2>1. CASE c # d
    BY <1>15, <1>k, <1>t, <2>1 DEF Adds
  <2>2. CASE c = d
    BY <1>15, <2>2, AddsAsked
  <2> QED BY <2>1, <2>2
<1>p. ASSUME NEW c \in Chats, NEW ev \in Events, Prints(c, ev), UNCHANGED pc,
             \A e \in Chats \ {c} : asks'[e] = asks[e],
             asks'[c] \in Nat, asks'[c] >= asks[c], ev \in Kinds => asks'[c] >= 1
      PROVE  Asked(d)'
  <2>1. CASE UNCHANGED queue
    <3>1. asks'[d] >= asks[d] /\ asks'[d] \in Nat
      BY <1>p, <1>t
    <3> QED BY <1>p, <2>1, <3>1, AskedKeeps
  <2>2. CASE Adds(c, Said(c, ev))
    <3>1. /\ Said(c, ev) \in Seq(Events)
          /\ \A i \in 1..Len(Said(c, ev)) : Said(c, ev)[i] \in {"recovered", ev}
      BY SaidIs
    <3>2. \A i \in 1..Len(Said(c, ev)) : Said(c, ev)[i] \in Kinds => asks'[c] >= 1
      BY <1>p, <3>1 DEF Kinds
    <3> QED BY <1>15, <1>p, <2>2, <3>1, <3>2
  <2> QED BY <1>p, <1>t, <2>1, <2>2, PrintsAdds
<1>16. ASSUME NEW c \in Chats, NEW k \in Kinds, ChildAsks(c, k) PROVE Asked(d)'
  <2>1. k \in Events /\ asks[c] \in Nat
    BY <1>a, Constants DEF Events
  <2>2. Prints(c, k) /\ UNCHANGED pc
    BY <1>16 DEF ChildAsks, call
  <2>3. \A e \in Chats \ {c} : asks'[e] = asks[e]
    BY <1>16, <1>a DEF ChildAsks
  <2>4. asks'[c] = asks[c] + 1
    BY <1>16, <1>a DEF ChildAsks
  <2>5. asks'[c] \in Nat /\ asks'[c] >= asks[c] /\ asks'[c] >= 1
    BY <2>1, <2>4
  <2> QED BY <1>p, <2>1, <2>2, <2>3, <2>5
<1>17. ASSUME NEW c \in Chats, ChildDone(c) PROVE Asked(d)'
  <2>1. "end" \in Events /\ "end" \notin Kinds /\ asks[c] \in Nat
    BY <1>a, Constants DEF Events, Kinds
  <2> QED BY <1>p, <1>17, <2>1 DEF ChildDone, call
<1>18. ASSUME NEW c \in Chats, ChildReads(c) \/ ChildExits(c) \/ ChildCrashes(c) PROVE Asked(d)'
  BY <1>18, <1>k DEF ChildReads, ChildExits, ChildCrashes, call
<1>19. ASSUME NEW c \in Chats, ChildNoise(c) PROVE Asked(d)'
  <2>1. asks[c] \in Nat
    BY <1>a, Constants
  <2>2. Noise(c) \in Seq(Events) /\ \A i \in 1..Len(Noise(c)) : Noise(c)[i] \notin Kinds
    BY NoiseIs DEF Kinds
  <2>3. Adds(c, Noise(c))
    BY <1>19, <1>t, NoiseAdds
  <2>4. UNCHANGED <<asks, pc>>
    BY <1>19 DEF ChildNoise, call
  <2>5. (\A i \in 1..Len(Noise(c)) : Noise(c)[i] \in Kinds => asks'[c] >= 1) /\ asks'[c] >= asks[c] /\ asks'[c] \in Nat
    BY <2>1, <2>2, <2>4
  <2> QED BY <1>15, <2>2, <2>3, <2>4, <2>5
<1>22. CASE UNCHANGED vars
  BY <1>22, <1>k DEF vars, call, agent
<1> QED BY <1>1, <1>2, <1>3, <1>4, <1>5, <1>7, <1>8, <1>9, <1>11, <1>12, <1>13, <1>14,
           <1>16, <1>17, <1>18, <1>19, <1>22
        DEF Next, Thread, Child, Stop, User, Responds, Rest

LEMMA TypedStep == Typed /\ [Next]_vars => Typed'
BY TypeStep, AskedStep DEF Typed

\* Every variable keeps its type, and the reader its limits, for any number of
\* chats, requests and invalid lines.
THEOREM TypeCorrect == Spec => []TypeOK
<1>1. Typed => TypeOK
  BY DEF Typed
<1> QED BY <1>1, TypedInit, TypedStep, PTL DEF Spec

-----------------------------------------------------------------------------
(* Which call moves. *)

Acts(c) == \A d \in Chats \ {c} : pc'[d] = pc[d]

LEMMA ReturnActs ==
  ASSUME TypeOK, NEW c \in Chats, Return(c)
  PROVE  Acts(c) /\ pc'[c] = "done"
BY ReturnTyped DEF Acts

LEMMA AtActs ==
  ASSUME TypeOK, NEW c \in Chats, NEW l, At(c, l)
  PROVE  Acts(c) /\ pc'[c] = l
BY DEF Acts, At, TypeOK

\* Where each step of a call takes it.
LEMMA ThreadActs ==
  ASSUME Typed, NEW c \in Chats, Thread(c)
  PROVE  /\ Acts(c) /\ ~Over(c) /\ pc'[c] \notin {"unsent", "spawn"}
         /\ \A d \in Chats \ {c} : child'[d] = child[d]
<1>t. TypeOK /\ child \in [Chats -> {"none", "idle", "work", "over", "gone"} \cup Kinds]
  BY DEF Typed, TypeOK
<1>1. CASE Spawn(c)
  BY <1>1, <1>t, AtActs DEF Spawn, Over
<1>2. CASE Store(c)
  BY <1>2, <1>t, AtActs DEF Store, Over, agent
<1>3. CASE Request(c)
  BY <1>3, <1>t, AtActs, ReturnActs DEF Request, Over
<1>4. CASE Offer(c)
  BY <1>4, <1>t, AtActs DEF Offer, Over, agent
<1>5. CASE Show(c)
  BY <1>5, <1>t, AtActs DEF Show, Over, agent
<1>6. CASE Resolve(c)
  BY <1>6, <1>t, AtActs DEF Resolve, Over
<1>7. CASE Forward(c)
  <2>1. Acts(c) /\ pc'[c] \in {"leave", "loop"}
    BY <1>7, <1>t, AtActs DEF Forward
  <2> QED BY <1>7, <2>1 DEF Forward, Over
<1>8. CASE EndOfStream(c)
  BY <1>8, <1>t, AtActs DEF EndOfStream, Over, agent
<1>9. CASE Leave(c)
  BY <1>9, <1>t, AtActs, ReturnActs DEF Leave, Over
<1>10. CASE Reap(c)
  BY <1>10, <1>t, ReturnActs DEF Reap, Over
<1> QED BY <1>1, <1>2, <1>3, <1>4, <1>5, <1>6, <1>7, <1>8, <1>9, <1>10 DEF Thread

LEMMA SendActs ==
  ASSUME TypeOK, NEW c \in Chats, Send(c)
  PROVE  Acts(c) /\ pc[c] = "unsent" /\ pc'[c] = "spawn"
BY AtActs DEF Send

LEMMA NobodyActs ==
  ASSUME [Next]_vars, ~\E c \in Chats : Thread(c) \/ Send(c)
  PROVE  UNCHANGED pc
<1>1. ASSUME NEW c \in Chats, Child(c) \/ ChildCrashes(c) PROVE UNCHANGED pc
  BY <1>1 DEF Child, ChildAsks, ChildReads, ChildDone, ChildExits, ChildNoise, ChildCrashes, call
<1>2. ASSUME Stop PROVE UNCHANGED pc
  BY <1>2 DEF Stop, StopAnswer, StopProcess, call
<1>3. ASSUME Responds \/ PressStop \/ \E s \in Sessions : SwitchSession(s) PROVE UNCHANGED pc
  BY <1>3 DEF Responds, Respond, PressStop, SwitchSession, call
<1>4. ASSUME UNCHANGED vars PROVE UNCHANGED pc
  BY <1>4 DEF vars, call
<1> QED BY <1>1, <1>2, <1>3, <1>4 DEF Next, User, Rest

(* Children. *)

Single == \A c, d \in Chats : ~Over(c) /\ ~Over(d) => c = d

\* The child of the call under way is in the slot, or is waited for, or is gone.
Owned(c) ==
  /\ pc[c] \in {"unsent", "spawn"} => child[c] = "none"
  /\ pc[c] \in {"request", "loop", "show", "wait", "leave"} => process = c \/ child[c] = "gone"
  /\ pc[c] = "reap" => reaping[c] = c \/ child[c] = "gone"
  /\ pc[c] = "done" => child[c] \in {"none", "gone"}

Stored == process # NoChat => pc[process] \notin {"unsent", "spawn"}

Children == Typed /\ Single /\ Stored /\ \A c \in Chats : Owned(c)

LEMMA SingleStep ==
  ASSUME Unhurried, Typed, Single, [Next]_vars
  PROVE  Single'
<1>1. ASSUME NEW c \in Chats, Thread(c) PROVE Single'
  BY <1>1, ThreadActs DEF Single, Acts, Over
<1>2. ASSUME NEW c \in Chats, Send(c) PROVE Single'
  <2>1. \A d \in Chats : Over(d)
    BY <1>2 DEF Send, Unhurried
  <2> QED BY <1>2, <2>1, SendActs DEF Single, Acts, Over, Typed
<1>3. CASE UNCHANGED pc
  BY <1>3 DEF Single, Over
<1> QED BY <1>1, <1>2, <1>3, NobodyActs

LEMMA StoredStep ==
  ASSUME Typed, Stored, [Next]_vars
  PROVE  Stored'
<1>t. TypeOK /\ process \in Slots /\ Slots = Chats \cup {NoChat} /\ NoChat \notin Chats
  BY Constants DEF Typed, TypeOK
<1>1. ASSUME NEW c \in Chats, Thread(c) PROVE Stored'
  <2>1. process' \in {process, c, NoChat}
    BY <1>1 DEF Thread, Spawn, Store, Request, Offer, Show, Resolve, Forward, EndOfStream, Leave, Reap
  <2> QED BY <1>1, <1>t, <2>1, ThreadActs DEF Stored, Acts
<1>2. ASSUME NEW c \in Chats, Send(c) PROVE Stored'
  BY <1>2, <1>t, SendActs DEF Stored, Acts, Send
<1>3. CASE ~\E c \in Chats : Thread(c) \/ Send(c)
  <2>1. UNCHANGED pc
    BY <1>3, NobodyActs
  <2>2. process' \in {process, NoChat}
    <3>1. ASSUME NEW c \in Chats, Child(c) \/ ChildCrashes(c) PROVE UNCHANGED process
      BY <3>1 DEF Child, ChildAsks, ChildReads, ChildDone, ChildExits, ChildNoise, ChildCrashes
    <3>2. ASSUME Stop PROVE process' \in {process, NoChat}
      BY <3>2 DEF Stop, StopAnswer, StopProcess
    <3>3. ASSUME Responds \/ PressStop \/ \E s \in Sessions : SwitchSession(s) PROVE UNCHANGED process
      BY <3>3 DEF Responds, Respond, PressStop, SwitchSession
    <3> QED BY <1>3, <3>1, <3>2, <3>3 DEF Next, User, Rest, vars
  <2> QED BY <2>1, <2>2 DEF Stored
<1> QED BY <1>1, <1>2, <1>3

LEMMA OwnedStep ==
  ASSUME Unhurried, Children, [Next]_vars, NEW d \in Chats
  PROVE  Owned(d)'
<1>t. /\ TypeOK /\ Typed /\ Single /\ Stored /\ Owned(d)
      /\ process \in Slots /\ Slots = Chats \cup {NoChat} /\ NoChat \notin Chats
      /\ child \in [Chats -> {"none", "idle", "work", "over", "gone"} \cup Kinds]
      /\ reaping \in [Chats -> Slots]
  BY Constants DEF Children, Typed, TypeOK
\* Another call acts: this one is not under way.
<1>1. ASSUME NEW c \in Chats, Thread(c), c # d PROVE Owned(d)'
  <2>1. Over(d) /\ pc'[d] = pc[d] /\ child'[d] = child[d]
    BY <1>1, <1>t, ThreadActs DEF Single, Acts
  <2> QED BY <1>t, <2>1 DEF Owned, Over
\* What is left of the call has no child.
<1>r. ASSUME Return(d), child[d] = "gone", UNCHANGED child PROVE Owned(d)'
  BY <1>r, <1>t, ReturnActs DEF Owned
<1>2. ASSUME Thread(d) PROVE Owned(d)'
  <2>1. CASE Spawn(d)
    BY <1>t, <2>1, AtActs DEF Spawn, Owned
  <2>2. CASE Store(d)
    BY <1>t, <2>2, AtActs DEF Store, Owned
  <2>3. CASE Request(d)
    <3>1. CASE At(d, "loop")
      <4>1. child[d] = "gone" => child'[d] = "gone"
        BY <1>t, <2>3 DEF Request
      <4> QED BY <1>t, <2>3, <3>1, <4>1, AtActs DEF Request, Owned
    <3>2. CASE child[d] = "gone" /\ Return(d) /\ UNCHANGED child
      BY <1>r, <3>2
    <3> QED BY <2>3, <3>1, <3>2 DEF Request
  <2>4. CASE Offer(d)
    BY <1>t, <2>4, AtActs DEF Offer, Owned, agent
  <2>5. CASE Show(d)
    BY <1>t, <2>5, AtActs DEF Show, Owned, agent
  <2>6. CASE Resolve(d)
    BY <1>t, <2>6, AtActs DEF Resolve, Owned
  <2>7. CASE Forward(d)
    <3>1. pc'[d] \in {"leave", "loop"} /\ pc[d] = "loop" /\ UNCHANGED <<process, child>>
      BY <1>t, <2>7, AtActs DEF Forward
    <3> QED BY <1>t, <3>1 DEF Owned
  <2>8. CASE EndOfStream(d)
    BY <1>t, <2>8, AtActs DEF EndOfStream, Owned, agent
  <2>9. CASE Leave(d)
    <3>1. CASE process = NoChat
      BY <1>t, <1>r, <2>9, <3>1 DEF Leave, Owned
    <3>2. CASE process # NoChat
      <4>1. pc[d] = "leave" /\ pc'[d] = "reap" /\ reaping'[d] = process /\ UNCHANGED child
        BY <1>t, <2>9, <3>2, AtActs DEF Leave
      <4> QED BY <1>t, <4>1 DEF Owned
    <3> QED BY <3>1, <3>2
  <2>10. CASE Reap(d)
    <3>1. child[d] = "gone"
      BY <1>t, <2>10 DEF Reap, Owned
    <3> QED BY <1>r, <2>10, <3>1 DEF Reap
  <2> QED BY <1>2, <2>1, <2>2, <2>3, <2>4, <2>5, <2>6, <2>7, <2>8, <2>9, <2>10 DEF Thread
<1>3. ASSUME NEW c \in Chats, Send(c) PROVE Owned(d)'
  <2>1. CASE c = d
    BY <1>3, <1>t, <2>1, SendActs DEF Owned, Send, agent
  <2>2. CASE c # d
    BY <1>3, <1>t, <2>2, SendActs DEF Owned, Send, agent, Acts
  <2> QED BY <2>1, <2>2
\* The child stays as it is, or goes on; one that is gone stays so.
<1>k. ASSUME UNCHANGED <<pc, process, reaping>>,
             \/ child'[d] = child[d]
             \/ child[d] \notin {"none", "gone"}
      PROVE  Owned(d)'
  BY <1>k, <1>t DEF Owned
<1>4. ASSUME NEW c \in Chats, Child(c) \/ ChildCrashes(c) PROVE Owned(d)'
  <2>1. /\ child'[d] = child[d] \/ child[d] \notin {"none", "gone"}
        /\ UNCHANGED <<pc, process, reaping>>
    BY <1>4, <1>t DEF Child, ChildAsks, ChildReads, ChildDone, ChildExits, ChildNoise, ChildCrashes, call, Kinds
  <2> QED BY <1>k, <2>1
<1>5. ASSUME NEW k \in Kinds, StopAnswer(k) PROVE Owned(d)'
  BY <1>5, <1>k DEF StopAnswer, agent
<1>6. CASE StopProcess
  <2>1. UNCHANGED <<pc, reaping>> /\ process' = NoChat /\ child'[d] = IF d = process THEN "gone" ELSE child[d]
    BY <1>6 DEF StopProcess, Killed, call
  <2> QED BY <1>t, <2>1 DEF Owned, Stored
<1>7. CASE Responds \/ PressStop \/ (\E s \in Sessions : SwitchSession(s)) \/ UNCHANGED vars
  BY <1>7, <1>k DEF Responds, Respond, PressStop, SwitchSession, agent, call, vars
<1> QED BY <1>1, <1>2, <1>3, <1>4, <1>5, <1>6, <1>7 DEF Next, Stop, User, Rest

LEMMA ChildrenInit == Init => Children
<1> SUFFICES ASSUME Init PROVE Children
  OBVIOUS
<1>1. Typed
  BY TypedInit
<1>2. Single /\ Stored /\ \A c \in Chats : Owned(c)
  BY DEF Init, Single, Over, Stored, Owned
<1> QED BY <1>1, <1>2 DEF Children

LEMMA ChildrenStep == Unhurried /\ Children /\ [Next]_vars => Children'
<1> SUFFICES ASSUME Unhurried, Children, [Next]_vars PROVE Children'
  OBVIOUS
<1>1. Typed' /\ Single' /\ Stored'
  BY TypedStep, SingleStep, StoredStep DEF Children
<1>2. \A c \in Chats : Owned(c)'
  BY OwnedStep
<1> QED BY <1>1, <1>2 DEF Children

\* A call that has returned leaves no child running, however stops, switches,
\* crashes and ends of streams fall, as long as one call is under way at a time.
THEOREM NoChildOutlivesItsCall ==
  ASSUME Unhurried
  PROVE  Spec => []ChildrenReaped
<1>1. Children => ChildrenReaped
  BY DEF Children, Owned, ChildrenReaped
<1>2. Children /\ [Next]_vars => Children'
  BY ChildrenStep
<1> QED BY <1>1, <1>2, ChildrenInit, PTL DEF Spec

-----------------------------------------------------------------------------
(* Warnings. *)

Settles == {"recovered", "corrupt"}

\* A warning is followed by its recovery, or is the last of an open run.
Settling(c) ==
  /\ pc[c] = "unsent" => queue[c] = <<>> /\ ~unsettled[c]
  /\ ~Over(c) =>
       LET q == queue[c] IN
       /\ \A i \in 1..Len(q) : q[i] = "warning" =>
            IF i = Len(q) THEN invalid[c].run > 0 ELSE q[i + 1] \in Settles
       /\ unsettled[c] => IF q = <<>> THEN invalid[c].run > 0 ELSE q[1] \in Settles

Settled == Typed /\ \A c \in Chats : Settling(c)

\* More events come to the end of a queue.
LEMMA AddsSettling ==
  ASSUME Typed, NEW c \in Chats, Settling(c), ~Over(c), UNCHANGED <<pc, unsettled>>,
         NEW es \in Seq(Events), Adds(c, es), invalid'[c].run \in Nat,
         Len(es) = 0 => (invalid[c].run > 0 => invalid'[c].run > 0),
         Len(es) > 0 => (invalid[c].run > 0 => es[1] \in Settles),
         \A i \in 1..Len(es) : es[i] = "warning" => IF i = Len(es) THEN invalid'[c].run > 0 ELSE es[i + 1] \in Settles
  PROVE  Settling(c)'
<1> DEFINE q == queue[c]
           r == queue'[c]
<1>1. /\ q \in Seq(Events) /\ Len(q) \in Nat /\ Len(es) \in Nat /\ (q = <<>> <=> Len(q) = 0)
      /\ r \in Seq(Events) /\ Len(r) \in Nat /\ (r = <<>> <=> Len(r) = 0)
  BY LenProperties, EmptySeq DEF Typed, TypeOK, Adds
<1>2. /\ Len(r) = Len(q) + Len(es)
      /\ \A i \in 1..Len(q) : r[i] = q[i]
      /\ \A i \in 1..Len(es) : r[Len(q) + i] = es[i]
  BY DEF Adds
<1>3. /\ \A i \in 1..Len(q) : q[i] = "warning" => IF i = Len(q) THEN invalid[c].run > 0 ELSE q[i + 1] \in Settles
      /\ unsettled[c] => IF q = <<>> THEN invalid[c].run > 0 ELSE q[1] \in Settles
  BY DEF Settling
<1> HIDE DEF q, r
<1>4. ASSUME NEW i \in 1..Len(r), r[i] = "warning"
      PROVE  IF i = Len(r) THEN invalid'[c].run > 0 ELSE r[i + 1] \in Settles
  <2>1. CASE i \in 1..Len(q) /\ i # Len(q)
    <3>1. i + 1 \in 1..Len(q) /\ i # Len(r)
      BY <1>1, <1>2, <2>1
    <3> QED BY <1>2, <1>3, <1>4, <2>1, <3>1
  <2>2. CASE i = Len(q)
    <3>1. i \in 1..Len(q) /\ q[i] = "warning" /\ invalid[c].run > 0
      BY <1>1, <1>2, <1>3, <1>4, <2>2
    <3>2. CASE Len(es) = 0
      BY <1>1, <1>2, <2>2, <3>1, <3>2
    <3>3. CASE Len(es) > 0
      <4>1. 1 \in 1..Len(es) /\ i # Len(r)
        BY <1>1, <1>2, <2>2, <3>3
      <4>2. r[i + 1] = es[1]
        BY <1>2, <2>2, <4>1
      <4> QED BY <3>1, <3>3, <4>1, <4>2
    <3> QED BY <1>1, <3>2, <3>3
  <2>3. CASE i \notin 1..Len(q)
    <3>0. i - Len(q) \in 1..Len(es)
      BY <1>1, <1>2, <2>3
    <3>1. PICK j \in 1..Len(es) : j = i - Len(q)
      BY <3>0
    <3>2. i = Len(q) + j /\ (i = Len(r) <=> j = Len(es)) /\ (j # Len(es) => j + 1 \in 1..Len(es))
      BY <1>1, <1>2, <3>1
    <3>3. es[j] = "warning" /\ (j # Len(es) => r[Len(q) + (j + 1)] = es[j + 1])
      BY <1>2, <1>4, <3>2
    <3>4. i + 1 = Len(q) + (j + 1)
      BY <1>1, <3>2
    <3> QED BY <3>2, <3>3, <3>4
  <2> QED BY <2>1, <2>2, <2>3
<1>5. ASSUME unsettled[c]
      PROVE  IF r = <<>> THEN invalid'[c].run > 0 ELSE r[1] \in Settles
  <2>1. CASE Len(q) = 0 /\ Len(es) = 0
    BY <1>1, <1>2, <1>3, <1>5, <2>1
  <2>2. CASE Len(q) = 0 /\ Len(es) > 0
    <3>1. r[1] = es[1] /\ r # <<>>
      <4>1. 1 \in 1..Len(es) /\ Len(q) + 1 = 1
        BY <1>1, <2>2
      <4> QED BY <1>1, <1>2, <2>2, <4>1
    <3> QED BY <1>1, <1>3, <1>5, <2>2, <3>1
  <2>3. CASE Len(q) # 0
    <3>1. 1 \in 1..Len(q) /\ r # <<>>
      BY <1>1, <1>2, <2>3
    <3> QED BY <1>1, <1>2, <1>3, <1>5, <2>3, <3>1
  <2> QED BY <1>1, <2>1, <2>2, <2>3
<1>6. ~Over(c)' /\ pc'[c] # "unsent" /\ unsettled'[c] = unsettled[c]
  BY DEF Over
<1> QED BY <1>4, <1>5, <1>6 DEF Settling, r

\* The head of a queue is handled.
LEMMA TailSettling ==
  ASSUME Typed, NEW c \in Chats, Settling(c), ~Over(c), queue[c] # <<>>,
         queue'[c] = Tail(queue[c]), invalid'[c] = invalid[c], pc'[c] # "unsent",
         \/ unsettled'[c] = unsettled[c] /\ queue[c][1] \in Kinds
         \/ unsettled'[c] = (queue[c][1] = "warning")
  PROVE  Settling(c)'
<1> DEFINE q == queue[c]
           r == queue'[c]
<1>1. q \in Seq(Events) /\ Len(q) \in Nat /\ q # <<>>
  BY LenProperties DEF Typed, TypeOK
<1>2. r \in Seq(Events) /\ Len(q) >= 1 /\ Len(r) = Len(q) - 1 /\ \A i \in 1..Len(r) : r[i] = q[i + 1]
  BY <1>1, HeadAndTail
<1>3. /\ \A i \in 1..Len(q) : q[i] = "warning" => IF i = Len(q) THEN invalid[c].run > 0 ELSE q[i + 1] \in Settles
      /\ unsettled[c] => q[1] \in Settles
  BY DEF Settling
<1>4. (r = <<>> <=> Len(r) = 0) /\ Kinds \cap Settles = {}
  BY <1>2, EmptySeq DEF Kinds, Settles
<1> HIDE DEF q, r
<1>5. ASSUME NEW i \in 1..Len(r), r[i] = "warning"
      PROVE  IF i = Len(r) THEN invalid'[c].run > 0 ELSE r[i + 1] \in Settles
  <2>1. i + 1 \in 1..Len(q) /\ q[i + 1] = "warning" /\ (i = Len(r) <=> i + 1 = Len(q))
    BY <1>1, <1>2, <1>5
  <2>2. i # Len(r) => i + 1 \in 1..Len(r) /\ r[i + 1] = q[(i + 1) + 1]
    BY <1>1, <1>2, <1>5
  <2> QED BY <1>3, <2>1, <2>2
<1>6. ASSUME unsettled'[c]
      PROVE  IF r = <<>> THEN invalid'[c].run > 0 ELSE r[1] \in Settles
  <2>1. q[1] = "warning"
    BY <1>3, <1>4, <1>6 DEF q
  <2>2. 1 \in 1..Len(q) /\ (r = <<>> <=> Len(q) = 1) /\ (r # <<>> => r[1] = q[1 + 1])
    BY <1>1, <1>2, <1>4
  <2> QED BY <1>3, <2>1, <2>2
<1> QED BY <1>5, <1>6 DEF Settling, r

LEMMA SettlingStep ==
  ASSUME Settled, [Next]_vars, NEW d \in Chats
  PROVE  Settling(d)'
<1>t. TypeOK /\ Typed /\ Settling(d) /\ queue \in [Chats -> Seq(Events)] /\ unsettled \in [Chats -> BOOLEAN]
  BY DEF Settled, Typed, TypeOK
<1>k. ASSUME queue'[d] = queue[d], unsettled'[d] = unsettled[d], invalid'[d] = invalid[d],
             pc'[d] = "unsent" => pc[d] = "unsent", ~Over(d)' => ~Over(d)
      PROVE  Settling(d)'
  BY <1>k, <1>t DEF Settling
<1>o. ASSUME pc'[d] = "done" PROVE Settling(d)'
  BY <1>o DEF Settling, Over
<1>1. ASSUME NEW c \in Chats, Send(c) PROVE Settling(d)'
  <2>1. UNCHANGED <<queue, unsettled, invalid>>
    BY <1>1 DEF Send, agent, observed
  <2>2. CASE c = d
    <3>1. pc[d] = "unsent" /\ pc'[d] = "spawn"
      BY <1>1, <1>t, <2>2, SendActs
    <3>2. queue'[d] = <<>> /\ ~unsettled'[d]
      BY <1>t, <2>1, <3>1 DEF Settling
    <3>3. \A i \in 1..Len(queue'[d]) : FALSE
      BY <3>2, EmptySeq
    <3> QED BY <3>1, <3>2, <3>3 DEF Settling
  <2>3. CASE c # d
    BY <1>1, <1>k, <1>t, <2>1, <2>3, SendActs DEF Acts, Over
  <2> QED BY <2>2, <2>3
<1>2. ASSUME Thread(d) PROVE Settling(d)'
  <2>a. ~Over(d) /\ pc'[d] # "unsent"
    BY <1>2, <1>t, ThreadActs
  <2>1. CASE Spawn(d) \/ Store(d) \/ Offer(d) \/ Show(d) \/ EndOfStream(d)
    BY <1>k, <2>1, <2>a DEF Spawn, Store, Offer, Show, EndOfStream, agent, observed
  <2>2. CASE Request(d)
    <3>1. CASE Return(d)
      BY <1>o, <1>t, <3>1, ReturnActs
    <3>2. CASE UNCHANGED <<queue, invalid>>
      BY <1>k, <2>2, <2>a, <3>2 DEF Request, observed
    <3> QED BY <2>2, <3>1, <3>2 DEF Request
  <2>3. CASE Leave(d)
    <3>1. CASE Return(d)
      BY <1>o, <1>t, <3>1, ReturnActs
    <3>2. CASE UNCHANGED <<queue, invalid>>
      BY <1>k, <2>3, <2>a, <3>2 DEF Leave, observed
    <3> QED BY <2>3, <3>1, <3>2 DEF Leave
  <2>4. CASE Reap(d)
    BY <1>o, <1>t, <2>4, ReturnActs DEF Reap
  <2>5. CASE Resolve(d)
    <3>1. queue[d] # <<>> /\ queue[d][1] \in Kinds
      BY <1>t, <2>5 DEF Resolve, Typed, Asked
    <3>2. queue'[d] = Tail(queue[d]) /\ UNCHANGED <<invalid, unsettled>>
      BY <1>t, <2>5 DEF Resolve, observed
    <3> QED BY <1>t, <2>a, <3>1, <3>2, TailSettling
  <2>6. CASE Forward(d)
    <3>1. queue[d] # <<>> /\ Head(queue[d]) = queue[d][1]
      BY <1>t, <2>6, HeadAndTail DEF Forward
    <3>2. queue'[d] = Tail(queue[d]) /\ UNCHANGED invalid
      BY <1>t, <2>6 DEF Forward
    <3>3. unsettled'[d] = (queue[d][1] = "warning")
      BY <1>t, <2>6, <3>1 DEF Forward
    <3> QED BY <1>t, <2>a, <3>1, <3>2, <3>3, TailSettling
  <2> QED BY <1>2, <2>1, <2>2, <2>3, <2>4, <2>5, <2>6 DEF Thread
\* Another call acts.
<1>3. ASSUME NEW c \in Chats, Thread(c), c # d PROVE Settling(d)'
  <2>1. pc'[d] = pc[d]
    BY <1>3, <1>t, ThreadActs DEF Acts
  <2>2. CASE Spawn(c) \/ Store(c) \/ Offer(c) \/ Show(c) \/ EndOfStream(c)
    BY <1>k, <2>1, <2>2 DEF Spawn, Store, Offer, Show, EndOfStream, agent, observed, Over
  <2>3. CASE Return(c) /\ UNCHANGED unsettled
    BY <1>k, <1>3, <1>t, <2>1, <2>3, ReturnTyped DEF Over
  <2>4. CASE Request(c) \/ Leave(c) \/ Reap(c)
    BY <1>k, <2>1, <2>3, <2>4 DEF Request, Leave, Reap, observed, Over
  <2>5. CASE Resolve(c)
    <3>1. queue'[d] = queue[d] /\ UNCHANGED <<invalid, unsettled>>
      BY <1>3, <1>t, <2>5 DEF Resolve, observed
    <3> QED BY <1>k, <2>1, <3>1 DEF Over
  <2>6. CASE Forward(c)
    <3>1. queue'[d] = queue[d] /\ unsettled'[d] = unsettled[d] /\ UNCHANGED invalid
      BY <1>3, <1>t, <2>6 DEF Forward
    <3> QED BY <1>k, <2>1, <3>1 DEF Over
  <2> QED BY <1>3, <2>2, <2>3, <2>4, <2>5, <2>6 DEF Thread
\* A child prints.
<1>4. ASSUME NEW c \in Chats, NEW ev \in Events, Prints(c, ev), UNCHANGED <<pc, unsettled>>, ev # "warning"
      PROVE  Settling(d)'
  <2>1. CASE UNCHANGED <<queue, invalid>>
    BY <1>k, <1>4, <2>1 DEF Over
  <2>2. CASE ~Unheard(c) /\ Adds(c, Said(c, ev)) /\ invalid'[c].run = 0 /\ c = d
    <3>1. /\ Said(c, ev) \in Seq(Events) /\ \A i \in 1..Len(Said(c, ev)) : Said(c, ev)[i] # "warning"
          /\ Len(Said(c, ev)) \in {1, 2}
          /\ invalid[c].run > 0 => Said(c, ev)[1] \in Settles
      BY <1>4, SaidIs DEF Settles
    <3>2. ~Over(c) /\ 0 \in Nat
      BY <2>2 DEF Unheard
    <3>3. invalid'[c].run \in Nat
      BY <2>2, <3>2
    <3>4. Len(Said(c, ev)) = 0 => (invalid[c].run > 0 => invalid'[c].run > 0)
      BY <3>1
    <3>5. \A i \in 1..Len(Said(c, ev)) : Said(c, ev)[i] = "warning" =>
            IF i = Len(Said(c, ev)) THEN invalid'[c].run > 0 ELSE Said(c, ev)[i + 1] \in Settles
      BY <3>1
    <3>6. Len(Said(c, ev)) > 0 => (invalid[c].run > 0 => Said(c, ev)[1] \in Settles)
      BY <3>1
    <3> QED BY <1>4, <1>t, <2>2, <3>1, <3>2, <3>3, <3>4, <3>5, <3>6, AddsSettling
  <2>3. CASE Adds(c, Said(c, ev)) /\ c # d
    <3>1. queue'[d] = queue[d] /\ invalid'[d] = invalid[d]
      BY <1>4, <1>t, <2>3, PrintsAdds DEF Adds
    <3> QED BY <1>k, <1>4, <3>1 DEF Over
  <2> QED BY <1>4, <1>t, <2>1, <2>2, <2>3, PrintsAdds
<1>5. ASSUME NEW c \in Chats, (\E k \in Kinds : ChildAsks(c, k)) \/ ChildDone(c) PROVE Settling(d)'
  <2>1. UNCHANGED <<pc, unsettled>> /\ \E ev \in Kinds \cup {"end"} : Prints(c, ev)
    BY <1>5 DEF ChildAsks, ChildDone, call, observed
  <2>2. \A ev \in Kinds \cup {"end"} : ev \in Events /\ ev # "warning"
    BY DEF Kinds, Events
  <2> QED BY <1>4, <2>1, <2>2
<1>6. ASSUME NEW c \in Chats, ChildNoise(c) PROVE Settling(d)'
  <2>1. UNCHANGED <<pc, unsettled>> /\ ~Over(c)
    BY <1>6 DEF ChildNoise, call, observed
  <2>2. CASE c # d
    <3>1. queue'[d] = queue[d] /\ invalid'[d] = invalid[d]
      BY <1>6, <1>t, <2>2, NoiseAdds DEF Adds
    <3> QED BY <1>k, <2>1, <3>1 DEF Over
  <2>3. CASE c = d
    <3>0. invalid[c].run \in Nat
      <4>1. invalid[c] \in [run : 0..MaxConsecutive, all : 0..MaxTotal]
        BY <1>t DEF TypeOK
      <4> QED BY <4>1, Constants
    <3>1. Adds(c, Noise(c)) /\ invalid'[c].run = invalid[c].run + 1 /\ invalid[c].run \in Nat
      BY <1>6, <1>t, <3>0, NoiseAdds
    <3>2. invalid'[c].run \in Nat /\ invalid'[c].run > 0
      BY <3>1
    <3>3. Noise(c) \in Seq(Events)
      BY NoiseIs
    <3>4. Len(Noise(c)) > 0 => (invalid[c].run > 0 => Noise(c)[1] \in Settles)
      BY NoiseIs DEF Settles
    <3>5. \A i \in 1..Len(Noise(c)) : Noise(c)[i] = "warning" =>
            IF i = Len(Noise(c)) THEN invalid'[c].run > 0 ELSE Noise(c)[i + 1] \in Settles
      <4> SUFFICES ASSUME NEW i \in 1..Len(Noise(c)), Noise(c)[i] = "warning"
                   PROVE  IF i = Len(Noise(c)) THEN invalid'[c].run > 0 ELSE Noise(c)[i + 1] \in Settles
        OBVIOUS
      <4>1. Len(Noise(c)) \in {0, 1, 2} /\ (Len(Noise(c)) = 2 => Noise(c)[2] = "corrupt")
        BY NoiseIs
      <4>2. CASE i = Len(Noise(c))
        BY <3>2, <4>2
      <4>3. CASE i # Len(Noise(c))
        <5>1. i = 1 /\ Len(Noise(c)) = 2 /\ i + 1 = 2
          BY <4>1, <4>3
        <5> QED BY <4>1, <4>3, <5>1 DEF Settles
      <4> QED BY <4>2, <4>3
    <3> QED BY <1>t, <2>1, <2>3, <3>1, <3>2, <3>3, <3>4, <3>5, AddsSettling
  <2> QED BY <2>2, <2>3
<1>7. ASSUME NEW c \in Chats, ChildReads(c) \/ ChildExits(c) \/ ChildCrashes(c) PROVE Settling(d)'
  BY <1>7, <1>k DEF ChildReads, ChildExits, ChildCrashes, call, observed, Over
<1>8. CASE Stop \/ Responds \/ PressStop \/ (\E s \in Sessions : SwitchSession(s)) \/ UNCHANGED vars
  BY <1>8, <1>k
     DEF Stop, StopAnswer, StopProcess, Responds, Respond, PressStop, SwitchSession, vars, call, agent, observed, Over
<1> QED BY <1>1, <1>2, <1>3, <1>5, <1>6, <1>7, <1>8 DEF Next, Child, User, Rest

LEMMA SettledInit == Init => Settled
<1> SUFFICES ASSUME Init PROVE Settled
  OBVIOUS
<1>1. \A c \in Chats : Settling(c)
  BY DEF Init, Settling, Over
<1> QED BY <1>1, TypedInit DEF Settled

LEMMA SettledStep == Settled /\ [Next]_vars => Settled'
BY SettlingStep, TypedStep DEF Settled

\* However valid and invalid lines alternate and wherever the reader gives up,
\* a turn is only shown as over when every protocol warning has had its recovery.
THEOREM WarningsAreSettled == Spec => WarningsSettled
<1>1. Settled => [\A c \in Chats : Forward(c) /\ Head(queue[c]) = "end" => ~unsettled[c]]_vars
  <2> SUFFICES ASSUME Settled, NEW c \in Chats, Forward(c), Head(queue[c]) = "end" PROVE ~unsettled[c]
    OBVIOUS
  <2>1. queue[c] # <<>> /\ queue[c] \in Seq(Events) /\ ~Over(c)
    BY DEF Forward, Over, Settled, Typed, TypeOK
  <2>2. queue[c][1] = "end"
    BY <2>1, HeadAndTail
  <2> QED BY <2>1, <2>2 DEF Settled, Settling, Settles
<1> QED BY <1>1, SettledInit, SettledStep, PTL DEF Spec, WarningsSettled

-----------------------------------------------------------------------------
(* Answers. *)

\* What is in the queue, and what the child does meanwhile.
Heard(c) ==
  /\ pc[c] \notin {"reap", "done"} => \A i \in 1..Len(queue[c]) :
       LET ev == queue[c][i] IN
       /\ ev \in Kinds => i = Len(queue[c]) /\ child[c] \in {ev, "gone"} /\ stdin[c] = <<>>
       /\ ev = "end" => child[c] \in {"over", "gone"}
       /\ ev = "corrupt" => Corrupt(c)
  /\ pc[c] \in {"leave", "reap"} => child[c] \in {"over", "gone"} \/ Corrupt(c)

\* What the call that offers a request has been told.
Told(c) ==
  pc[c] \in {"show", "wait"} =>
    /\ reply[c] = "none" => sender[queue[c][1]] = c
    /\ reply[c] \in {"yes", "no"} => pc[c] = "wait" /\ answered[c] = reply[c]
    /\ reply[c] = "dropped" => stopped[c]

\* What is written to the child is the answer to what it waits for.
Written(c) ==
  stdin[c] # <<>> =>
    /\ Len(stdin[c]) = 1 /\ child[c] \in {stdin[c][1].method, "gone"}
    /\ IF stdin[c][1].yes THEN answered[c] = "yes" ELSE answered[c] = "no" \/ stopped[c]

\* The cards of a chat that is not stopped: one, for the request it waits with.
Carded(c) ==
  /\ pc[c] = "unsent" => \A i \in 1..Len(cards) : cards[i].chat # c
  /\ ~Over(c) /\ ~stopped[c] => \A i \in 1..Len(cards) : cards[i].chat = c =>
       /\ pc[c] = "wait" /\ reply[c] = "none"
       /\ cards[i].kind = queue[c][1] /\ cards[i].n = asks[c]
       /\ \A j \in 1..Len(cards) : cards[j].chat = c => j = i

Flight ==
  /\ inFlight # NoChat => ~Over(inFlight)
  /\ \A c \in Chats : ~Over(c) /\ (inFlight # c \/ stopping # "idle") => stopped[c]

Meant ==
  /\ Children /\ Flight
  /\ \A c \in Chats : Heard(c) /\ Told(c) /\ Written(c) /\ Carded(c)

LEMMA MeantTyped ==
  ASSUME Meant
  PROVE  /\ Typed /\ TypeOK /\ Single /\ cards \in Seq(Cards) /\ inFlight \in Slots
         /\ pc \in [Chats -> Points] /\ queue \in [Chats -> Seq(Events)] /\ stdin \in [Chats -> Seq(Lines)]
         /\ child \in [Chats -> {"none", "idle", "work", "over", "gone"} \cup Kinds]
         /\ reply \in [Chats -> {"none", "yes", "no", "dropped"}]
         /\ asks \in [Chats -> 0..MaxAsks] /\ sender \in [Kinds -> Slots]
         /\ stopped \in [Chats -> BOOLEAN] /\ answered \in [Chats -> {"none", "yes", "no"}]
         /\ invalid \in [Chats -> [run : 0..MaxConsecutive, all : 0..MaxTotal]]
         /\ Slots = Chats \cup {NoChat} /\ NoChat \notin Chats
BY Constants DEF Meant, Children, Typed, TypeOK, Cards, Lines

\* A call that shows a request or waits for its answer has handled all else.
LEMMA Waiting ==
  ASSUME Meant, NEW c \in Chats, pc[c] \in {"show", "wait"}
  PROVE  /\ queue[c] # <<>> /\ Len(queue[c]) = 1 /\ queue[c][1] \in Kinds /\ Head(queue[c]) = queue[c][1]
         /\ child[c] \in {queue[c][1], "gone"} /\ stdin[c] = <<>>
<1>1. queue[c] # <<>> /\ queue[c][1] \in Kinds /\ queue[c] \in Seq(Events)
  BY MeantTyped DEF Typed, Asked
<1>2. Head(queue[c]) = queue[c][1] /\ 1 \in 1..Len(queue[c])
  BY <1>1, HeadAndTail, LenProperties
<1> QED BY <1>1, <1>2 DEF Meant, Heard

\* A child that does not wait for an answer has been sent none.
LEMMA Unwritten ==
  ASSUME Meant, NEW c \in Chats, child[c] \notin Kinds \cup {"gone"}
  PROVE  /\ stdin[c] = <<>>
         /\ pc[c] \notin {"reap", "done"} => \A i \in 1..Len(queue[c]) : queue[c][i] \notin Kinds
<1>1. stdin[c] # <<>> => stdin[c][1].method \in Kinds
  <2>1. stdin[c] # <<>> => stdin[c][1] \in Lines
    BY MeantTyped, HeadAndTail
  <2> QED BY <2>1 DEF Lines
<1> QED BY <1>1 DEF Meant, Written, Heard

\* While a call acts, the others are over.
LEMMA OthersOver ==
  ASSUME Meant, NEW c \in Chats, Thread(c), NEW d \in Chats \ {c}
  PROVE  Over(d) /\ Over(d)' /\ pc'[d] = pc[d]
BY MeantTyped, ThreadActs DEF Single, Acts, Over

LEMMA FlightStep ==
  ASSUME Unhurried, Meant, [Next]_vars
  PROVE  Flight'
<1>t. /\ Typed /\ TypeOK /\ Slots = Chats \cup {NoChat} /\ NoChat \notin Chats /\ inFlight \in Slots /\ Flight
      /\ stopped \in [Chats -> BOOLEAN]
  BY MeantTyped DEF Meant
<1>k. ASSUME UNCHANGED <<pc, inFlight>>, \A c \in Chats : stopped[c] => stopped'[c],
             stopping' # "idle" => stopping # "idle"
      PROVE  Flight'
  BY <1>k, <1>t DEF Flight, Over
<1>1. ASSUME NEW c \in Chats, Thread(c) PROVE Flight'
  <2>1. UNCHANGED <<stopped, stopping>>
    BY <1>1 DEF Thread, Spawn, Store, Request, Offer, Show, Resolve, Forward, EndOfStream, Leave, Reap, observed
  <2>2. \A d \in Chats \ {c} : Over(d)' /\ pc'[d] = pc[d] /\ Over(d)
    BY <1>1, OthersOver
  <2>3. ~Over(c)
    BY <1>1, <1>t, ThreadActs
  <2>4. CASE Return(c)
    <3>1. Over(c)' /\ inFlight' = IF inFlight = c THEN NoChat ELSE inFlight
      BY <1>t, <2>4, ReturnTyped DEF Over
    <3>2. inFlight' = NoChat
      BY <1>t, <2>2, <3>1 DEF Flight
    <3> QED BY <1>t, <2>2, <3>1, <3>2 DEF Flight
  <2>5. CASE ~Return(c)
    <3>1. UNCHANGED inFlight
      BY <1>1, <2>5 DEF Thread, Spawn, Store, Request, Offer, Show, Resolve, Forward, EndOfStream, Leave, Reap, ui
    <3>2. inFlight # NoChat => inFlight = c
      BY <1>t, <2>2 DEF Flight
    <3>3. ~Over(c)'
      <4>1. pc'[c] # "done" /\ pc'[c] # "unsent"
        BY <1>1, <1>t, <2>5, AtActs, ThreadActs
           DEF Thread, Spawn, Store, Request, Offer, Show, Resolve, Forward, EndOfStream, Leave, Reap
      <4> QED BY <4>1 DEF Over
    <3> QED BY <1>t, <2>1, <2>2, <2>3, <3>1, <3>2, <3>3 DEF Flight
  <2> QED BY <2>4, <2>5
<1>2. ASSUME NEW c \in Chats, Send(c) PROVE Flight'
  <2>1. inFlight' = c /\ stopping' = "idle" /\ \A d \in Chats : Over(d)
    BY <1>2 DEF Send, Unhurried
  <2> QED BY <1>2, <1>t, <2>1, SendActs DEF Flight, Over, Acts
<1>3. ASSUME PressStop \/ \E s \in Sessions : SwitchSession(s) PROVE Flight'
  <2>1. UNCHANGED <<pc, inFlight>>
    BY <1>3 DEF PressStop, SwitchSession, call
  <2>2. \A c \in Chats : stopped'[c] <=> stopped[c] \/ c = inFlight
    BY <1>3, <1>t DEF PressStop, SwitchSession
  <2> QED BY <1>t, <2>1, <2>2 DEF Flight, Over
<1>4. ASSUME NEW k \in Kinds, StopAnswer(k) PROVE Flight'
  BY <1>4, <1>k, Constants DEF StopAnswer, ui, observed
<1>5. CASE StopProcess
  <2>1. UNCHANGED <<pc, stopped>> /\ stopping # "idle" /\ inFlight' \in {inFlight, NoChat}
    BY <1>5 DEF StopProcess, call, observed
  <2> QED BY <1>t, <2>1 DEF Flight, Over
<1>6. ASSUME NEW c \in Chats, Child(c) \/ ChildCrashes(c) PROVE Flight'
  BY <1>6, <1>k DEF Child, ChildAsks, ChildReads, ChildDone, ChildExits, ChildNoise, ChildCrashes, call, ui, observed
<1>7. CASE Responds \/ UNCHANGED vars
  BY <1>7, <1>k DEF Responds, Respond, vars, ui, call, observed
<1> QED BY <1>1, <1>2, <1>3, <1>4, <1>5, <1>6, <1>7 DEF Next, Stop, User, Rest

\* What belongs to a call and its child stays as it is when another one moves.
Still(d) ==
  /\ pc'[d] = pc[d] /\ queue'[d] = queue[d] /\ invalid'[d] = invalid[d] /\ child'[d] = child[d]
  /\ stdin'[d] = stdin[d] /\ asks'[d] = asks[d] /\ stopped'[d] = stopped[d] /\ answered'[d] = answered[d]

LEMMA OthersStill ==
  ASSUME Meant, NEW c \in Chats, NEW d \in Chats \ {c}, Thread(c) \/ Child(c) \/ ChildCrashes(c) \/ Send(c)
  PROVE  Still(d)
<1>t. /\ Typed /\ TypeOK /\ queue \in [Chats -> Seq(Events)] /\ stdin \in [Chats -> Seq(Lines)]
      /\ child \in [Chats -> {"none", "idle", "work", "over", "gone"} \cup Kinds]
      /\ asks \in [Chats -> 0..MaxAsks] /\ answered \in [Chats -> {"none", "yes", "no"}]
  BY MeantTyped
<1>1. CASE Thread(c)
  <2>1. pc'[d] = pc[d] /\ child'[d] = child[d] /\ UNCHANGED <<asks, stopped, answered>>
    BY <1>1, <1>t, ThreadActs DEF Acts, Thread, Spawn, Store, Request, Offer, Show, Resolve, Forward,
                                  EndOfStream, Leave, Reap, agent, observed
  <2>2. stdin'[d] = stdin[d]
    BY <1>1, <1>t DEF Thread, Spawn, Store, Request, Offer, Show, Resolve, Forward, EndOfStream, Leave, Reap, agent
  <2>3. queue'[d] = queue[d] /\ invalid'[d] = invalid[d]
    <3>1. CASE Return(c)
      BY <1>t, <3>1, ReturnTyped
    <3>2. CASE ~Return(c)
      BY <1>1, <1>t, <3>2
         DEF Thread, Spawn, Store, Request, Offer, Show, Resolve, Forward, EndOfStream, Leave, Reap, agent
    <3> QED BY <3>1, <3>2
  <2> QED BY <2>1, <2>2, <2>3 DEF Still
<1>2. CASE Child(c) \/ ChildCrashes(c)
  <2>1. UNCHANGED <<pc, stopped>> /\ child'[d] = child[d] /\ stdin'[d] = stdin[d] /\ asks'[d] = asks[d]
        /\ answered'[d] = answered[d]
    BY <1>2, <1>t
       DEF Child, ChildAsks, ChildReads, ChildDone, ChildExits, ChildNoise, ChildCrashes, call, observed
  <2>2. queue'[d] = queue[d] /\ invalid'[d] = invalid[d]
    <3>1. \A ev \in Kinds \cup {"end"} : ev \in Events
      BY DEF Events
    <3>2. ASSUME NEW ev \in Events, Prints(c, ev) PROVE queue'[d] = queue[d] /\ invalid'[d] = invalid[d]
      BY <1>t, <3>2, PrintsAdds DEF Adds
    <3>3. ASSUME ChildNoise(c) PROVE queue'[d] = queue[d] /\ invalid'[d] = invalid[d]
      BY <1>t, <3>3, NoiseAdds DEF Adds
    <3> QED BY <1>2, <3>1, <3>2, <3>3
            DEF Child, ChildAsks, ChildReads, ChildDone, ChildExits, ChildCrashes
  <2> QED BY <2>1, <2>2 DEF Still
<1>3. CASE Send(c)
  BY <1>3, <1>t, SendActs DEF Send, Acts, agent, observed, Still
<1> QED BY <1>1, <1>2, <1>3

\* A child that works prints, and is heard.
LEMMA HeardAdds ==
  ASSUME Meant, NEW d \in Chats, child[d] = "work", ~Over(d), pc'[d] = pc[d], stdin'[d] = stdin[d],
         NEW es \in Seq(Events), Adds(d, es), Corrupt(d) => Corrupt(d)',
         \A i \in 1..Len(es) : es[i] \in Kinds => i = Len(es) /\ child'[d] = es[i],
         \A i \in 1..Len(es) : es[i] = "end" => child'[d] = "over",
         \A i \in 1..Len(es) : es[i] = "corrupt" => Corrupt(d)'
  PROVE  Heard(d)'
<1>1. Heard(d) /\ child[d] \notin Kinds \cup {"gone"} /\ "end" \notin Kinds /\ "corrupt" \notin Kinds
  BY DEF Meant, Kinds
<1>2. stdin[d] = <<>> /\ (pc[d] \notin {"reap", "done"} => \A i \in 1..Len(queue[d]) : queue[d][i] \notin Kinds)
  BY <1>1, Unwritten
<1>3. Len(queue[d]) \in Nat /\ Len(es) \in Nat /\ Len(queue'[d]) = Len(queue[d]) + Len(es)
  BY MeantTyped, LenProperties DEF Adds
<1>4. ASSUME pc[d] \notin {"reap", "done"}, NEW i \in 1..Len(queue'[d])
      PROVE  /\ queue'[d][i] \in Kinds => i = Len(queue'[d]) /\ child'[d] \in {queue'[d][i], "gone"} /\ stdin'[d] = <<>>
             /\ queue'[d][i] = "end" => child'[d] \in {"over", "gone"}
             /\ queue'[d][i] = "corrupt" => Corrupt(d)'
  <2>1. CASE i \in 1..Len(queue[d])
    BY <1>1, <1>2, <1>4, <2>1 DEF Adds, Heard
  <2>2. CASE i \notin 1..Len(queue[d])
    <3>0. i - Len(queue[d]) \in 1..Len(es)
      BY <1>3, <2>2
    <3>1. PICK j \in 1..Len(es) : j = i - Len(queue[d])
      BY <3>0
    <3>2. i = Len(queue[d]) + j /\ (j = Len(es) => i = Len(queue'[d]))
      BY <1>3, <3>1
    <3>3. queue'[d][i] = es[j]
      BY <3>2 DEF Adds
    <3> QED BY <1>2, <3>2, <3>3
  <2> QED BY <2>1, <2>2
<1>5. pc[d] \in {"leave", "reap"} => Corrupt(d)'
  BY <1>1 DEF Heard
<1> QED BY <1>4, <1>5 DEF Heard

\* The head of a queue is handled, and is the last thing there if it is a request.
LEMMA HeardTail ==
  ASSUME Meant, NEW d \in Chats, queue[d] # <<>>, pc[d] \notin {"reap", "done"}, queue'[d] = Tail(queue[d]),
         child'[d] = child[d], invalid'[d] = invalid[d], queue[d][1] \in Kinds \/ stdin'[d] = stdin[d],
         pc'[d] = "leave" => child[d] \in {"over", "gone"} \/ Corrupt(d), pc'[d] # "reap"
  PROVE  Heard(d)'
<1>1. /\ queue[d] \in Seq(Events) /\ Len(queue[d]) \in Nat /\ Len(queue[d]) >= 1 /\ Len(queue'[d]) = Len(queue[d]) - 1
      /\ \A i \in 1..Len(queue'[d]) : queue'[d][i] = queue[d][i + 1]
  BY MeantTyped, HeadAndTail, LenProperties
<1>2. Corrupt(d)' <=> Corrupt(d)
  BY DEF Corrupt
<1>3. ASSUME NEW i \in 1..Len(queue'[d])
      PROVE  /\ queue'[d][i] \in Kinds => i = Len(queue'[d]) /\ child'[d] \in {queue'[d][i], "gone"} /\ stdin'[d] = <<>>
             /\ queue'[d][i] = "end" => child'[d] \in {"over", "gone"}
             /\ queue'[d][i] = "corrupt" => Corrupt(d)'
  <2>1. i + 1 \in 1..Len(queue[d]) /\ 1 \in 1..Len(queue[d]) /\ 1 # Len(queue[d])
        /\ (i + 1 = Len(queue[d]) <=> i = Len(queue'[d])) /\ queue'[d][i] = queue[d][i + 1]
    BY <1>1
  <2> QED BY <1>2, <2>1 DEF Meant, Heard
<1> QED BY <1>2, <1>3 DEF Heard

LEMMA HeardStep ==
  ASSUME Unhurried, Meant, [Next]_vars, NEW d \in Chats
  PROVE  Heard(d)'
<1>t. /\ Typed /\ TypeOK /\ Single /\ queue[d] \in Seq(Events) /\ Owned(d) /\ Heard(d)
      /\ child \in [Chats -> {"none", "idle", "work", "over", "gone"} \cup Kinds]
      /\ stdin \in [Chats -> Seq(Lines)] /\ invalid[d] \in [run : 0..MaxConsecutive, all : 0..MaxTotal]
  BY MeantTyped DEF Meant, Children
<1>w. "work" \notin Kinds \cup {"gone"} /\ "none" \notin Kinds \cup {"gone"} /\ "idle" \notin Kinds \cup {"gone"}
  BY DEF Kinds
<1>k. ASSUME queue'[d] = queue[d], stdin'[d] = stdin[d], invalid'[d] = invalid[d], child'[d] \in {child[d], "gone"},
             \/ pc'[d] = pc[d]
             \/ pc[d] \notin {"reap", "done"} /\ pc'[d] \notin {"leave", "reap"}
      PROVE  Heard(d)'
  BY <1>k, <1>t DEF Heard, Corrupt
<1>o. ASSUME pc'[d] = "done" PROVE Heard(d)'
  BY <1>o DEF Heard
<1>1. ASSUME NEW c \in Chats \ {d}, Thread(c) \/ Child(c) \/ ChildCrashes(c) \/ Send(c) PROVE Heard(d)'
  BY <1>1, <1>k, OthersStill DEF Still
<1>2. ASSUME Thread(d) PROVE Heard(d)'
  <2>1. CASE Spawn(d) \/ (Request(d) /\ ~Return(d))
    <3>1. child[d] \in {"none", "idle", "work", "over", "gone"} \/ child[d] \in Kinds
      BY <1>t
    <3>2. queue'[d] = queue[d] /\ stdin'[d] = stdin[d] /\ invalid'[d] = invalid[d]
          /\ pc[d] \in {"spawn", "request"} /\ pc'[d] \in {"store", "loop"}
      BY <1>t, <2>1, AtActs DEF Spawn, Request
    <3>3. CASE child'[d] = child[d]
      BY <1>k, <3>2, <3>3
    <3>4. CASE child'[d] # child[d]
      <4>1. child[d] \in {"none", "idle"}
        BY <1>t, <2>1, <3>4 DEF Spawn, Request, Owned
      <4>2. \A i \in 1..Len(queue[d]) : queue[d][i] \notin Kinds \cup {"end"}
        BY <1>t, <1>w, <3>2, <4>1, Unwritten DEF Heard
      <4> QED BY <1>t, <3>2, <4>2 DEF Heard, Corrupt
    <3> QED BY <3>3, <3>4
  <2>2. CASE Store(d) \/ Offer(d) \/ Show(d)
    <3>1. UNCHANGED <<queue, stdin, invalid, child>> /\ pc[d] \in {"store", "loop", "show"}
          /\ pc'[d] \in {"request", "show", "wait"}
      BY <1>t, <2>2, AtActs DEF Store, Offer, Show, agent
    <3> QED BY <1>k, <3>1
  <2>3. CASE Return(d)
    BY <1>o, <1>t, <2>3, ReturnActs
  <2>4. CASE Resolve(d)
    <3>1. queue[d] # <<>> /\ queue[d][1] \in Kinds /\ pc[d] = "wait" /\ pc'[d] = "loop"
      BY <1>t, <2>4, AtActs, Waiting DEF Resolve
    <3>2. queue'[d] = Tail(queue[d]) /\ UNCHANGED <<invalid, child>>
      BY <2>4, MeantTyped DEF Resolve
    <3> QED BY <3>1, <3>2, HeardTail
  <2>5. CASE Forward(d)
    <3>1. queue[d] # <<>> /\ Head(queue[d]) = queue[d][1] /\ pc[d] = "loop" /\ 1 \in 1..Len(queue[d])
      BY <1>t, <2>5, HeadAndTail, LenProperties DEF Forward
    <3>2. queue'[d] = Tail(queue[d]) /\ UNCHANGED <<invalid, child, stdin>>
      BY <2>5, MeantTyped DEF Forward
    <3>3. pc'[d] = IF queue[d][1] \in {"end", "corrupt"} THEN "leave" ELSE "loop"
      BY <1>t, <2>5, <3>1, AtActs DEF Forward
    <3>4. pc'[d] = "leave" => child[d] \in {"over", "gone"} \/ Corrupt(d)
      BY <1>t, <3>1, <3>3 DEF Heard
    <3>5. pc'[d] # "reap"
      BY <3>3
    <3> QED BY <3>1, <3>2, <3>4, <3>5, HeardTail
  <2>6. CASE EndOfStream(d)
    <3>1. UNCHANGED <<queue, stdin, invalid, child>> /\ queue[d] = <<>> /\ child[d] = "gone" /\ pc'[d] = "leave"
      BY <1>t, <2>6, AtActs DEF EndOfStream, agent
    <3>2. \A i \in 1..Len(queue'[d]) : FALSE
      BY <3>1, EmptySeq
    <3> QED BY <3>1, <3>2 DEF Heard
  <2>7. CASE Leave(d) /\ ~Return(d)
    <3>1. UNCHANGED <<child, invalid>> /\ pc[d] = "leave" /\ pc'[d] = "reap"
      BY <1>t, <2>7, AtActs DEF Leave
    <3> QED BY <1>t, <3>1 DEF Heard, Corrupt
  <2> QED BY <1>2, <2>1, <2>2, <2>3, <2>4, <2>5, <2>6, <2>7 DEF Thread, Reap
<1>3. ASSUME Send(d) PROVE Heard(d)'
  BY <1>3, <1>k, <1>t, SendActs DEF Send, agent
\* The child prints.
<1>4. ASSUME NEW ev \in Kinds \cup {"end"}, Prints(d, ev), child[d] = "work", UNCHANGED <<pc, stdin>>,
             child'[d] = IF ev = "end" THEN "over" ELSE ev
      PROVE  Heard(d)'
  <2>1. ev \in Events /\ ev # "corrupt" /\ "recovered" \notin Kinds /\ "end" \notin Kinds
    BY DEF Events, Kinds
  <2>2. CASE Unheard(d) /\ UNCHANGED <<queue, invalid>>
    <3>1. pc[d] \notin {"reap", "done"} => \A i \in 1..Len(queue[d]) : queue[d][i] \notin Kinds \cup {"end"}
      BY <1>4, <1>t, <1>w, Unwritten DEF Heard
    <3>2. pc[d] \in {"leave", "reap"} => Corrupt(d)
      BY <1>4, <1>t DEF Heard
    <3> QED BY <1>4, <1>t, <2>2, <3>1, <3>2 DEF Heard, Corrupt
  <2>3. CASE ~Unheard(d) /\ Adds(d, Said(d, ev))
    <3>1. Said(d, ev) \in Seq(Events) /\ ~Over(d) /\ ~Corrupt(d)
      BY <2>1, <2>3, SaidIs DEF Unheard
    <3>2. /\ Len(Said(d, ev)) = 1 \/ Len(Said(d, ev)) = 2
          /\ Said(d, ev)[Len(Said(d, ev))] = ev
          /\ Len(Said(d, ev)) = 2 => Said(d, ev)[1] = "recovered"
      <4>1. CASE invalid[d].run > 0
        BY <2>1, <4>1, SaidIs
      <4>2. CASE ~(invalid[d].run > 0)
        BY <2>1, <4>2, SaidIs
      <4> QED BY <4>1, <4>2
    <3>3. \A i \in 1..Len(Said(d, ev)) : i = Len(Said(d, ev)) \/ Said(d, ev)[i] = "recovered"
      <4> TAKE i \in 1..Len(Said(d, ev))
      <4>1. i = Len(Said(d, ev)) \/ (i = 1 /\ Len(Said(d, ev)) = 2)
        BY <3>2
      <4> QED BY <3>2, <4>1
    <3>4. \A i \in 1..Len(Said(d, ev)) : Said(d, ev)[i] \in Kinds => i = Len(Said(d, ev)) /\ child'[d] = Said(d, ev)[i]
      BY <1>4, <2>1, <3>2, <3>3
    <3>5. \A i \in 1..Len(Said(d, ev)) : Said(d, ev)[i] = "end" => child'[d] = "over"
      BY <1>4, <2>1, <3>2, <3>3
    <3>6. \A i \in 1..Len(Said(d, ev)) : Said(d, ev)[i] = "corrupt" => Corrupt(d)'
      BY <2>1, <3>2, <3>3
    <3>7. pc'[d] = pc[d] /\ stdin'[d] = stdin[d]
      BY <1>4
    <3> QED BY <1>4, <2>3, <3>1, <3>4, <3>5, <3>6, <3>7, HeardAdds
  <2> QED BY <1>4, <1>t, <2>1, <2>2, <2>3, PrintsAdds
<1>5. ASSUME (\E k \in Kinds : ChildAsks(d, k)) \/ ChildDone(d) PROVE Heard(d)'
  <2>1. ASSUME NEW k \in Kinds, ChildAsks(d, k) PROVE Heard(d)'
    <3>1. k # "end"
      BY DEF Kinds
    <3>2. Prints(d, k) /\ child[d] = "work" /\ UNCHANGED <<pc, stdin>> /\ child'[d] = k
      BY <1>t, <2>1 DEF ChildAsks, call
    <3> QED BY <1>4, <3>1, <3>2
  <2>2. ASSUME ChildDone(d) PROVE Heard(d)'
    <3>1. Prints(d, "end") /\ child[d] = "work" /\ UNCHANGED <<pc, stdin>> /\ child'[d] = "over"
      BY <1>t, <2>2 DEF ChildDone, call
    <3> QED BY <1>4, <3>1
  <2> QED BY <1>5, <2>1, <2>2
<1>6. ASSUME ChildNoise(d) PROVE Heard(d)'
  <2>1. child[d] = "work" /\ ~Over(d) /\ pc'[d] = pc[d] /\ stdin'[d] = stdin[d] /\ ~Corrupt(d) /\ child'[d] = child[d]
    BY <1>6 DEF ChildNoise, call
  <2>2. Noise(d) \in Seq(Events) /\ Adds(d, Noise(d))
    BY <1>6, <1>t, NoiseAdds, NoiseIs
  <2>3. \A i \in 1..Len(Noise(d)) : Noise(d)[i] = "warning" \/ (Noise(d)[i] = "corrupt" /\ Corrupt(d)')
    <3> DEFINE n == Len(Noise(d))
    <3>1. n = 0 \/ n = 1 \/ n = 2
      BY NoiseIs
    <3> HIDE DEF n
    <3>2. \A i \in 1..n : n # 0 /\ (i = 1 \/ (i = 2 /\ n = 2))
      BY <3>1
    <3> QED BY <3>1, <3>2, NoiseIs DEF n
  <2>4. "warning" \notin Kinds /\ "corrupt" \notin Kinds
    BY DEF Kinds
  <2>5. \A i \in 1..Len(Noise(d)) : Noise(d)[i] \notin Kinds \cup {"end"}
    BY <2>3, <2>4
  <2> QED BY <2>1, <2>2, <2>3, <2>4, <2>5, HeardAdds
<1>7. ASSUME ChildReads(d) PROVE Heard(d)'
  <2>1. child[d] \in Kinds /\ pc'[d] = pc[d] /\ UNCHANGED <<queue, invalid>> /\ child'[d] = "work"
        /\ (stdin[d] # <<>> \/ pc[d] \in {"reap", "done"})
    BY <1>7, <1>t DEF ChildReads, call, Closed
  <2>2. child[d] \notin {"over", "gone"}
    BY <2>1 DEF Kinds
  <2>3. pc[d] \notin {"reap", "done"} => \A i \in 1..Len(queue[d]) : queue[d][i] \notin Kinds \cup {"end"}
    BY <1>t, <2>1, <2>2 DEF Heard
  <2>4. pc[d] \in {"leave", "reap"} => Corrupt(d)
    BY <1>t, <2>2 DEF Heard
  <2> QED BY <1>t, <2>1, <2>3, <2>4 DEF Heard, Corrupt
<1>8. ASSUME ChildExits(d) \/ ChildCrashes(d) PROVE Heard(d)'
  BY <1>8, <1>k, <1>t DEF ChildExits, ChildCrashes, call
<1>9. CASE Stop \/ Responds \/ PressStop \/ (\E s \in Sessions : SwitchSession(s)) \/ UNCHANGED vars
  <2>1. UNCHANGED <<pc, queue, stdin, invalid>> /\ child'[d] \in {child[d], "gone"}
    BY <1>9 DEF Stop, StopAnswer, StopProcess, Killed, Responds, Respond, PressStop, SwitchSession, vars, call, agent
  <2> QED BY <1>k, <2>1
<1> QED BY <1>1, <1>2, <1>3, <1>5, <1>6, <1>7, <1>8, <1>9 DEF Next, User, Rest, Child

\* The answer of the user goes to the call whose card he sees.
LEMMA Responding ==
  ASSUME Meant, NEW i \in DOMAIN cards, NEW yes \in BOOLEAN, Respond(i, yes)
  PROVE  /\ i \in 1..Len(cards) /\ inFlight \in Chats /\ ~Over(inFlight) /\ ~stopped[inFlight] /\ pc[inFlight] = "wait"
         /\ sender[queue[inFlight][1]] = inFlight
         /\ reply'[inFlight] = (IF yes THEN "yes" ELSE "no") /\ answered'[inFlight] = reply'[inFlight]
         /\ \A d \in Chats \ {inFlight} : answered'[d] = answered[d]
         /\ \A j \in 1..Len(cards) : cards[j].chat = inFlight => j = i
         /\ UNCHANGED <<pc, queue, invalid, child, stdin, asks, stopped>>
<1>1. i \in 1..Len(cards) /\ cards[i] \in Cards
  BY MeantTyped, LenProperties, ElementOfSeq
<1>2. cards[i].chat = inFlight /\ inFlight \in Chats /\ cards[i].kind \in Kinds /\ ~stopped[inFlight]
  BY <1>1 DEF Respond, Cards
<1>3. ~Over(inFlight)
  BY <1>2, MeantTyped DEF Meant, Flight
<1>4. /\ pc[inFlight] = "wait" /\ reply[inFlight] = "none" /\ cards[i].kind = queue[inFlight][1]
      /\ cards[i].n = asks[inFlight] /\ \A j \in 1..Len(cards) : cards[j].chat = inFlight => j = i
  BY <1>1, <1>2, <1>3 DEF Meant, Carded
<1>5. sender[queue[inFlight][1]] = inFlight
  BY <1>2, <1>4 DEF Meant, Told
<1>6. reply'[inFlight] = IF yes THEN "yes" ELSE "no"
  BY <1>2, <1>4, <1>5 DEF Respond
<1>7. /\ answered'[inFlight] = IF yes THEN "yes" ELSE "no"
      /\ \A d \in Chats \ {inFlight} : answered'[d] = answered[d]
  BY <1>2, <1>4, MeantTyped DEF Respond
<1>8. UNCHANGED <<pc, queue, invalid, child, stdin, asks, stopped>>
  BY DEF Respond, agent
<1> QED BY <1>1, <1>2, <1>3, <1>4, <1>5, <1>6, <1>7, <1>8

\* What the child does leaves the head of a queue alone.
LEMMA ChildQueue ==
  ASSUME Meant, NEW c \in Chats, Child(c) \/ ChildCrashes(c), NEW d \in Chats, queue[d] # <<>>
  PROVE  queue'[d][1] = queue[d][1]
<1>1. queue[d] \in Seq(Events) /\ 1 \in 1..Len(queue[d]) /\ TypeOK /\ \A ev \in Kinds \cup {"end"} : ev \in Events
  <2>1. queue[d] \in Seq(Events) /\ TypeOK
    BY MeantTyped
  <2>2. Len(queue[d]) \in Nat /\ Len(queue[d]) >= 1
    BY <2>1, LenProperties, HeadAndTail
  <2> QED BY <2>1, <2>2 DEF Events
<1>2. ASSUME NEW es, Adds(c, es) PROVE queue'[d][1] = queue[d][1]
  BY <1>1, <1>2 DEF Adds
<1>3. ASSUME NEW ev \in Events, Prints(c, ev) PROVE queue'[d][1] = queue[d][1]
  BY <1>1, <1>2, <1>3, PrintsAdds
<1>4. ASSUME ChildNoise(c) PROVE queue'[d][1] = queue[d][1]
  BY <1>1, <1>2, <1>4, NoiseAdds
<1> QED BY <1>1, <1>3, <1>4 DEF Child, ChildAsks, ChildReads, ChildDone, ChildExits, ChildCrashes

LEMMA ToldStep ==
  ASSUME Unhurried, Meant, [Next]_vars, NEW d \in Chats
  PROVE  Told(d)'
<1>t. /\ Typed /\ TypeOK /\ Single /\ Told(d) /\ Slots = Chats \cup {NoChat} /\ NoChat \notin Chats
      /\ queue[d] \in Seq(Events) /\ sender \in [Kinds -> Slots]
      /\ reply \in [Chats -> {"none", "yes", "no", "dropped"}]
      /\ stopped \in [Chats -> BOOLEAN] /\ answered \in [Chats -> {"none", "yes", "no"}]
  BY MeantTyped DEF Meant
<1>a. pc[d] \in {"show", "wait"} => /\ ~Over(d) /\ queue[d] # <<>> /\ queue[d][1] \in Kinds /\ stdin[d] = <<>>
  BY Waiting DEF Over
<1>k. ASSUME pc'[d] = pc[d], pc[d] \in {"show", "wait"} => queue'[d][1] = queue[d][1],
             UNCHANGED <<reply, sender>>, answered'[d] = answered[d], stopped[d] => stopped'[d]
      PROVE  Told(d)'
  BY <1>k, <1>t DEF Told
<1>1. ASSUME NEW c \in Chats \ {d}, Thread(c) PROVE Told(d)'
  BY <1>1, OthersOver DEF Told, Over
<1>2. ASSUME NEW c \in Chats \ {d}, Child(c) \/ ChildCrashes(c) \/ Send(c) PROVE Told(d)'
  <2>1. UNCHANGED <<reply, sender>>
    BY <1>2 DEF Child, ChildAsks, ChildReads, ChildDone, ChildExits, ChildNoise, ChildCrashes, Send, call
  <2> QED BY <1>2, <1>k, <2>1, OthersStill DEF Still
<1>3. ASSUME Thread(d) PROVE Told(d)'
  <2>1. CASE Offer(d)
    <3>1. /\ pc'[d] = "show" /\ queue[d] # <<>> /\ Head(queue[d]) = queue[d][1] /\ queue[d][1] \in Kinds
          /\ UNCHANGED queue
      BY <1>t, <2>1, AtActs, HeadAndTail DEF Offer, agent
    <3>2. sender'[queue[d][1]] = d
      BY <1>t, <2>1, <3>1 DEF Offer
    <3>3. reply'[d] = "none"
      BY <2>1 DEF Offer, Dropped
    <3> QED BY <3>1, <3>2, <3>3 DEF Told
  <2>2. CASE Show(d)
    <3>1. pc[d] = "show" /\ pc'[d] = "wait" /\ UNCHANGED <<queue, reply, sender, answered, stopped>>
      BY <1>t, <2>2, AtActs DEF Show, agent, observed
    <3> QED BY <1>t, <3>1 DEF Told
  <2>3. CASE ~(Offer(d) \/ Show(d))
    <3>1. ASSUME Forward(d) PROVE pc'[d] \in {"leave", "loop"}
      BY <1>t, <3>1, AtActs DEF Forward
    <3>2. pc'[d] \notin {"show", "wait"}
      BY <1>3, <1>t, <2>3, <3>1, AtActs, ReturnActs
         DEF Thread, Spawn, Store, Request, Resolve, EndOfStream, Leave, Reap
    <3> QED BY <3>2 DEF Told
  <2> QED BY <2>1, <2>2, <2>3
<1>4. ASSUME Send(d) PROVE Told(d)'
  BY <1>4, <1>t, SendActs DEF Told
<1>5. ASSUME Child(d) \/ ChildCrashes(d) PROVE Told(d)'
  <2>1. UNCHANGED <<pc, reply, sender, stopped>>
    BY <1>5 DEF Child, ChildAsks, ChildReads, ChildDone, ChildExits, ChildNoise, ChildCrashes, call, observed
  <2>2. pc[d] \in {"show", "wait"} => ~ChildReads(d)
    BY <1>a DEF ChildReads, Closed
  <2>3. pc[d] \in {"show", "wait"} => answered'[d] = answered[d] /\ queue'[d][1] = queue[d][1]
    BY <1>5, <1>a, <2>2, ChildQueue
       DEF Child, ChildAsks, ChildDone, ChildExits, ChildNoise, ChildCrashes, observed
  <2> QED BY <1>t, <2>1, <2>3 DEF Told
<1>6. ASSUME NEW k \in Kinds, StopAnswer(k) PROVE Told(d)'
  <2>1. /\ UNCHANGED <<pc, queue, answered, stopped>> /\ stopping # "idle"
        /\ sender'[k] = NoChat /\ \A l \in Kinds \ {k} : sender'[l] = sender[l]
        /\ reply'[d] = IF d = sender[k] /\ reply[d] = "none" THEN "dropped" ELSE reply[d]
    BY <1>6, <1>t DEF StopAnswer, agent, observed, Dropped, Kinds
  <2>2. ~Over(d) => stopped[d]
    BY <2>1 DEF Meant, Flight
  <2> QED BY <1>a, <1>t, <2>1, <2>2 DEF Told
<1>7. CASE StopProcess
  BY <1>7, <1>k DEF StopProcess, call, observed
<1>8. ASSUME NEW i \in DOMAIN cards, NEW yes \in BOOLEAN, Respond(i, yes) PROVE Told(d)'
  <2>1. CASE d = inFlight
    <3>1. /\ pc'[d] = "wait" /\ reply'[d] \in {"yes", "no"} /\ answered'[d] = reply'[d]
      BY <1>8, <2>1, Responding
    <3> QED BY <3>1 DEF Told
  <2>2. CASE d # inFlight
    <3>1. Over(d) /\ UNCHANGED pc
      BY <1>8, <1>t, <2>2, Responding DEF Single
    <3> QED BY <3>1 DEF Told, Over
  <2> QED BY <2>1, <2>2
<1>9. ASSUME PressStop \/ (\E s \in Sessions : SwitchSession(s)) \/ UNCHANGED vars PROVE Told(d)'
  <2>1. UNCHANGED <<pc, queue, reply, sender, answered>> /\ (stopped[d] => stopped'[d])
    BY <1>9, <1>t DEF PressStop, SwitchSession, vars, call, agent, observed
  <2> QED BY <1>k, <2>1
<1> QED BY <1>1, <1>2, <1>3, <1>4, <1>5, <1>6, <1>7, <1>8, <1>9 DEF Next, Stop, User, Rest, Responds

LEMMA WrittenStep ==
  ASSUME Unhurried, Meant, [Next]_vars, NEW d \in Chats
  PROVE  Written(d)'
<1>t. /\ Typed /\ TypeOK /\ Written(d) /\ Owned(d) /\ queue[d] \in Seq(Events)
      /\ child \in [Chats -> {"none", "idle", "work", "over", "gone"} \cup Kinds]
      /\ stdin \in [Chats -> Seq(Lines)] /\ reply \in [Chats -> {"none", "yes", "no", "dropped"}]
      /\ stopped \in [Chats -> BOOLEAN] /\ answered \in [Chats -> {"none", "yes", "no"}]
  BY MeantTyped DEF Meant, Children
<1>k. ASSUME stdin'[d] = stdin[d], stdin[d] # <<>> => child'[d] \in {child[d], "gone"},
             stdin[d] # <<>> => answered'[d] = answered[d], stopped[d] => stopped'[d]
      PROVE  Written(d)'
  BY <1>k, <1>t DEF Written
<1>1. ASSUME NEW c \in Chats \ {d}, Thread(c) \/ Child(c) \/ ChildCrashes(c) \/ Send(c) PROVE Written(d)'
  BY <1>1, <1>k, OthersStill DEF Still
<1>2. ASSUME Thread(d) PROVE Written(d)'
  <2>1. CASE Resolve(d)
    <3>1. /\ pc[d] = "wait" /\ reply[d] # "none" /\ UNCHANGED <<child, answered, stopped>>
          /\ stdin'[d] = IF child[d] = "gone" THEN stdin[d]
                         ELSE Append(stdin[d], [method |-> Head(queue[d]), yes |-> Granted(reply[d])])
      BY <1>t, <2>1 DEF Resolve, observed
    <3>2. /\ stdin[d] = <<>> /\ queue[d][1] \in Kinds /\ Head(queue[d]) = queue[d][1]
          /\ child[d] \in {queue[d][1], "gone"}
      BY <3>1, Waiting
    <3>3. Granted(reply[d]) \in BOOLEAN /\ [method |-> queue[d][1], yes |-> Granted(reply[d])] \in Lines
      BY <3>2 DEF Granted, Lines
    <3>4. PICK line \in Lines : line = [method |-> queue[d][1], yes |-> Granted(reply[d])]
      BY <3>3
    <3>5. line.method = queue[d][1] /\ (line.yes <=> reply[d] = "yes")
      BY <3>4 DEF Granted
    <3>6. IF line.yes THEN answered[d] = "yes" ELSE answered[d] = "no" \/ stopped[d]
      BY <1>t, <3>1, <3>5 DEF Meant, Told
    <3>7. CASE child[d] = "gone"
      BY <3>1, <3>2, <3>7 DEF Written
    <3>8. CASE child[d] # "gone"
      <4>1. stdin'[d] = Append(<<>>, line)
        BY <3>1, <3>2, <3>4, <3>8
      <4>2. Len(stdin'[d]) = 1 /\ stdin'[d][1] = line
        BY <4>1
      <4> QED BY <3>1, <3>2, <3>5, <3>6, <3>8, <4>2 DEF Written
    <3> QED BY <3>7, <3>8
  <2>2. CASE ~Resolve(d)
    <3>1. UNCHANGED <<stdin, answered, stopped>>
      BY <1>2, <2>2 DEF Thread, Spawn, Store, Request, Offer, Show, Forward, EndOfStream, Leave, Reap, agent, observed
    <3>2. stdin[d] # <<>> => child[d] \notin {"none", "idle"}
      BY Unwritten DEF Kinds
    <3>3. stdin[d] # <<>> => child'[d] \in {child[d], "gone"}
      BY <1>2, <1>t, <2>2, <3>2
         DEF Thread, Spawn, Owned, Store, Request, Offer, Show, Forward, EndOfStream, Leave, Reap, agent
    <3> QED BY <1>k, <3>1, <3>3
  <2> QED BY <2>1, <2>2
<1>3. ASSUME Send(d) PROVE Written(d)'
  BY <1>3, <1>k DEF Send, agent, observed
<1>4. ASSUME ChildReads(d) PROVE Written(d)'
  <2>1. stdin'[d] = IF stdin[d] = <<>> THEN <<>> ELSE Tail(stdin[d])
    BY <1>4, <1>t DEF ChildReads
  <2>2. stdin[d] # <<>> => Len(stdin[d]) = 1 /\ stdin[d] \in Seq(Lines)
    BY <1>t DEF Written
  <2>3. stdin[d] # <<>> => Tail(stdin[d]) \in Seq(Lines) /\ Len(Tail(stdin[d])) = 0
    BY <2>2, HeadAndTail
  <2>4. stdin'[d] = <<>>
    BY <2>1, <2>3, EmptySeq
  <2> QED BY <2>4 DEF Written
<1>5. ASSUME Child(d) \/ ChildCrashes(d), ~ChildReads(d) PROVE Written(d)'
  <2>1. UNCHANGED <<stdin, answered, stopped>>
    BY <1>5 DEF Child, ChildAsks, ChildDone, ChildExits, ChildNoise, ChildCrashes, observed
  <2>2. stdin[d] # <<>> => child[d] # "work"
    BY Unwritten DEF Kinds
  <2>3. stdin[d] # <<>> => child'[d] \in {child[d], "gone"}
    BY <1>5, <1>t, <2>2 DEF Child, ChildAsks, ChildDone, ChildExits, ChildNoise, ChildCrashes
  <2> QED BY <1>k, <2>1, <2>3
<1>6. CASE Stop
  <2>1. UNCHANGED <<stdin, answered, stopped>> /\ child'[d] \in {child[d], "gone"}
    BY <1>6 DEF Stop, StopAnswer, StopProcess, Killed, agent, observed
  <2> QED BY <1>k, <2>1
<1>7. ASSUME NEW i \in DOMAIN cards, NEW yes \in BOOLEAN, Respond(i, yes) PROVE Written(d)'
  <2>1. UNCHANGED <<stdin, child, stopped>> /\ (d # inFlight => answered'[d] = answered[d])
    BY <1>7, Responding
  <2>2. d = inFlight => stdin[d] = <<>>
    BY <1>7, Responding, Waiting
  <2> QED BY <1>k, <2>1, <2>2
<1>8. ASSUME PressStop \/ (\E s \in Sessions : SwitchSession(s)) \/ UNCHANGED vars PROVE Written(d)'
  <2>1. UNCHANGED <<stdin, child, answered>> /\ (stopped[d] => stopped'[d])
    BY <1>8, <1>t DEF PressStop, SwitchSession, vars, agent, observed
  <2> QED BY <1>k, <2>1
<1> QED BY <1>1, <1>2, <1>3, <1>4, <1>5, <1>6, <1>7, <1>8 DEF Next, Stop, User, Rest, Responds

LEMMA CardedStep ==
  ASSUME Unhurried, Meant, [Next]_vars, NEW d \in Chats
  PROVE  Carded(d)'
<1> DEFINE Cardless == \A i \in 1..Len(cards) : cards[i].chat # d
<1>t. /\ Typed /\ TypeOK /\ Single /\ Carded(d) /\ Told(d) /\ cards \in Seq(Cards) /\ Len(cards) \in Nat
      /\ queue[d] \in Seq(Events) /\ reply \in [Chats -> {"none", "yes", "no", "dropped"}]
      /\ stopped \in [Chats -> BOOLEAN] /\ asks \in [Chats -> 0..MaxAsks]
  BY MeantTyped, LenProperties DEF Meant
<1>c. (pc[d] = "unsent" => Cardless) /\ (~Over(d) /\ ~stopped[d] /\ pc[d] # "wait" => Cardless)
  BY <1>t DEF Carded
<1>n. ASSUME Cardless' PROVE Carded(d)'
  BY <1>n DEF Carded
<1>e. ASSUME Cardless, cards' \in {cards, <<>>} PROVE Cardless'
  <2>1. \A i \in 1..Len(<<>>) : FALSE
    BY EmptySeq
  <2> QED BY <1>e, <2>1
<1> HIDE DEF Cardless
\* Nothing happens to the card of this call.
<1>k. ASSUME pc'[d] = pc[d], cards' = cards, reply'[d] = reply[d], stopped[d] => stopped'[d],
             pc[d] = "wait" => queue'[d][1] = queue[d][1] /\ asks'[d] = asks[d]
      PROVE  Carded(d)'
  BY <1>k, <1>t DEF Carded, Over
\* A call that is over or stopped need not have one.
<1>s. ASSUME Over(d) \/ stopped[d], pc'[d] = pc[d], stopped[d] => stopped'[d], Cardless => Cardless' PROVE Carded(d)'
  BY <1>s, <1>c, <1>n, <1>t DEF Carded, Over
<1>1. ASSUME NEW c \in Chats \ {d}, Thread(c) PROVE Carded(d)'
  <2>1. Over(d) /\ pc'[d] = pc[d] /\ stopped'[d] = stopped[d]
    BY <1>1, OthersOver, OthersStill DEF Still
  <2>2. CASE Show(c)
    <3>1. CASE cards' = cards
      BY <1>e, <1>s, <2>1, <3>1
    <3>2. CASE cards' # cards
      <4>1. cards' = Append(cards, [chat |-> c, kind |-> Head(queue[c]), n |-> asks[c]]) /\ pc[c] = "show"
        BY <2>2, <3>2 DEF Show
      <4>2. Head(queue[c]) \in Kinds /\ asks[c] \in 1..MaxAsks
        <5>1. Head(queue[c]) = queue[c][1] /\ queue[c][1] \in Kinds /\ Len(queue[c]) = 1
          BY <4>1, Waiting
        <5>2. asks[c] >= 1 /\ asks[c] \in 0..MaxAsks
          BY <1>t, <5>1 DEF Typed, Asked
        <5> QED BY <5>1, <5>2, Constants
      <4>3. PICK card \in Cards : card = [chat |-> c, kind |-> Head(queue[c]), n |-> asks[c]]
        BY <4>2 DEF Cards
      <4>4. card.chat # d /\ cards' = Append(cards, card)
        BY <4>1, <4>3
      <4>5. /\ Len(cards') = Len(cards) + 1 /\ cards'[Len(cards) + 1] = card
            /\ \A i \in 1..Len(cards) : cards'[i] = cards[i]
        BY <1>t, <4>4, OneMore
      <4>6. Cardless => Cardless'
        BY <1>t, <4>4, <4>5 DEF Cardless
      <4> QED BY <1>s, <2>1, <4>6
    <3> QED BY <3>1, <3>2
  <2>3. CASE ~Show(c)
    <3>1. ASSUME Return(c) PROVE cards' \in {cards, <<>>}
      BY <1>t, <3>1, ReturnTyped
    <3>2. cards' \in {cards, <<>>}
      BY <1>1, <2>3, <3>1
         DEF Thread, Spawn, Store, Request, Offer, Resolve, Forward, EndOfStream, Leave, Reap, ui
    <3> QED BY <1>e, <1>s, <2>1, <3>2
  <2> QED BY <2>2, <2>3
<1>2. ASSUME NEW c \in Chats \ {d}, Child(c) \/ ChildCrashes(c) \/ Send(c) PROVE Carded(d)'
  <2>1. UNCHANGED <<cards, reply>>
    BY <1>2 DEF Child, ChildAsks, ChildReads, ChildDone, ChildExits, ChildNoise, ChildCrashes, Send, call, ui
  <2> QED BY <1>2, <1>k, <2>1, OthersStill DEF Still
<1>3. ASSUME Thread(d) PROVE Carded(d)'
  <2>a. ~Over(d) /\ pc'[d] # "unsent" /\ UNCHANGED stopped
    BY <1>3, <1>t, ThreadActs
       DEF Thread, Spawn, Store, Request, Offer, Show, Resolve, Forward, EndOfStream, Leave, Reap, observed
  <2>s. CASE stopped[d]
    BY <1>t, <2>a, <2>s DEF Carded
  <2>1. CASE Return(d)
    <3>1. pc'[d] = "done"
      BY <1>t, <2>1, ReturnActs
    <3> QED BY <3>1 DEF Carded, Over
  <2>2. CASE Show(d) /\ ~stopped[d]
    <3>1. pc[d] = "show" /\ pc'[d] = "wait" /\ UNCHANGED <<queue, reply, asks>>
      BY <1>t, <2>2, AtActs DEF Show, agent
    <3>2. reply[d] = "none"
      BY <1>t, <2>2, <3>1 DEF Told
    <3>3. Cardless
      BY <1>c, <2>2, <2>a, <3>1
    <3>4. CASE cards' = cards
      BY <1>e, <1>n, <3>3, <3>4
    <3>5. CASE cards' # cards
      <4>1. cards' = Append(cards, [chat |-> d, kind |-> Head(queue[d]), n |-> asks[d]])
        BY <2>2, <3>5 DEF Show
      <4>2. Head(queue[d]) = queue[d][1] /\ queue[d][1] \in Kinds /\ Len(queue[d]) = 1
        BY <3>1, Waiting
      <4>3. asks[d] \in 1..MaxAsks
        BY <1>t, <4>2, Constants DEF Typed, Asked
      <4>4. PICK card \in Cards : card = [chat |-> d, kind |-> queue[d][1], n |-> asks[d]]
        BY <4>2, <4>3 DEF Cards
      <4>5. card.kind = queue[d][1] /\ card.n = asks[d] /\ cards' = Append(cards, card)
        BY <4>1, <4>2, <4>4
      <4>6. /\ Len(cards') = Len(cards) + 1 /\ cards'[Len(cards) + 1] = card
            /\ \A i \in 1..Len(cards) : cards'[i] = cards[i]
        BY <1>t, <4>5, OneMore
      <4>7. ASSUME NEW i \in 1..Len(cards'), cards'[i].chat = d PROVE i = Len(cards) + 1
        BY <1>t, <3>3, <4>6, <4>7 DEF Cardless
      <4> QED BY <3>1, <3>2, <4>5, <4>6, <4>7 DEF Carded
    <3> QED BY <3>4, <3>5
  <2>3. CASE ~Return(d) /\ ~Show(d) /\ ~stopped[d]
    <3>1. cards' = cards
      BY <1>3, <2>3 DEF Thread, Spawn, Store, Request, Offer, Resolve, Forward, EndOfStream, Leave, Reap, ui
    <3>2. pc[d] # "wait" \/ reply[d] # "none"
      BY <1>3, <2>3 DEF Thread, Spawn, Store, Request, Offer, Resolve, Forward, EndOfStream, Leave, Reap
    <3>3. Cardless
      BY <1>t, <2>3, <2>a, <3>2 DEF Carded, Cardless
    <3> QED BY <1>e, <1>n, <3>1, <3>3
  <2> QED BY <2>s, <2>1, <2>2, <2>3
<1>4. ASSUME Send(d) PROVE Carded(d)'
  <2>1. pc[d] = "unsent" /\ cards' = cards
    BY <1>4 DEF Send
  <2> QED BY <1>c, <1>e, <1>n, <2>1
<1>5. ASSUME Child(d) \/ ChildCrashes(d) PROVE Carded(d)'
  <2>1. UNCHANGED <<pc, reply, stopped, cards>>
    BY <1>5 DEF Child, ChildAsks, ChildReads, ChildDone, ChildExits, ChildNoise, ChildCrashes, call, observed, ui
  <2>2. ASSUME pc[d] = "wait" PROVE queue'[d][1] = queue[d][1] /\ asks'[d] = asks[d]
    <3>1. queue[d] # <<>> /\ child[d] # "work"
      BY <2>2, Waiting DEF Kinds
    <3>2. UNCHANGED asks
      BY <1>5, <3>1 DEF Child, ChildAsks, ChildReads, ChildDone, ChildExits, ChildNoise, ChildCrashes
    <3> QED BY <1>5, <3>1, <3>2, ChildQueue
  <2> QED BY <1>k, <2>1, <2>2
<1>6. CASE Stop
  <2>1. UNCHANGED <<pc, stopped>> /\ cards' \in {cards, <<>>} /\ stopping # "idle"
    BY <1>6, Constants DEF Stop, StopAnswer, StopProcess, ui, call, observed
  <2>2. Over(d) \/ stopped[d]
    BY <2>1 DEF Meant, Flight
  <2> QED BY <1>e, <1>s, <2>1, <2>2
<1>7. ASSUME NEW i \in DOMAIN cards, NEW yes \in BOOLEAN, Respond(i, yes) PROVE Carded(d)'
  <2>1. UNCHANGED <<pc, stopped>> /\ cards' = RemoveAt(cards, i)
    BY <1>7, Responding DEF Respond
  <2>2. \A j \in 1..Len(cards') : \E k \in 1..Len(cards) \ {i} : cards'[j] = cards[k]
    <3>1. \A j \in 1..Len(RemoveAt(cards, i)) : \E k \in 1..Len(cards) \ {i} : RemoveAt(cards, i)[j] = cards[k]
      BY <1>t, CardLess
    <3> QED BY <2>1, <3>1
  <2>3. CASE d = inFlight
    <3>1. \A j \in 1..Len(cards) : cards[j].chat = d => j = i
      BY <1>7, <2>3, Responding
    <3>2. Cardless'
      BY <2>2, <3>1 DEF Cardless
    <3> QED BY <1>n, <3>2
  <2>4. CASE d # inFlight
    <3>1. Over(d)
      BY <1>7, <1>t, <2>4, Responding DEF Single
    <3>2. Cardless => Cardless'
      BY <2>2 DEF Cardless
    <3> QED BY <1>s, <2>1, <3>1, <3>2
  <2> QED BY <2>3, <2>4
<1>8. ASSUME PressStop \/ (\E s \in Sessions : SwitchSession(s)) \/ UNCHANGED vars PROVE Carded(d)'
  <2>1. UNCHANGED <<pc, cards, reply, queue, asks>> /\ (stopped[d] => stopped'[d])
    BY <1>8, <1>t DEF PressStop, SwitchSession, vars, ui, call, agent, observed
  <2> QED BY <1>k, <2>1
<1> QED BY <1>1, <1>2, <1>3, <1>4, <1>5, <1>6, <1>7, <1>8 DEF Next, User, Rest, Responds

LEMMA MeantInit == Init => Meant
<1> SUFFICES ASSUME Init PROVE Meant
  OBVIOUS
<1>1. Children
  BY ChildrenInit
<1>2. \A i \in 1..Len(<<>>) : FALSE
  BY EmptySeq
<1>3. Flight /\ \A c \in Chats : Heard(c) /\ Told(c) /\ Written(c) /\ Carded(c)
  BY <1>2 DEF Init, Flight, Heard, Told, Written, Carded, Over
<1> QED BY <1>1, <1>3 DEF Meant

LEMMA MeantStep == Unhurried /\ Meant /\ [Next]_vars => Meant'
<1> SUFFICES ASSUME Unhurried, Meant, [Next]_vars PROVE Meant'
  OBVIOUS
<1>1. Children' /\ Flight'
  BY ChildrenStep, FlightStep DEF Meant
<1>2. \A c \in Chats : Heard(c)' /\ Told(c)' /\ Written(c)' /\ Carded(c)'
  BY HeardStep, ToldStep, WrittenStep, CardedStep
<1> QED BY <1>1, <1>2 DEF Meant

\* Although an answer does not say which request it is to, the agent acts on an
\* approval only if the user approved that very request, and a refusal it gets
\* is one the user meant, or comes from his stop or from a corrupted stream.
THEOREM AgentActsOnWhatWasMeant ==
  ASSUME Unhurried
  PROVE  Spec => AnswersAreMeant
<1>1. Meant => [\A c \in Chats : ChildReads(c) =>
                  IF Grants(c) THEN answered[c] = "yes"
                  ELSE answered[c] = "no" \/ stopped[c] \/ Corrupt(c) \/ Over(c)]_vars
  <2> SUFFICES ASSUME Meant, NEW c \in Chats, ChildReads(c)
               PROVE  IF Grants(c) THEN answered[c] = "yes"
                      ELSE answered[c] = "no" \/ stopped[c] \/ Corrupt(c) \/ Over(c)
    OBVIOUS
  <2>1. child[c] \in Kinds /\ child[c] \notin {"over", "gone"} /\ stdin[c] \in Seq(Lines) /\ Written(c) /\ Heard(c)
    BY MeantTyped DEF ChildReads, Kinds, Meant
  <2>2. CASE stdin[c] = <<>>
    <3>1. ~Grants(c) /\ pc[c] \in {"reap", "done"}
      BY <2>2 DEF Grants, ChildReads, Closed
    <3> QED BY <2>1, <3>1 DEF Heard, Over
  <2>3. CASE stdin[c] # <<>>
    <3>1. Head(stdin[c]) = stdin[c][1] /\ stdin[c][1] \in Lines
      BY <2>1, <2>3, HeadAndTail
    <3>2. stdin[c][1].yes \in BOOLEAN /\ stdin[c][1].method = child[c]
      BY <2>1, <2>3, <3>1 DEF Written, Lines
    <3> QED BY <2>1, <2>3, <3>1, <3>2 DEF Written, Grants
  <2> QED BY <2>2, <2>3
<1>2. Meant /\ [Next]_vars => Meant'
  BY MeantStep
<1> QED BY <1>1, <1>2, MeantInit, PTL DEF Spec, AnswersAreMeant

=============================================================================
