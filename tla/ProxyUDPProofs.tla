--------------------------- MODULE ProxyUDPProofs ---------------------------
(***************************************************************************)
(* Proofs about ProxyUDP, for any number of datagrams of any lengths in    *)
(* both directions, any send buffer and any timeouts.                      *)
(***************************************************************************)
EXTENDS ProxyUDP, SequenceTheorems, TLAPS

Datagrams == Frames \union {Garbage}

(* What the reader is about to write is a datagram, and no reply is        *)
(* counted twice.                                                          *)
Holding ==
  /\ down = "write" => body \in Bodies
  /\ pending <= replies

TypeInv == TypeOK /\ Holding

-----------------------------------------------------------------------------
LEMMA StartFacts ==
  /\ MaxFrames \in Nat /\ Offsets \subseteq Nat
  /\ \A n \in Frames :
       /\ Start[n] \in Nat /\ Start[n + 1] \in Nat /\ Start[n + 1] \in Offsets
       /\ Size(n) \in 0..MaxLength /\ Start[n + 1] = Start[n] + 2 + Size(n)
  /\ \A m, n \in Frames : m < n => Start[m + 1] <= Start[n]
<1>1. MaxFrames \in Nat /\ MaxLength \in Nat
  BY ConstantsAssumption
<1>2. \A n \in 1..(MaxFrames + 1) :
        Start[n] \in Nat /\ (n # MaxFrames + 1 => Start[n] + 2 <= Start[MaxFrames + 1])
  BY <1>1, StartAssumption
<1>3. Offsets \subseteq Nat
  BY DEF Offsets
<1>4. ASSUME NEW n \in Frames
      PROVE  /\ Start[n] \in Nat /\ Start[n + 1] \in Nat /\ Start[n + 1] \in Offsets
             /\ Size(n) \in 0..MaxLength /\ Start[n + 1] = Start[n] + 2 + Size(n)
  <2>1. n \in 1..(MaxFrames + 1) /\ n + 1 \in 1..(MaxFrames + 1) /\ n < n + 1
    BY <1>1 DEF Frames
  <2>2. Start[n] + 2 <= Start[n + 1] /\ Size(n) <= MaxLength
    BY <2>1, StartAssumption
  <2>3. Start[MaxFrames + 1] \in Nat /\ Start[n + 1] <= Start[MaxFrames + 1]
    BY <1>1, <1>2, <2>1
  <2> QED BY <1>1, <1>2, <2>1, <2>2, <2>3 DEF Size, Offsets
<1>5. ASSUME NEW m \in Frames, NEW n \in Frames, m < n PROVE Start[m + 1] <= Start[n]
  <2>1. /\ n \in 1..(MaxFrames + 1) /\ m + 1 \in 1..(MaxFrames + 1)
        /\ m + 1 < n \/ m + 1 = n
    BY <1>1, <1>5 DEF Frames
  <2> QED BY <1>2, <2>1, StartAssumption
<1> QED BY <1>1, <1>3, <1>4, <1>5

LEMMA OffsetsBelow == \A q \in Offsets : \A p \in Nat : p <= q => p \in Offsets
<1>1. Start[MaxFrames + 1] \in Nat
  BY ConstantsAssumption, StartAssumption
<1> QED BY <1>1 DEF Offsets

LEMMA LengthsType == \A p : Lengths(p) \subseteq 0..MaxLength
  BY StartFacts DEF Lengths

LEMMA DatagramType == \A p, l : Datagram(p, l) \in Datagrams
<1> SUFFICES ASSUME NEW p, NEW l PROVE Datagram(p, l) \in Datagrams
  OBVIOUS
<1> DEFINE whole == {n \in Frames : p = Start[n] + 2 /\ l = Size(n)}
<1>1. whole # {} => (CHOOSE n \in whole : TRUE) \in whole
  OBVIOUS
<1>2. Datagram(p, l) = IF whole = {} THEN Garbage ELSE CHOOSE n \in whole : TRUE
  BY DEF Datagram
<1>3. whole \subseteq Frames
  OBVIOUS
<1> HIDE DEF whole
<1> QED BY <1>1, <1>2, <1>3 DEF Datagrams

LEMMA BodiesAreSeqs == \A b \in Bodies : b \in Seq(Datagrams)
<1>1. \A n \in Datagrams : <<n>> \in Seq(Datagrams)
  OBVIOUS
<1>2. Bodies = {<<>>} \union {<<n>> : n \in Datagrams}
  BY DEF Bodies, Datagrams
<1> QED BY <1>1, <1>2, EmptySeq

LEMMA InitTypes == Init => TypeInv
<1> SUFFICES ASSUME Init PROVE TypeInv
  OBVIOUS
<1>1. out \in Seq(Datagrams)
  BY EmptySeq DEF Init
<1>2. /\ shut \in BOOLEAN /\ upOpen \in BOOLEAN /\ client = "open"
      /\ wr = 0 /\ span = 0 /\ at = 0 /\ rd = 0 /\ len = 0
      /\ replies = 0 /\ pending = 0 /\ buffered = 0
      /\ timer = IdleTimeout /\ quiet = 0 /\ longest = 0
      /\ downTimer = ReadTimeout /\ upTimer = ReadTimeout
      /\ body = Garbage
      /\ down = "length" /\ up = "read" /\ alarm = "select" /\ main = "select"
  BY DEF Init
<1>3. 0 \in Offsets
  BY ConstantsAssumption, StartAssumption DEF Offsets
<1> QED
  BY <1>1, <1>2, <1>3, ConstantsAssumption DEF TypeInv, TypeOK, Holding, Datagrams

LEMMA DownTypes == TypeInv /\ DownSteps => TypeInv'
<1> SUFFICES ASSUME TypeInv, DownSteps PROVE TypeInv'
  OBVIOUS
<1> USE ConstantsAssumption DEF TypeInv, TypeOK, Holding
<1>0. /\ wr \in Nat /\ at \in Nat /\ rd \in Nat /\ at <= rd /\ rd <= wr /\ len \in Nat
      /\ ReadEnd \in Nat /\ at <= ReadEnd
  BY StartFacts DEF ReadEnd
<1>9. ASSUME ReadEnd <= wr, at' = ReadEnd, rd' = ReadEnd, wr' = wr
      PROVE  at' \in Offsets /\ rd' \in at'..wr'
  <2>1. at' \in Nat /\ at' <= wr /\ rd' = at'
    BY <1>0, <1>9
  <2>2. at' \in Offsets
    BY <2>1, OffsetsBelow
  <2> QED BY <1>0, <1>9, <2>1, <2>2
<1>1. CASE DownReadsPart
  <2>1. rd' \in at'..wr'
    BY <1>0, <1>1 DEF DownReadsPart, stream
  <2> QED BY <1>1, <2>1 DEF DownReadsPart, stream, upVars, conns, alarmVars, history
<1>2. CASE DownReadsLength
  <2>1. PICK l \in Lengths(at) :
          /\ len' = l
          /\ down' = IF l = 0 THEN "write" ELSE "body"
          /\ body' = IF l = 0 THEN <<>> ELSE body
    BY <1>2 DEF DownReadsLength
  <2>2. /\ len' \in 0..MaxLength /\ down' \in {"write", "body"}
        /\ body' \in Bodies \union {Garbage} /\ (down' = "write" => body' \in Bodies)
    BY <2>1, LengthsType DEF Bodies
  <2>3. at' \in Offsets /\ rd' \in at'..wr'
    BY <1>2, <1>9 DEF DownReadsLength, stream
  <2> QED
    BY <1>2, <2>2, <2>3 DEF DownReadsLength, stream, upVars, conns, alarmVars, history
<1>3. CASE DownReadsBody
  <2>1. body' \in Bodies
    BY <1>3, DatagramType DEF DownReadsBody, Bodies, Datagrams
  <2>2. at' \in Offsets /\ rd' \in at'..wr'
    BY <1>3, <1>9 DEF DownReadsBody, stream
  <2> QED
    BY <1>3, <2>1, <2>2 DEF DownReadsBody, stream, upVars, conns, alarmVars, history
<1>4. CASE DownTimesOut
  <2>1. at' \in Offsets /\ rd' \in at'..wr'
    BY <1>0, <1>4, OffsetsBelow DEF DownTimesOut, stream
  <2> QED
    BY <1>4, <2>1 DEF DownTimesOut, stream, upVars, conns, alarmVars, history
<1>5. CASE DownEnds
  BY <1>5 DEF DownEnds, stream, upVars, conns, alarmVars, history
<1>6. CASE DownWrites
  <2>1. out' \in Seq(Datagrams)
    BY <1>6, BodiesAreSeqs, ConcatProperties DEF DownWrites, Datagrams
  <2> QED
    BY <1>6, <2>1 DEF DownWrites, Datagrams, stream, upVars, conns, alarmVars
<1>7. CASE DownWriteFails
  BY <1>7 DEF DownWriteFails, stream, upVars, conns, alarmVars, history
<1>8. CASE DownResets
  BY <1>8 DEF DownResets, ResetAlarm, stream, upVars, conns, history
<1> QED
  BY <1>1, <1>2, <1>3, <1>4, <1>5, <1>6, <1>7, <1>8 DEF DownSteps

LEMMA UpTypes == TypeInv /\ UpSteps => TypeInv'
<1> SUFFICES ASSUME TypeInv, UpSteps PROVE TypeInv'
  OBVIOUS
<1> USE ConstantsAssumption DEF TypeInv, TypeOK, Holding
<1>1. CASE UpReads
  BY <1>1 DEF UpReads, stream, downVars, conns, alarmVars, history
<1>2. CASE UpTimesOut
  BY <1>2 DEF UpTimesOut, stream, downVars, conns, alarmVars, history
<1>6. CASE UpEnds
  BY <1>6 DEF UpEnds, stream, downVars, conns, alarmVars, history
<1>3. CASE UpWrites
  BY <1>3 DEF UpWrites, stream, downVars, conns, alarmVars
<1>4. CASE UpWriteFails
  BY <1>4 DEF UpWriteFails, stream, downVars, conns, alarmVars, history
<1>5. CASE UpResets
  BY <1>5 DEF UpResets, ResetAlarm, stream, downVars, conns, history
<1> QED
  BY <1>1, <1>2, <1>3, <1>4, <1>5, <1>6 DEF UpSteps

LEMMA RestTypes ==
  ASSUME TypeInv,
         \/ AlarmFires \/ MainSteps
         \/ ClientSends \/ ClientCloses \/ ClientLost \/ ClientReceives \/ UpstreamReplies
         \/ Tick \/ UNCHANGED vars
  PROVE  TypeInv'
<1> USE ConstantsAssumption DEF TypeInv, TypeOK, Holding
<1>1. CASE AlarmFires
  BY <1>1 DEF AlarmFires, stream, downVars, upVars, conns, history
<1>2. CASE MainSteps
  <2>1. main' \in {"waitUp", "waitDown", "returned"} /\ shut' \in BOOLEAN /\ upOpen' \in BOOLEAN
    BY <1>2 DEF MainSteps, MainDownClosed, MainUpClosed, MainReturns, conns
  <2>2. UNCHANGED <<stream, downVars, upVars, alarmVars, history>>
    BY <1>2 DEF MainSteps, MainDownClosed, MainUpClosed, MainReturns
  <2> QED BY <2>1, <2>2 DEF stream, downVars, upVars, alarmVars, history
<1>3. CASE ClientSends
  <2>1. PICK n \in Frames : \E p \in (wr + 1)..Start[n + 1] :
          wr' = p /\ span' = IF p = Start[n + 1] THEN 0 ELSE span
    BY <1>3 DEF ClientSends
  <2>2. /\ Start[n + 1] \in Offsets /\ Start[n + 1] \in Nat /\ wr \in Nat
        /\ wr' \in (wr + 1)..Start[n + 1] /\ span' \in 0..MaxSpan
    BY <2>1, StartFacts
  <2>3. wr' \in Offsets
    BY <2>2, OffsetsBelow
  <2>4. rd \in at..wr'
    BY <2>2, StartFacts
  <2>5. UNCHANGED <<client, downVars, upVars, conns, alarmVars, main, history>>
    BY <1>3 DEF ClientSends
  <2> QED
    BY <2>2, <2>3, <2>4, <2>5 DEF downVars, upVars, conns, alarmVars, history
<1>4. CASE ClientCloses \/ ClientLost
  <2>1. client' \in {"eof", "gone"} /\ span' = 0 /\ wr' = wr
    BY <1>4 DEF ClientCloses, ClientLost
  <2>2. UNCHANGED <<downVars, upVars, conns, alarmVars, main, history>>
    BY <1>4 DEF ClientCloses, ClientLost
  <2> QED BY <2>1, <2>2 DEF downVars, upVars, conns, alarmVars, history
<1>5. CASE ClientReceives
  BY <1>5 DEF ClientReceives, stream, downVars, conns, alarmVars, history
<1>6. CASE UpstreamReplies
  BY <1>6 DEF UpstreamReplies, stream, downVars, conns, alarmVars, history
<1>7. CASE Tick
  <2>1. span' \in 0..MaxSpan
    BY <1>7 DEF Tick
  <2>2. /\ downTimer' \in 0..ReadTimeout /\ upTimer' \in 0..ReadTimeout
        /\ timer' \in 0..IdleTimeout /\ quiet' \in 0..IdleTimeout /\ longest' \in 0..IdleTimeout
    BY <1>7 DEF Tick, Less, AtMost
  <2>3. UNCHANGED <<wr, client, buffered, down, at, rd, len, body, out, up, replies, pending,
                    conns, alarm, main>>
    BY <1>7 DEF Tick
  <2> QED BY <2>1, <2>2, <2>3 DEF conns
<1>8. CASE UNCHANGED vars
  BY <1>8 DEF vars, stream, downVars, upVars, conns, alarmVars, history
<1> QED
  BY <1>1, <1>2, <1>3, <1>4, <1>5, <1>6, <1>7, <1>8

LEMMA TypeInvariant == Spec => []TypeInv
<1>1. TypeInv /\ [Next]_vars => TypeInv'
  BY DownTypes, UpTypes, RestTypes DEF Next
<1> QED
  BY <1>1, InitTypes, PTL DEF Spec

(* Every variable keeps its type: the reader stays inside the stream that  *)
(* has arrived, whatever it takes for a length, and the send buffer and    *)
(* the upstream's socket hold no more than there was to put into them.     *)
THEOREM TypeCorrect == Spec => []TypeOK
<1>1. TypeInv => TypeOK
  BY DEF TypeInv
<1> QED
  BY <1>1, TypeInvariant, PTL

-----------------------------------------------------------------------------
(* A copied datagram and the reset that follows it are one instant: while  *)
(* neither goroutine is between the two, what has gone by on the timer     *)
(* went by without a datagram, and it is on record in any case.            *)
IdleInv ==
  /\ alarm = "stuck" \/ down = "reset" \/ up = "reset" \/ quiet + timer >= IdleTimeout
  /\ longest + timer >= IdleTimeout
  /\ alarm = "stuck" => timer = 0

LEMMA IdleStep == TypeInv /\ IdleInv /\ [Next]_vars => IdleInv'
<1> SUFFICES ASSUME TypeInv, IdleInv, [Next]_vars PROVE IdleInv'
  OBVIOUS
<1>0. /\ timer \in 0..IdleTimeout /\ quiet \in 0..IdleTimeout /\ longest \in 0..IdleTimeout
      /\ IdleTimeout \in Nat \ {0}
  BY ConstantsAssumption DEF TypeInv, TypeOK
<1> USE DEF IdleInv
<1>1. CASE /\ UNCHANGED <<alarmVars, history>>
           /\ down = "reset" => down' = "reset"
           /\ up = "reset" => up' = "reset"
  BY <1>1 DEF alarmVars, history
<1>2. CASE DownWrites \/ UpWrites
  <2>1. UNCHANGED <<alarm, timer, longest>> /\ (down' = "reset" \/ up' = "reset")
    BY <1>2 DEF DownWrites, UpWrites, alarmVars
  <2> QED BY <2>1
<1>3. CASE DownResets \/ UpResets
  <2>1. /\ timer' = IF alarm = "stuck" THEN timer ELSE IdleTimeout
        /\ UNCHANGED <<alarm, quiet, longest>>
    BY <1>3 DEF DownResets, UpResets, ResetAlarm, Done, history
  <2> QED BY <1>0, <2>1
<1>4. CASE AlarmFires
  BY <1>4 DEF AlarmFires, history
<1>5. CASE Tick
  <2>1. /\ down # "reset" /\ up # "reset" /\ (alarm = "stuck" \/ timer # 0)
        /\ alarm' = alarm
        /\ timer' = (IF timer > 0 THEN timer - 1 ELSE 0)
        /\ quiet' = (IF quiet + 1 <= IdleTimeout THEN quiet + 1 ELSE IdleTimeout)
        /\ longest' = (IF quiet' > longest THEN quiet' ELSE longest)
    BY <1>5 DEF Tick, CanStep, Less, AtMost, Done
  <2>2. PICK q \in Nat : q = quiet' /\ q = IF quiet + 1 <= IdleTimeout THEN quiet + 1 ELSE IdleTimeout
    BY <1>0, <2>1
  <2>3. PICK l \in Nat : l = longest' /\ l = IF q > longest THEN q ELSE longest
    BY <1>0, <2>1, <2>2
  <2>4. PICK t \in Nat : t = timer' /\ t = IF timer > 0 THEN timer - 1 ELSE 0
    BY <1>0, <2>1
  <2>5. CASE alarm = "stuck"
    BY <1>0, <2>1, <2>2, <2>3, <2>4, <2>5
  <2>6. CASE alarm # "stuck"
    <3>1. quiet + timer >= IdleTimeout /\ timer > 0
      BY <1>0, <2>1, <2>6
    <3>2. q + t >= IdleTimeout /\ l + t >= IdleTimeout
      BY <1>0, <2>2, <2>3, <2>4, <3>1
    <3> QED BY <2>1, <2>2, <2>3, <2>4, <2>6, <3>2
  <2> QED BY <2>5, <2>6
<1>6. CASE DownSteps /\ ~DownWrites /\ ~DownResets
  <2>1. UNCHANGED <<alarmVars, history, upVars>>
    BY <1>6 DEF DownSteps, DownReadsPart, DownReadsLength, DownReadsBody, DownTimesOut, DownEnds,
                DownWriteFails
  <2>2. down # "reset"
    BY <1>6 DEF DownSteps, DownReadsPart, DownReadsLength, DownReadsBody, DownTimesOut, DownEnds,
                DownWriteFails, Reading
  <2> QED BY <1>1, <2>1, <2>2 DEF upVars
<1>7. CASE UpSteps /\ ~UpWrites /\ ~UpResets
  BY <1>1, <1>7 DEF UpSteps, UpReads, UpTimesOut, UpEnds, UpWriteFails, downVars
<1>8. CASE MainSteps \/ UpstreamReplies
  BY <1>1, <1>8 DEF MainSteps, MainDownClosed, MainUpClosed, MainReturns, UpstreamReplies,
                    downVars, upVars
<1>9. CASE ClientSends \/ ClientCloses \/ ClientLost \/ ClientReceives
  BY <1>1, <1>9 DEF ClientSends, ClientCloses, ClientLost, ClientReceives, downVars, upVars
<1>10. CASE UNCHANGED vars
  BY <1>1, <1>10 DEF vars, downVars, upVars
<1> QED
  BY <1>2, <1>3, <1>4, <1>5, <1>6, <1>7, <1>8, <1>9, <1>10 DEF Next

(* The alarm ends a session only after a whole IdleTimeout without a       *)
(* datagram in either direction, for any timeouts and however the two      *)
(* goroutines and the alarm's are interleaved.                             *)
THEOREM AlarmMeansIdle == Spec => []IdleOnly
<1>1. Init => IdleInv
  BY ConstantsAssumption DEF Init, IdleInv
<1>2. TypeInv /\ IdleInv => IdleOnly
  BY ConstantsAssumption DEF TypeInv, TypeOK, IdleInv, IdleOnly, Done
<1> QED
  BY <1>1, <1>2, IdleStep, TypeInvariant, PTL DEF Spec

-----------------------------------------------------------------------------
(* A length never arrives without its second byte. *)
Whole == \A n \in Frames : wr # Start[n] + 1

(* The reader knows its place: it takes a length for a length and a body   *)
(* for a body.                                                             *)
Place ==
  /\ down \in {"length", "reset"} =>
       \E k \in 0..MaxFrames : at = Start[k + 1] /\ rd = at /\ Delivered(out, k)
  /\ down = "body" =>
       \E k \in Frames : /\ at = Start[k] + 2 /\ len = Size(k) /\ rd < at + len
                         /\ Delivered(out, k - 1)
  /\ down = "write" =>
       \E k \in Frames : /\ at = Start[k + 1] /\ rd = at
                         /\ Delivered(out, k - 1)
                         /\ body = IF k \in Empty THEN <<>> ELSE <<k>>
  /\ down = "closed" => UpstreamIntact

(* The deadline of a body is later than the latest arrival of its end. *)
BodyInTime ==
  down = "body" =>
    /\ downTimer > 0
    /\ client = "open" /\ wr < at + len => downTimer + span >= ReadTimeout

StreamInv == Whole /\ Place /\ BodyInTime

-----------------------------------------------------------------------------
LEMMA DeliveredSkip ==
  ASSUME NEW s, NEW k \in Nat, Delivered(s, k), k + 1 \in Empty
  PROVE  Delivered(s, k + 1)
<1>1. (1..(k + 1)) \ Empty = (1..k) \ Empty
  OBVIOUS
<1> QED BY <1>1 DEF Delivered

LEMMA DeliveredNext ==
  ASSUME NEW s \in Seq(Datagrams), NEW k \in Nat, Delivered(s, k), k + 1 \notin Empty,
         k + 1 \in Datagrams
  PROVE  Delivered(Append(s, k + 1), k + 1)
<1> DEFINE t == Append(s, k + 1)
<1>1. /\ Len(s) \in Nat /\ DOMAIN s = 1..Len(s) /\ DOMAIN t = 1..(Len(s) + 1)
      /\ \A i \in 1..Len(s) : t[i] = s[i]
      /\ t[Len(s) + 1] = k + 1
  BY AppendProperties, LenProperties
<1> HIDE DEF t
<1>2. \A i \in DOMAIN t : t[i] \in (1..(k + 1)) \ Empty
  BY <1>1 DEF Delivered
<1>3. \A i, j \in DOMAIN t : i < j => t[i] < t[j]
  BY <1>1 DEF Delivered
<1>4. ASSUME NEW n \in (1..(k + 1)) \ Empty PROVE \E i \in DOMAIN t : t[i] = n
  <2>1. CASE n = k + 1
    BY <1>1, <2>1
  <2>2. CASE n # k + 1
    <3>1. PICK i \in DOMAIN s : s[i] = n
      BY <2>2 DEF Delivered
    <3> QED BY <1>1, <3>1
  <2> QED BY <2>1, <2>2
<1> QED BY <1>2, <1>3, <1>4 DEF Delivered, t

(* The frame a byte belongs to is the only one. *)
LEMMA OneFrame ==
  ASSUME NEW m \in Frames, NEW n \in Frames, NEW p \in Nat,
         Start[m] <= p, p < Start[m + 1], Start[n] <= p, p < Start[n + 1]
  PROVE  m = n
<1>1. /\ m \in Nat /\ n \in Nat
      /\ Start[m] \in Nat /\ Start[m + 1] \in Nat /\ Start[n] \in Nat /\ Start[n + 1] \in Nat
  BY StartFacts DEF Frames
<1>2. ~(m < n)
  BY <1>1, StartFacts
<1>3. ~(n < m)
  BY <1>1, StartFacts
<1> QED BY <1>1, <1>2, <1>3

LEMMA LengthsAtFrame ==
  ASSUME NEW n \in Frames PROVE Lengths(Start[n]) = {Size(n)}
<1>1. ASSUME NEW m \in Frames, Start[m] = Start[n] PROVE m = n
  <2>1. Start[n] \in Nat /\ Start[n] < Start[n + 1] /\ Start[m] < Start[m + 1]
    BY StartFacts
  <2> QED BY <1>1, <2>1, OneFrame
<1>2. {m \in Frames : Start[m] = Start[n]} = {n}
  BY <1>1
<1> QED BY <1>2 DEF Lengths

LEMMA DatagramOfFrame ==
  ASSUME NEW n \in Frames PROVE Datagram(Start[n] + 2, Size(n)) = n
<1>1. ASSUME NEW m \in Frames, Start[n] + 2 = Start[m] + 2 PROVE m = n
  <2>1. /\ Start[n] \in Nat /\ Start[m] \in Nat
        /\ Start[n] < Start[n + 1] /\ Start[m] < Start[m + 1]
    BY StartFacts
  <2>2. Start[m] = Start[n]
    BY <1>1, <2>1
  <2> QED BY <2>1, <2>2, OneFrame
<1>2. {m \in Frames : Start[n] + 2 = Start[m] + 2 /\ Size(n) = Size(m)} = {n}
  BY <1>1
<1> QED BY <1>2 DEF Datagram

(* A goroutine that stops leaves what was delivered as it is. *)
LEMMA StopsIntact == TypeInv /\ Place => UpstreamIntact
<1> SUFFICES ASSUME TypeInv, Place PROVE UpstreamIntact
  OBVIOUS
<1>0. at \in Nat /\ rd \in Nat /\ wr \in Nat /\ at <= rd /\ rd <= wr /\ MaxFrames \in Nat
  BY StartFacts DEF TypeInv, TypeOK
<1>1. CASE down \in {"length", "reset"}
  BY <1>0, <1>1 DEF Place, UpstreamIntact
<1>2. ASSUME NEW k \in Frames, Start[k] <= at, Delivered(out, k - 1) PROVE UpstreamIntact
  <2>1. k - 1 \in 0..MaxFrames /\ (k - 1) + 1 = k
    BY <1>0 DEF Frames
  <2>2. Start[k] <= wr
    BY <1>0, <1>2, StartFacts
  <2> QED BY <1>2, <2>1, <2>2 DEF UpstreamIntact
<1>3. CASE down = "body"
  BY <1>0, <1>2, <1>3, StartFacts DEF Place
<1>4. CASE down = "write"
  BY <1>0, <1>2, <1>4, StartFacts DEF Place
<1>5. CASE down = "closed"
  BY <1>5 DEF Place
<1> QED BY <1>1, <1>3, <1>4, <1>5 DEF TypeInv, TypeOK

LEMMA ReaderStreams ==
  ASSUME TypeInv, StreamInv, DownSteps
  PROVE  StreamInv'
<1> USE DEF StreamInv
<1>0. /\ at \in Nat /\ rd \in Nat /\ wr \in Nat /\ at <= rd /\ rd <= wr /\ len \in Nat
      /\ MaxFrames \in Nat /\ wr \in Offsets /\ out \in Seq(Datagrams)
      /\ ReadTimeout \in Nat \ {0}
  BY StartFacts, ConstantsAssumption DEF TypeInv, TypeOK, Datagrams
<1>i. UpstreamIntact
  BY StopsIntact
<1>w. Whole' /\ UNCHANGED stream
  <2>1. UNCHANGED stream
    BY DEF DownSteps, DownReadsPart, DownReadsLength, DownReadsBody, DownTimesOut, DownEnds,
           DownWrites, DownWriteFails, DownResets
  <2> QED BY <2>1 DEF Whole, stream
<1>1. CASE DownReadsPart
  <2>0. /\ rd < wr /\ wr < ReadEnd /\ UNCHANGED <<down, at, len, body, downTimer, out>>
        /\ down \in {"length", "body"}
    BY <1>1 DEF DownReadsPart, Reading
  <2>1. down = "body"
    <3> SUFFICES ASSUME down = "length" PROVE FALSE
      BY <2>0
    <3>1. PICK k \in 0..MaxFrames : at = Start[k + 1] /\ rd = at
      BY DEF Place
    <3>2. wr = Start[k + 1] + 1
      BY <1>0, <2>0, <3>1 DEF ReadEnd
    <3>3. k # MaxFrames
      BY <1>0, <3>1, <3>2 DEF Offsets
    <3>4. k + 1 \in Frames
      BY <1>0, <3>3 DEF Frames
    <3> QED BY <3>2, <3>4 DEF Whole
  <2>2. rd' = wr /\ rd' < at' + len'
    BY <1>1, <2>0, <2>1 DEF DownReadsPart, ReadEnd
  <2>4. PICK k \in Frames : at = Start[k] + 2 /\ len = Size(k) /\ Delivered(out, k - 1)
    BY <2>1 DEF Place
  <2>5. Place'
    BY <2>0, <2>1, <2>2, <2>4 DEF Place
  <2>3. BodyInTime'
    BY <1>w, <2>0, <2>1 DEF BodyInTime, stream
  <2> QED BY <1>w, <2>3, <2>5
<1>2. CASE DownReadsLength
  <2>0. /\ down = "length" /\ at + 2 <= wr /\ at' = at + 2 /\ rd' = at + 2 /\ out' = out
        /\ downTimer' = ReadTimeout
    BY <1>2 DEF DownReadsLength, ReadEnd
  <2>1. PICK k \in 0..MaxFrames : at = Start[k + 1] /\ Delivered(out, k)
    BY <2>0 DEF Place
  <2>2. k + 1 \in Frames /\ (k + 1) - 1 = k
    <3>1. k # MaxFrames
      BY <1>0, <2>0, <2>1 DEF Offsets
    <3> QED BY <1>0, <3>1 DEF Frames
  <2>3. PICK n \in Frames : n = k + 1
    BY <2>2
  <2>4. /\ len' = Size(n)
        /\ down' = IF Size(n) = 0 THEN "write" ELSE "body"
        /\ body' = IF Size(n) = 0 THEN <<>> ELSE body
    BY <1>2, <2>1, <2>3, LengthsAtFrame DEF DownReadsLength
  <2>5. at = Start[n] /\ Delivered(out', n - 1)
    BY <2>0, <2>1, <2>2, <2>3
  <2>6. CASE Size(n) = 0
    <3>1. /\ down' = "write" /\ body' = <<>> /\ n \in Empty
          /\ at' = Start[n + 1] /\ rd' = at'
      BY <1>0, <2>0, <2>4, <2>5, <2>6, StartFacts DEF Empty
    <3> QED BY <1>w, <2>5, <3>1 DEF Place, BodyInTime
  <2>7. CASE Size(n) # 0
    <3>1. down' = "body" /\ len' = Size(n) /\ at' = Start[n] + 2
      BY <2>0, <2>4, <2>5, <2>7
    <3>2. Place'
      <4>1. rd' = at' /\ rd' < at' + len'
        BY <1>0, <2>0, <2>7, <3>1, StartFacts
      <4> QED BY <2>5, <3>1, <4>1 DEF Place
    <3>3. BodyInTime'
      <4>1. span' = span /\ span \in Nat /\ downTimer' = ReadTimeout
        BY <1>w, <2>0, ConstantsAssumption DEF stream, TypeInv, TypeOK
      <4> QED BY <1>0, <4>1 DEF BodyInTime
    <3> QED BY <1>w, <3>2, <3>3
  <2> QED BY <2>6, <2>7
<1>3. CASE DownReadsBody
  <2>0. /\ down = "body" /\ at' = at + len /\ rd' = at' /\ out' = out /\ down' = "write"
        /\ body' = <<Datagram(at, len)>>
    BY <1>3 DEF DownReadsBody, ReadEnd
  <2>1. PICK k \in Frames : /\ at = Start[k] + 2 /\ len = Size(k) /\ rd < at + len
                            /\ Delivered(out, k - 1)
    BY <2>0 DEF Place
  <2>2. body' = <<k>> /\ k \notin Empty
    <3>1. Size(k) # 0
      BY <1>0, <2>1
    <3> QED BY <2>0, <2>1, <3>1, DatagramOfFrame DEF Empty
  <2>3. at' = Start[k + 1]
    BY <2>0, <2>1, StartFacts
  <2> QED BY <1>w, <2>0, <2>1, <2>2, <2>3 DEF Place, BodyInTime
<1>4. CASE DownTimesOut
  <2>1. /\ down = "length" /\ down' \in {"length", "closed"} /\ at' = rd
        /\ UNCHANGED <<rd, out>>
    BY <1>4 DEF DownTimesOut, Reading, BodyInTime
  <2>2. PICK k \in 0..MaxFrames : at = Start[k + 1] /\ rd = at /\ Delivered(out, k)
    BY <2>1 DEF Place
  <2>3. at' = Start[k + 1] /\ rd' = at' /\ Delivered(out', k)
    BY <2>1, <2>2
  <2>4. UpstreamIntact'
    BY <1>i, <1>w, <2>1 DEF UpstreamIntact, stream
  <2> QED BY <1>w, <2>1, <2>3, <2>4 DEF Place, BodyInTime
<1>5. CASE DownEnds \/ DownWriteFails
  <2>1. down' = "closed" /\ out' = out
    BY <1>5 DEF DownEnds, DownWriteFails
  <2>2. UpstreamIntact'
    BY <1>i, <1>w, <2>1 DEF UpstreamIntact, stream
  <2> QED BY <1>w, <2>1, <2>2 DEF Place, BodyInTime
<1>6. CASE DownWrites
  <2>0. /\ down = "write" /\ down' = "reset" /\ out' = out \o body /\ UNCHANGED <<at, rd>>
    BY <1>6 DEF DownWrites
  <2>1. PICK k \in Frames : /\ at = Start[k + 1] /\ rd = at
                            /\ Delivered(out, k - 1)
                            /\ body = IF k \in Empty THEN <<>> ELSE <<k>>
    BY <2>0 DEF Place
  <2>2. k - 1 \in Nat /\ (k - 1) + 1 = k /\ k \in Datagrams /\ k \in 0..MaxFrames
    BY <1>0 DEF Frames, Datagrams
  <2>3. Delivered(out', k)
    <3>1. CASE k \in Empty
      <4>1. out' = out
        BY <1>0, <2>0, <2>1, <3>1, ConcatEmptySeq
      <4> QED BY <2>1, <2>2, <3>1, <4>1, DeliveredSkip
    <3>2. CASE k \notin Empty
      <4>1. out' = Append(out, k)
        BY <1>0, <2>0, <2>1, <2>2, <3>2, AppendIsConcat
      <4> QED BY <1>0, <2>1, <2>2, <3>2, <4>1, DeliveredNext
    <3> QED BY <3>1, <3>2
  <2>4. at' = Start[k + 1] /\ rd' = at'
    BY <2>0, <2>1
  <2> QED BY <1>w, <2>0, <2>2, <2>3, <2>4 DEF Place, BodyInTime
<1>7. CASE DownResets
  <2>1. down = "reset" /\ down' = "length" /\ UNCHANGED <<at, rd, out>>
    BY <1>7 DEF DownResets
  <2>2. PICK k \in 0..MaxFrames : at = Start[k + 1] /\ rd = at /\ Delivered(out, k)
    BY <2>1 DEF Place
  <2>3. at' = Start[k + 1] /\ rd' = at' /\ Delivered(out', k)
    BY <2>1, <2>2
  <2> QED BY <1>w, <2>1, <2>3 DEF Place, BodyInTime
<1> QED
  BY <1>1, <1>2, <1>3, <1>4, <1>5, <1>6, <1>7 DEF DownSteps

(* More bytes leave the reader where it is. *)
LEMMA PlaceStays ==
  ASSUME TypeInv, Place, UNCHANGED downVars, wr' \in Nat, wr <= wr'
  PROVE  Place'
<1>1. wr \in Nat
  BY StartFacts DEF TypeInv, TypeOK
<1>2. UpstreamIntact => UpstreamIntact'
  <2> SUFFICES ASSUME UpstreamIntact PROVE UpstreamIntact'
    OBVIOUS
  <2>1. PICK k \in 0..MaxFrames : Start[k + 1] <= wr /\ Delivered(out, k)
    BY DEF UpstreamIntact
  <2>2. Start[k + 1] \in Nat
    <3>1. k + 1 \in 1..(MaxFrames + 1)
      BY ConstantsAssumption
    <3> QED BY <3>1, StartAssumption
  <2>3. Start[k + 1] <= wr' /\ Delivered(out', k)
    BY <1>1, <2>1, <2>2 DEF downVars, Delivered
  <2> QED BY <2>3 DEF UpstreamIntact
<1>3. UNCHANGED <<down, at, rd, len, body, out>>
  BY DEF downVars
<1>4. (down = "closed" => UpstreamIntact) => (down' = "closed" => UpstreamIntact')
  BY <1>2, <1>3
<1> HIDE DEF UpstreamIntact
<1> QED BY <1>3, <1>4 DEF Place

LEMMA ClientStreams ==
  ASSUME ~SplitLengths, TypeInv, StreamInv, ClientSends
  PROVE  StreamInv'
<1> USE DEF StreamInv
<1>0. /\ wr \in Nat /\ at \in Nat /\ len \in Nat /\ rd \in Nat /\ at <= rd /\ rd <= wr
  BY StartFacts DEF TypeInv, TypeOK
<1>n. PICK n \in Frames :
        /\ Start[n] <= wr /\ wr < Start[n + 1]
        /\ \E p \in (wr + 1)..Start[n + 1] :
             /\ SplitLengths \/ p # Start[n] + 1
             /\ wr' = p
             /\ span' = IF p = Start[n + 1] THEN 0 ELSE span
  BY DEF ClientSends
<1>1. /\ Start[n] <= wr /\ wr < Start[n + 1]
      /\ wr' \in (wr + 1)..Start[n + 1]
      /\ wr' # Start[n] + 1
      /\ span' = IF wr' = Start[n + 1] THEN 0 ELSE span
      /\ client = "open"
  BY <1>n DEF ClientSends
<1>2. UNCHANGED downVars
  BY DEF ClientSends
<1>3. /\ Start[n] \in Nat /\ Start[n + 1] \in Nat /\ Start[n] + 2 <= Start[n + 1]
      /\ wr' \in Nat /\ wr < wr' /\ wr' <= Start[n + 1] /\ wr' # Start[n] + 1
      /\ Start[n] < wr'
  BY <1>0, <1>1, StartFacts
<1>4. Place'
  BY <1>0, <1>2, <1>3, PlaceStays
<1>5. Whole'
  <2> SUFFICES ASSUME NEW m \in Frames, wr' = Start[m] + 1 PROVE FALSE
    BY DEF Whole
  <2>1. /\ Start[m] \in Nat /\ Start[m] + 2 <= Start[m + 1] /\ Start[m + 1] \in Nat
    BY StartFacts
  <2>2. PICK q \in Nat : q + 1 = wr'
    BY <2>1
  <2>3. Start[m] <= q /\ q < Start[m + 1] /\ Start[n] <= q /\ q < Start[n + 1]
    BY <1>3, <2>1, <2>2
  <2>4. m = n
    BY <2>3, OneFrame
  <2> QED BY <1>3, <2>4
<1>6. BodyInTime'
  <2> SUFFICES ASSUME down = "body", wr' < at + len
               PROVE  downTimer > 0 /\ downTimer + span' >= ReadTimeout
    <3>1. CASE down = "body" /\ wr' < at + len
      BY <1>2, <3>1 DEF BodyInTime, downVars
    <3>2. CASE ~(down = "body" /\ wr' < at + len)
      BY <1>2, <3>2 DEF BodyInTime, downVars
    <3> QED BY <3>1, <3>2
  <2>1. PICK k \in Frames : at = Start[k] + 2 /\ len = Size(k)
    BY DEF Place
  <2>2. Start[k] \in Nat /\ Start[k + 1] \in Nat /\ Start[k + 1] = at + len
    BY <2>1, StartFacts
  <2>3. Start[k] <= wr /\ wr < Start[k + 1]
    BY <1>0, <1>3, <2>1, <2>2
  <2>4. k = n
    BY <1>0, <1>1, <2>3, OneFrame
  <2>5. span' = span /\ wr < at + len
    BY <1>1, <1>3, <2>2, <2>3, <2>4
  <2> QED BY <1>1, <2>5 DEF BodyInTime
<1> QED BY <1>4, <1>5, <1>6

LEMMA TickStreams ==
  ASSUME MaxSpan < ReadTimeout, TypeInv, StreamInv, Tick
  PROVE  StreamInv'
<1> USE DEF StreamInv
<1>0. /\ UNCHANGED <<wr, down, at, rd, len, body, out>>
      /\ downTimer' = (IF downTimer > 0 THEN downTimer - 1 ELSE 0)
      /\ down = "body" => rd = wr /\ client = "open"
      /\ downTimer \in Nat /\ span \in Nat /\ MaxSpan \in Nat /\ ReadTimeout \in Nat
      /\ wr \in Nat /\ rd \in Nat /\ at \in Nat /\ len \in Nat /\ at <= rd /\ rd <= wr
      /\ client \in {"open", "eof", "gone"}
  BY ConstantsAssumption, StartFacts DEF Tick, CanStep, Reading, Less, TypeInv, TypeOK
<1>1. Whole' /\ Place'
  BY <1>0 DEF Whole, Place, UpstreamIntact, Delivered
<1>2. ASSUME down = "body", wr < at + len
      PROVE  downTimer' > 0 /\ downTimer' + span' >= ReadTimeout
  <2>1. PICK k \in Frames : at = Start[k] + 2 /\ len = Size(k)
    BY <1>2 DEF Place
  <2>2. Start[k] < wr /\ wr < Start[k + 1]
    BY <1>0, <1>2, <2>1, StartFacts
  <2>3. Owing
    BY <2>2 DEF Owing
  <2>4. span < MaxSpan /\ span' = span + 1
    BY <1>0, <1>2, <2>3 DEF Tick
  <2>5. downTimer > 0 /\ downTimer + span >= ReadTimeout
    BY <1>0, <1>2 DEF BodyInTime
  <2> QED BY <1>0, <2>4, <2>5
<1>3. down = "body" => wr < at + len
  BY <1>0 DEF Place
<1> QED BY <1>0, <1>1, <1>2, <1>3 DEF BodyInTime

LEMMA RestStreams ==
  ASSUME TypeInv, StreamInv, UNCHANGED <<wr, downVars>>,
         UNCHANGED <<span, client>> \/ client' # "open"
  PROVE  StreamInv'
<1>1. wr \in Nat
  BY StartFacts DEF TypeInv, TypeOK
<1>2. Whole' /\ Place'
  BY <1>1, PlaceStays DEF StreamInv, Whole
<1>3. BodyInTime'
  BY DEF StreamInv, BodyInTime, downVars
<1> QED BY <1>2, <1>3 DEF StreamInv

LEMMA StreamStep ==
  ASSUME ~SplitLengths, MaxSpan < ReadTimeout, TypeInv, StreamInv, [Next]_vars
  PROVE  StreamInv'
<1>1. CASE \/ UpSteps \/ AlarmFires \/ MainSteps \/ ClientReceives \/ UpstreamReplies
           \/ UNCHANGED vars
  <2>1. UNCHANGED <<stream, downVars>>
    BY <1>1 DEF UpSteps, UpReads, UpTimesOut, UpEnds, UpWrites, UpWriteFails, UpResets, AlarmFires,
           MainSteps, MainDownClosed, MainUpClosed, MainReturns, ClientReceives, UpstreamReplies,
           vars
  <2> QED BY <2>1, RestStreams DEF stream
<1>2. CASE ClientCloses \/ ClientLost
  BY <1>2, RestStreams DEF ClientCloses, ClientLost
<1> QED
  BY <1>1, <1>2, ReaderStreams, ClientStreams, TickStreams DEF Next

(* The upstream gets exactly the datagrams the client sent, in order, each *)
(* once and each whole, except those of length 0, for any number of        *)
(* datagrams of any lengths, cut anywhere in their bodies, and any         *)
(* timeouts: provided that the two bytes of a length arrive together and   *)
(* that the body is there before a deadline set at that time.  The run     *)
(* proxy_udp_stall shows what happens otherwise.                           *)
THEOREM UpstreamGetsDatagrams ==
  ASSUME ~SplitLengths, MaxSpan < ReadTimeout PROVE Spec => []UpstreamIntact
<1>1. Init => StreamInv
  <2> SUFFICES ASSUME Init PROVE StreamInv
    OBVIOUS
  <2>1. /\ wr = 0 /\ at = 0 /\ rd = 0 /\ out = <<>> /\ down = "length"
        /\ DOMAIN <<>> = {}
    BY DEF Init
  <2>2. /\ 0 \in 0..MaxFrames /\ Start[0 + 1] = 0 /\ Delivered(out, 0)
    BY <2>1, ConstantsAssumption, StartAssumption DEF Delivered
  <2>3. Whole
    <3> SUFFICES ASSUME NEW n \in Frames, wr = Start[n] + 1 PROVE FALSE
      BY DEF Whole
    <3> QED BY <2>1, StartFacts
  <2>4. \E k \in 0..MaxFrames : at = Start[k + 1] /\ rd = at /\ Delivered(out, k)
    BY <2>1, <2>2
  <2> QED BY <2>1, <2>3, <2>4 DEF StreamInv, Place, BodyInTime
<1>2. TypeInv /\ StreamInv => UpstreamIntact
  BY StopsIntact DEF StreamInv
<1>3. TypeInv /\ StreamInv /\ [Next]_vars => StreamInv'
  BY StreamStep
<1> QED
  BY <1>1, <1>2, <1>3, TypeInvariant, PTL DEF Spec

=============================================================================
