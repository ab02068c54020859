----------------------------- MODULE WireProofs -----------------------------
(***************************************************************************)
(* What the codecs compute, for any Base and any address: FromReader       *)
(* undoes Marshal (module Wire), and what a bytesReader reads is where it  *)
(* is in the input (module BytesReader).                                   *)
(***************************************************************************)
EXTENDS BytesReader, SequenceTheorems, TLAPS

(* The first bytes of s. *)
Begins(w, s) ==
  /\ w \in Seq(Nat)
  /\ Len(w) <= Len(s)
  /\ \A i \in 1..Len(w) : w[i] = s[i]

-----------------------------------------------------------------------------
(* Numbers of two bytes *)

LEMMA DivMod ==
  ASSUME NEW n \in Nat
  PROVE  /\ n \div Base \in Nat
         /\ n % Base \in Octets
         /\ n % Base = n - Base * (n \div Base)
<1>1. n \div Base \in Nat
  BY BaseAssumption
<1>2. n % Base \in Octets
  BY BaseAssumption DEF Octets
<1>3. n % Base = n - Base * (n \div Base)
  BY BaseAssumption, SMTT(30)
<1> QED BY <1>1, <1>2, <1>3

LEMMA PutUint16Type ==
  ASSUME NEW n \in Nat
  PROVE  /\ PutUint16(n) \in Seq(Octets)
         /\ Len(PutUint16(n)) = 2
         /\ PutUint16(n)[1] = (n \div Base) % Base
         /\ PutUint16(n)[2] = n % Base
<1>1. (n \div Base) % Base \in Octets /\ n % Base \in Octets
  BY DivMod
<1> QED BY <1>1 DEF PutUint16

(* BigEndian.Uint16 undoes PutUint16 of a uint16. *)
LEMMA Uint16RoundTrip ==
  ASSUME NEW n \in 0..Uint16Max
  PROVE  ((n \div Base) % Base) * Base + (n % Base) = n
<1> DEFINE q == n \div Base
           r == n % Base
<1>0. Base \in Nat /\ Base > 5 /\ n \in Nat
  BY BaseAssumption DEF Uint16Max
<1>1. q \in Nat /\ r \in Octets /\ r = n - Base * q
  BY <1>0, DivMod
<1>2. n <= Base * Base - 1
  BY BaseAssumption DEF Uint16Max
<1> HIDE DEF q, r
<1>3. q < Base
  <2> SUFFICES ASSUME q >= Base PROVE FALSE
    BY <1>0, <1>1
  <2>1. Base * q >= Base * Base
    BY <1>0, <1>1
  <2> QED BY <1>0, <1>1, <1>2, <2>1 DEF Octets
<1>4. q % Base = q
  BY <1>0, <1>1, <1>3
<1>5. q * Base = Base * q /\ Base * q \in Nat
  BY <1>0, <1>1
<1>6. q * Base + r = n
  BY <1>0, <1>1, <1>5 DEF Octets
<1>7. (q % Base) * Base + r = n
  BY <1>4, <1>6
<1> QED BY <1>7 DEF q, r

-----------------------------------------------------------------------------
(* The header *)

LEMMA MarshalShape ==
  ASSUME NEW proto \in Nat, NEW dst \in AddrPorts
  PROVE  LET m == Marshal(proto, dst)
             n == 12 + Len(dst.addr)
         IN  /\ m \in Seq(Nat)
             /\ Len(m) = n
             /\ m[2] = (n \div Base) % Base /\ m[3] = n % Base
             /\ m[9] = proto
             /\ m[10] = (dst.port \div Base) % Base /\ m[11] = dst.port % Base
             /\ m[12] = dst.typ
             /\ \A i \in 1..Len(dst.addr) : m[12 + i] = dst.addr[i]
<1> DEFINE n  == 12 + Len(dst.addr)
           v  == <<0>>
           a  == PutUint16(n)
           id == [i \in 1..5 |-> 0]
           pr == <<proto>>
           p  == PutUint16(dst.port)
           ty == <<dst.typ>>
           s1 == v \o a
           s2 == s1 \o id
           s3 == s2 \o pr
           s4 == s3 \o p
           s5 == s4 \o ty
           s6 == s5 \o dst.addr
<1>0. dst.addr \in Seq(Octets) /\ dst.port \in Nat /\ dst.typ \in Nat /\ Octets \subseteq Nat
  BY BaseAssumption DEF AddrPorts, Octets, Uint16Max, AddrTypeIP, AddrTypeHost
<1>1. dst.addr \in Seq(Nat) /\ Len(dst.addr) \in Nat
  BY <1>0, SeqMonotonic, LenProperties
<1>2. n \in Nat
  BY <1>1
<1>m. Marshal(proto, dst) = s6
  BY DEF Marshal, lengthAllMandatoryFields, lengthRequestID
<1>3. /\ v \in Seq(Nat) /\ Len(v) = 1
      /\ id \in Seq(Nat) /\ Len(id) = 5
      /\ pr \in Seq(Nat) /\ Len(pr) = 1 /\ pr[1] = proto
      /\ ty \in Seq(Nat) /\ Len(ty) = 1 /\ ty[1] = dst.typ
  BY <1>0
<1> HIDE DEF n
<1>4. /\ a \in Seq(Nat) /\ Len(a) = 2
      /\ p \in Seq(Nat) /\ Len(p) = 2
  <2>1. a \in Seq(Octets) /\ Len(a) = 2 /\ p \in Seq(Octets) /\ Len(p) = 2
    BY <1>0, <1>2, PutUint16Type
  <2> HIDE DEF a, p
  <2> QED BY <1>0, <2>1, SeqMonotonic
<1>5. /\ a[1] = (n \div Base) % Base /\ a[2] = n % Base
      /\ p[1] = (dst.port \div Base) % Base /\ p[2] = dst.port % Base
  BY <1>0, <1>2, PutUint16Type
<1> HIDE DEF v, a, id, pr, p, ty
<1>6. s1 \in Seq(Nat) /\ Len(s1) = 3 /\ s1[2] = a[1] /\ s1[3] = a[2]
  <2>1. /\ s1 \in Seq(Nat) /\ Len(s1) = Len(v) + Len(a)
        /\ \A i \in 1..(Len(v) + Len(a)) : s1[i] = IF i <= Len(v) THEN v[i] ELSE a[i - Len(v)]
    BY <1>3, <1>4, ConcatProperties
  <2> HIDE DEF s1
  <2> QED BY <1>3, <1>4, <2>1
<1> HIDE DEF s1
<1>7. s2 \in Seq(Nat) /\ Len(s2) = 8 /\ s2[2] = a[1] /\ s2[3] = a[2]
  <2>1. /\ s2 \in Seq(Nat) /\ Len(s2) = Len(s1) + Len(id)
        /\ \A i \in 1..(Len(s1) + Len(id)) : s2[i] = IF i <= Len(s1) THEN s1[i] ELSE id[i - Len(s1)]
    BY <1>3, <1>6, ConcatProperties
  <2> HIDE DEF s2
  <2> QED BY <1>3, <1>6, <2>1
<1> HIDE DEF s2
<1>8. s3 \in Seq(Nat) /\ Len(s3) = 9 /\ s3[2] = a[1] /\ s3[3] = a[2] /\ s3[9] = proto
  <2>1. /\ s3 \in Seq(Nat) /\ Len(s3) = Len(s2) + Len(pr)
        /\ \A i \in 1..(Len(s2) + Len(pr)) : s3[i] = IF i <= Len(s2) THEN s2[i] ELSE pr[i - Len(s2)]
    BY <1>3, <1>7, ConcatProperties
  <2> HIDE DEF s3
  <2> QED BY <1>3, <1>7, <2>1
<1> HIDE DEF s3
<1>9. /\ s4 \in Seq(Nat) /\ Len(s4) = 11 /\ s4[2] = a[1] /\ s4[3] = a[2] /\ s4[9] = proto
      /\ s4[10] = p[1] /\ s4[11] = p[2]
  <2>1. /\ s4 \in Seq(Nat) /\ Len(s4) = Len(s3) + Len(p)
        /\ \A i \in 1..(Len(s3) + Len(p)) : s4[i] = IF i <= Len(s3) THEN s3[i] ELSE p[i - Len(s3)]
    BY <1>4, <1>8, ConcatProperties
  <2> HIDE DEF s4
  <2> QED BY <1>4, <1>8, <2>1
<1> HIDE DEF s4
<1>10. /\ s5 \in Seq(Nat) /\ Len(s5) = 12 /\ s5[2] = a[1] /\ s5[3] = a[2] /\ s5[9] = proto
       /\ s5[10] = p[1] /\ s5[11] = p[2] /\ s5[12] = dst.typ
  <2>1. /\ s5 \in Seq(Nat) /\ Len(s5) = Len(s4) + Len(ty)
        /\ \A i \in 1..(Len(s4) + Len(ty)) : s5[i] = IF i <= Len(s4) THEN s4[i] ELSE ty[i - Len(s4)]
    BY <1>3, <1>9, ConcatProperties
  <2> HIDE DEF s5
  <2>2. Len(s5) = 12 /\ \A i \in 1..12 : s5[i] = IF i <= 11 THEN s4[i] ELSE ty[i - 11]
    BY <1>3, <1>9, <2>1
  <2>3. /\ \A i \in 1..11 : s5[i] = s4[i]
        /\ s5[12] = ty[1]
    BY <2>2
  <2>4. /\ s5[2] = s4[2] /\ s5[3] = s4[3] /\ s5[9] = s4[9] /\ s5[10] = s4[10] /\ s5[11] = s4[11]
    BY <2>3
  <2>5. s5[12] = dst.typ
    BY <1>3, <2>3
  <2> QED BY <1>9, <2>1, <2>2, <2>4, <2>5, Zenon
<1> HIDE DEF s5
<1>11. /\ s6 \in Seq(Nat) /\ Len(s6) = 12 + Len(dst.addr)
       /\ \A i \in 1..12 : s6[i] = s5[i]
       /\ \A i \in 1..Len(dst.addr) : s6[12 + i] = dst.addr[i]
  <2>1. /\ s6 \in Seq(Nat) /\ Len(s6) = Len(s5) + Len(dst.addr)
        /\ \A i \in 1..(Len(s5) + Len(dst.addr)) :
             s6[i] = IF i <= Len(s5) THEN s5[i] ELSE dst.addr[i - Len(s5)]
    BY <1>1, <1>10, ConcatProperties
  <2> HIDE DEF s6
  <2>2. Len(s5) = 12
    BY <1>10
  <2>3. ASSUME NEW i \in 1..Len(dst.addr) PROVE s6[12 + i] = dst.addr[i]
    <3>1. 12 + i \in 1..(12 + Len(dst.addr)) /\ ~(12 + i <= 12) /\ (12 + i) - 12 = i
      BY <1>1
    <3> QED BY <2>1, <2>2, <3>1
  <2>4. ASSUME NEW i \in 1..12 PROVE s6[i] = s5[i]
    <3>1. i \in 1..(12 + Len(dst.addr)) /\ i <= 12
      BY <1>1
    <3> QED BY <2>1, <2>2, <3>1
  <2>5. Len(s6) = 12 + Len(dst.addr)
    BY <2>1, <2>2
  <2> QED BY <2>1, <2>3, <2>4, <2>5
<1> HIDE DEF s6
<1>12. /\ s6[2] = (n \div Base) % Base /\ s6[3] = n % Base
       /\ s6[9] = proto /\ s6[12] = dst.typ
       /\ s6[10] = (dst.port \div Base) % Base /\ s6[11] = dst.port % Base
  <2>1. /\ s6[2] = s5[2] /\ s6[3] = s5[3] /\ s6[9] = s5[9] /\ s6[10] = s5[10]
        /\ s6[11] = s5[11] /\ s6[12] = s5[12]
    BY <1>11
  <2> QED BY <1>5, <1>10, <2>1, Zenon
<1> QED BY <1>11, <1>12, <1>m DEF n

LEMMA Slice ==
  ASSUME NEW s \in Seq(Nat), NEW m \in Nat, NEW k \in Nat, m >= 1, k <= Len(s), m <= k + 1
  PROVE  /\ SubSeq(s, m, k) \in Seq(Nat)
         /\ Len(SubSeq(s, m, k)) = k - m + 1
         /\ \A i \in 1..(k - m + 1) : SubSeq(s, m, k)[i] = s[m + i - 1]
<1>1. Len(s) \in Nat
  BY LenProperties
<1>2. \A i \in m..k : s[i] \in Nat
  BY <1>1, ElementOfSeq
<1>3. /\ SubSeq(s, m, k) \in Seq(Nat)
      /\ Len(SubSeq(s, m, k)) = IF m <= k THEN k - m + 1 ELSE 0
      /\ \A i \in 1..(k - m + 1) : SubSeq(s, m, k)[i] = s[m + i - 1]
  BY <1>2, SubSeqProperties
<1> QED BY <1>3

LEMMA AddrPortType ==
  ASSUME NEW dst \in AddrPorts
  PROVE  /\ dst.typ \in Nat /\ dst.port \in 0..Uint16Max
         /\ dst.addr \in Seq(Octets) /\ dst.addr \in Seq(Nat) /\ Len(dst.addr) \in Nat
         /\ dst = AddrPortFrom(dst.typ, dst.addr, dst.port)
<1>1. Octets \subseteq Nat
  BY BaseAssumption DEF Octets
<1>2. dst.addr \in Seq(Octets) /\ dst.port \in 0..Uint16Max /\ dst.typ \in Nat
  BY DEF AddrPorts, AddrTypeIP, AddrTypeHost
<1>3. dst.addr \in Seq(Nat) /\ Len(dst.addr) \in Nat
  BY <1>1, <1>2, SeqMonotonic, LenProperties
<1> QED BY <1>2, <1>3 DEF AddrPorts, AddrPortFrom

(* However much of a header the server has, it reads the whole of it or    *)
(* nothing, and what it reads is what was marshalled.                      *)
LEMMA HeaderRead ==
  ASSUME NEW proto \in Nat, NEW dst \in AddrPorts, Fits(dst),
         NEW w, Begins(w, Marshal(proto, dst)),
         Len(w) >= ToRead(w), ~TooShort(w)
  PROVE  FromReader(w) = [protocol |-> proto, dst |-> dst]
<1> DEFINE m == Marshal(proto, dst)
           n == 12 + Len(dst.addr)
<1>0. dst.port \in 0..Uint16Max /\ dst.addr \in Seq(Nat) /\ Len(dst.addr) \in Nat
  BY AddrPortType
<1>n. n \in Nat /\ n >= 12 /\ n \in 0..Uint16Max /\ Len(dst.addr) = n - 12
  BY <1>0, BaseAssumption DEF Fits, lengthAllMandatoryFields, lengthRequestID, Uint16Max
<1>m. /\ m \in Seq(Nat) /\ Len(m) = n
      /\ m[2] = (n \div Base) % Base /\ m[3] = n % Base
      /\ m[9] = proto
      /\ m[10] = (dst.port \div Base) % Base /\ m[11] = dst.port % Base
      /\ m[12] = dst.typ
      /\ \A i \in 1..Len(dst.addr) : m[12 + i] = dst.addr[i]
  BY MarshalShape
<1>l. Len(m) = n /\ \A i \in 1..Len(dst.addr) : m[12 + i] = dst.addr[i]
  BY <1>m
<1>g. m[2] * Base + m[3] = n /\ m[10] * Base + m[11] = dst.port
  BY <1>0, <1>n, <1>m, Uint16RoundTrip
<1>f. m[9] = proto /\ m[12] = dst.typ
  BY <1>m
<1> HIDE DEF m, n
<1>w. w \in Seq(Nat) /\ Len(w) \in Nat /\ Len(w) <= n /\ \A i \in 1..Len(w) : w[i] = m[i]
  BY <1>l, LenProperties DEF Begins, m
<1>1. Len(w) >= 3
  BY <1>w DEF ToRead
<1>2. TotalLen(w) = n
  <2>1. SubSeq(w, 2, 3)[1] = w[2] /\ SubSeq(w, 2, 3)[2] = w[3]
    <3>1. \A i \in 1..(3 - 2 + 1) : SubSeq(w, 2, 3)[i] = w[2 + i - 1]
      BY <1>w, <1>1, Slice
    <3> QED BY <3>1
  <2>2. w[2] = m[2] /\ w[3] = m[3]
    BY <1>w, <1>1
  <2> QED BY <1>g, <2>1, <2>2, Zenon DEF TotalLen, GetUint16
<1>3. Len(w) = n
  BY <1>w, <1>n, <1>1, <1>2 DEF ToRead
<1> DEFINE body   == SubSeq(w, 4, n)
           fields == SubSeq(body, 6, Len(body))
           addr   == SubSeq(fields, 5, Len(fields))
<1>4. body \in Seq(Nat) /\ Len(body) = n - 3 /\ \A i \in 1..(n - 3) : body[i] = w[i + 3]
  <2>1. /\ body \in Seq(Nat) /\ Len(body) = n - 4 + 1
        /\ \A i \in 1..(n - 4 + 1) : body[i] = w[4 + i - 1]
    BY <1>w, <1>3, <1>n, Slice
  <2> HIDE DEF body
  <2> QED BY <1>n, <2>1
<1> HIDE DEF body
<1>5. fields \in Seq(Nat) /\ Len(fields) = n - 8 /\ \A i \in 1..(n - 8) : fields[i] = m[i + 8]
  <2>1. /\ fields \in Seq(Nat) /\ Len(fields) = Len(body) - 6 + 1
        /\ \A i \in 1..(Len(body) - 6 + 1) : fields[i] = body[6 + i - 1]
    BY <1>4, <1>n, Slice
  <2> HIDE DEF fields
  <2>2. Len(fields) = n - 8
    BY <1>4, <1>n, <2>1
  <2>3. ASSUME NEW i \in 1..(n - 8) PROVE fields[i] = m[i + 8]
    <3>1. i \in 1..(Len(body) - 6 + 1) /\ 6 + i - 1 \in 1..(n - 3) /\ (6 + i - 1) + 3 = i + 8
      BY <1>4, <1>n
    <3>2. i + 8 \in 1..n
      BY <1>n
    <3> QED BY <1>w, <1>3, <1>4, <2>1, <3>1, <3>2
  <2> QED BY <2>1, <2>2, <2>3
<1> HIDE DEF fields
<1>6. addr = dst.addr
  <2>1. /\ addr \in Seq(Nat) /\ Len(addr) = Len(fields) - 5 + 1
        /\ \A i \in 1..(Len(fields) - 5 + 1) : addr[i] = fields[5 + i - 1]
    BY <1>5, <1>n, Slice
  <2> HIDE DEF addr
  <2>2. Len(addr) = Len(dst.addr)
    BY <1>5, <1>n, <2>1
  <2>3. ASSUME NEW i \in 1..Len(addr) PROVE addr[i] = dst.addr[i]
    <3>1. /\ i \in 1..(Len(fields) - 5 + 1) /\ 5 + i - 1 \in 1..(n - 8)
          /\ (5 + i - 1) + 8 = 12 + i /\ i \in 1..Len(dst.addr)
      BY <1>5, <1>n, <2>2
    <3> QED BY <1>l, <1>5, <2>1, <3>1
  <2> QED BY <1>0, <2>1, <2>2, <2>3, SeqEqual
<1>7. fields[1] = proto /\ fields[4] = dst.typ /\ fields[2] = m[10] /\ fields[3] = m[11]
  BY <1>5, <1>n, <1>f
<1>8. GetUint16(SubSeq(fields, 2, 3)) = dst.port
  <2>1. SubSeq(fields, 2, 3)[1] = fields[2] /\ SubSeq(fields, 2, 3)[2] = fields[3]
    <3>1. \A i \in 1..(3 - 2 + 1) : SubSeq(fields, 2, 3)[i] = fields[2 + i - 1]
      BY <1>5, <1>n, Slice
    <3> QED BY <3>1
  <2> QED BY <1>g, <1>7, <2>1, Zenon DEF GetUint16
<1>9. FromReader(w) = [protocol |-> fields[1], dst |-> AddrPortFrom(fields[4], addr, GetUint16(SubSeq(fields, 2, 3)))]
  <2>1. lengthRequestID + 1 = 6
    BY DEF lengthRequestID
  <2> QED BY <1>2, <2>1, Zenon DEF FromReader, fields, body
<1> QED BY <1>6, <1>7, <1>8, <1>9, AddrPortType

-----------------------------------------------------------------------------
(* The bytesReader *)

(* Concatenation, field by field. *)
LEMMA Cat ==
  ASSUME NEW s \in Seq(Nat), NEW t \in Seq(Nat)
  PROVE  /\ s \o t \in Seq(Nat)
         /\ Len(s \o t) = Len(s) + Len(t)
         /\ \A i \in 1..Len(s) : (s \o t)[i] = s[i]
         /\ \A i \in 1..Len(t) : (s \o t)[Len(s) + i] = t[i]
<1>1. Len(s) \in Nat /\ Len(t) \in Nat
  BY LenProperties
<1>2. /\ s \o t \in Seq(Nat)
      /\ Len(s \o t) = Len(s) + Len(t)
      /\ \A i \in 1..(Len(s) + Len(t)) : (s \o t)[i] = IF i <= Len(s) THEN s[i] ELSE t[i - Len(s)]
  BY ConcatProperties
<1>3. ASSUME NEW i \in 1..Len(t) PROVE (s \o t)[Len(s) + i] = t[i]
  <2>1. Len(s) + i \in 1..(Len(s) + Len(t)) /\ ~(Len(s) + i <= Len(s)) /\ (Len(s) + i) - Len(s) = i
    BY <1>1
  <2> QED BY <1>2, <2>1
<1>4. ASSUME NEW i \in 1..Len(s) PROVE (s \o t)[i] = s[i]
  <2>1. i \in 1..(Len(s) + Len(t)) /\ i <= Len(s)
    BY <1>1
  <2> QED BY <1>2, <2>1
<1> QED BY <1>2, <1>3, <1>4

IsReader(r) == r \in [in : Seq(Nat), b : Seq(Nat), err : BOOLEAN] /\ Len(r.b) >= maxAddrLen

(* The reader r has read o bytes of the input. *)
At(r, input, o) ==
  /\ Len(r.in) = Len(input) - o
  /\ \A i \in 1..Len(r.in) : r.in[i] = input[o + i]

LEMMA NewReaderAtStart ==
  ASSUME NEW input \in Seq(Nat)
  PROVE  IsReader(NewReader(input)) /\ At(NewReader(input), input, 0)
<1> DEFINE zeros == [i \in 1..maxAddrLen |-> 0]
<1>1. zeros \in Seq(Nat) /\ Len(zeros) = maxAddrLen
  BY BufferAssumption
<1>2. NewReader(input) = [in |-> input, b |-> zeros, err |-> FALSE]
  BY DEF NewReader
<1> HIDE DEF zeros
<1>3. Len(input) \in Nat
  BY LenProperties
<1>4. IsReader(NewReader(input))
  BY <1>1, <1>2, BufferAssumption DEF IsReader
<1>5. NewReader(input).in = input
  BY <1>2
<1> QED BY <1>3, <1>4, <1>5 DEF At

(* ReadBytes keeps an error, and otherwise puts the next n bytes of the    *)
(* input in front of the buffer.                                           *)
LEMMA ReadBytesReads ==
  ASSUME NEW r, IsReader(r), NEW n \in Nat
  PROVE  /\ IsReader(ReadBytes(r, n))
         /\ ~ReadBytes(r, n).err =>
              /\ ~r.err /\ n <= Len(r.in)
              /\ ReadBytes(r, n).in = SubSeq(r.in, n + 1, Len(r.in))
              /\ \A i \in 1..n : ReadBytes(r, n).b[i] = r.in[i]
<1>0. /\ r \in [in : Seq(Nat), b : Seq(Nat), err : BOOLEAN]
      /\ r.in \in Seq(Nat) /\ r.b \in Seq(Nat) /\ r.err \in BOOLEAN
      /\ Len(r.in) \in Nat /\ Len(r.b) \in Nat /\ Len(r.b) >= maxAddrLen /\ maxAddrLen \in Nat
  BY LenProperties, BufferAssumption DEF IsReader
<1>1. CASE r.err \/ Len(r.in) < n
  <2>1. ReadBytes(r, n) = [in |-> r.in, b |-> r.b, err |-> TRUE]
    BY <1>1 DEF ReadBytes
  <2>2. /\ ReadBytes(r, n) \in [in : Seq(Nat), b : Seq(Nat), err : BOOLEAN]
        /\ ReadBytes(r, n).err = TRUE /\ ReadBytes(r, n).b = r.b
    BY <1>0, <2>1
  <2> QED BY <1>0, <2>2 DEF IsReader
<1>2. CASE ~(r.err \/ Len(r.in) < n)
  <2> DEFINE rest == SubSeq(r.in, n + 1, Len(r.in))
             new  == SubSeq(r.in, 1, n)
             old  == SubSeq(r.b, n + 1, maxAddrLen)
             b2   == new \o old
  <2>1. ReadBytes(r, n) = [in |-> rest, b |-> b2, err |-> FALSE]
    BY <1>2 DEF ReadBytes
  <2>2. rest \in Seq(Nat)
    <3>1. n + 1 \in Nat /\ n + 1 >= 1 /\ Len(r.in) <= Len(r.in) /\ n + 1 <= Len(r.in) + 1
      BY <1>0, <1>2
    <3> QED BY <1>0, <3>1, Slice
  <2>3. new \in Seq(Nat) /\ Len(new) = n /\ \A i \in 1..n : new[i] = r.in[i]
    <3>1. /\ new \in Seq(Nat) /\ Len(new) = n - 1 + 1
          /\ \A i \in 1..(n - 1 + 1) : new[i] = r.in[1 + i - 1]
      BY <1>0, <1>2, Slice
    <3> HIDE DEF new
    <3> QED BY <3>1
  <2>4. old \in Seq(Nat) /\ Len(old) \in Nat /\ n + Len(old) >= maxAddrLen
    <3>1. CASE n <= maxAddrLen
      <4>0. n + 1 \in Nat /\ n + 1 >= 1 /\ n + 1 <= maxAddrLen + 1
        BY <1>0, <3>1
      <4>1. old \in Seq(Nat) /\ Len(old) = maxAddrLen - (n + 1) + 1
        BY <1>0, <4>0, Slice
      <4> HIDE DEF old
      <4> QED BY <1>0, <3>1, <4>1
    <3>2. CASE n > maxAddrLen
      <4>1. old = <<>>
        BY <1>0, <3>2, SubSeqEmpty
      <4> HIDE DEF old
      <4> QED BY <1>0, <3>2, <4>1, EmptySeq
    <3> QED BY <1>0, <3>1, <3>2
  <2> HIDE DEF new, old, rest
  <2>5. b2 \in Seq(Nat) /\ Len(b2) = n + Len(old) /\ \A i \in 1..n : b2[i] = r.in[i]
    <3>1. b2 \in Seq(Nat) /\ Len(b2) = Len(new) + Len(old) /\ \A i \in 1..Len(new) : b2[i] = new[i]
      BY <2>3, <2>4, Cat
    <3> HIDE DEF b2
    <3> QED BY <2>3, <3>1
  <2> HIDE DEF b2
  <2>6. /\ ReadBytes(r, n) \in [in : Seq(Nat), b : Seq(Nat), err : BOOLEAN]
        /\ ReadBytes(r, n).in = rest /\ ReadBytes(r, n).b = b2
    BY <1>0, <2>1, <2>2, <2>5
  <2>7. Len(b2) >= maxAddrLen
    BY <2>4, <2>5
  <2>8. ~r.err /\ n <= Len(r.in)
    BY <1>0, <1>2
  <2> QED BY <2>5, <2>6, <2>7, <2>8 DEF IsReader, rest
<1> QED BY <1>1, <1>2

LEMMA ReadAt ==
  ASSUME NEW input \in Seq(Nat), NEW r, IsReader(r), NEW o \in Nat, At(r, input, o),
         NEW n \in Nat, ~ReadBytes(r, n).err
  PROVE  /\ At(ReadBytes(r, n), input, o + n)
         /\ o + n <= Len(input)
         /\ \A i \in 1..n : ReadBytes(r, n).b[i] = input[o + i]
<1> DEFINE r2 == ReadBytes(r, n)
<1>0. /\ r.in \in Seq(Nat) /\ Len(r.in) \in Nat /\ Len(input) \in Nat
      /\ Len(r.in) = Len(input) - o
      /\ \A i \in 1..Len(r.in) : r.in[i] = input[o + i]
  BY LenProperties DEF IsReader, At
<1>1. /\ n <= Len(r.in)
      /\ r2.in = SubSeq(r.in, n + 1, Len(r.in))
      /\ \A i \in 1..n : r2.b[i] = r.in[i]
  BY ReadBytesReads
<1> HIDE DEF r2
<1>2. /\ Len(r2.in) = Len(r.in) - (n + 1) + 1
      /\ \A i \in 1..(Len(r.in) - (n + 1) + 1) : r2.in[i] = r.in[(n + 1) + i - 1]
  BY <1>0, <1>1, Slice
<1>3. Len(r2.in) = Len(input) - (o + n)
  BY <1>0, <1>1, <1>2
<1>4. ASSUME NEW i \in 1..Len(r2.in) PROVE r2.in[i] = input[(o + n) + i]
  <2>1. /\ i \in 1..(Len(r.in) - (n + 1) + 1) /\ (n + 1) + i - 1 \in 1..Len(r.in)
        /\ o + ((n + 1) + i - 1) = (o + n) + i
    BY <1>0, <1>1, <1>2
  <2> QED BY <1>0, <1>2, <2>1
<1>5. ASSUME NEW i \in 1..n PROVE r2.b[i] = input[o + i]
  <2>1. i \in 1..Len(r.in)
    BY <1>0, <1>1
  <2> QED BY <1>0, <1>1, <2>1
<1>6. o + n <= Len(input)
  BY <1>0, <1>1
<1> QED BY <1>3, <1>4, <1>5, <1>6 DEF At, r2
=============================================================================
