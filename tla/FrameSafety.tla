---------------------------- MODULE FrameSafety ----------------------------
(***************************************************************************)
(* The properties of Frame, for any number of writers, any payloads and    *)
(* noise, every MaxSize and every bound.  The argument is about positions: *)
(* where ReadFrame began the item it is in (Base), where the frames that   *)
(* were written whole stand in the line, and where the one that is being   *)
(* written or was cut short begins.                                        *)
(***************************************************************************)
EXTENDS Frame, SequenceTheorems, TLAPS

-----------------------------------------------------------------------------
(* Types *)

\* What the writers hold; who writes was given a payload the code accepts.
WritersOK ==
    /\ payload \in [Writers -> Seq(Byte)] /\ buf \in [Writers -> Seq(Byte)]
    /\ written \in Seq(Seq(Byte)) /\ noise \in Seq(Seq(Byte))
    /\ serialMu \in Writers \cup {Nil}
    /\ \A w \in Writers : wpc[w] # "idle" => payload[w] # <<>>
    /\ \A w \in Writers : Writing(w) => Len(payload[w]) <= MaxSize

\* What the reader holds; it has collected nothing while it looks for a header.
ReaderHolds ==
    /\ got \in Seq([payload : Seq(Byte), end : Nat])
    /\ rst \in {"magic0", "magic1", "ended"} => part = <<>>

TypesInv == FrameTypeOK /\ WritersOK /\ ReaderHolds

\* The device accepts more bytes and never takes one back.
Grows == /\ line' \in Seq(Byte) /\ Len(line') \in Nat /\ Len(line) <= Len(line')
         /\ \A i \in 1..Len(line) : line'[i] = line[i]

\* What is appended stands after what was there.
LEMMA Appended ==
    ASSUME NEW s \in Seq(Byte), NEW x \in Seq(Byte)
    PROVE  /\ s \o x \in Seq(Byte) /\ Len(s \o x) = Len(s) + Len(x)
           /\ \A i \in 1..Len(s) : (s \o x)[i] = s[i]
           /\ \A i \in 1..Len(x) : (s \o x)[Len(s) + i] = x[i]
  <1>1. /\ s \o x \in Seq(Byte) /\ Len(s \o x) = Len(s) + Len(x)
        /\ \A i \in 1..(Len(s) + Len(x)) :
              (s \o x)[i] = IF i <= Len(s) THEN s[i] ELSE x[i - Len(s)]
    BY ConcatProperties
  <1>2. Len(s) \in Nat /\ Len(x) \in Nat
    BY LenProperties
  <1> QED
    BY <1>1, <1>2

\* The first n elements and the rest of a sequence.
LEMMA Cut ==
    ASSUME NEW s \in Seq(Byte), NEW n \in 1..Len(s)
    PROVE  /\ SubSeq(s, 1, n) \in Seq(Byte) /\ Len(SubSeq(s, 1, n)) = n
           /\ \A i \in 1..n : SubSeq(s, 1, n)[i] = s[i]
           /\ SubSeq(s, n + 1, Len(s)) \in Seq(Byte)
           /\ Len(SubSeq(s, n + 1, Len(s))) = Len(s) - n
           /\ \A i \in 1..(Len(s) - n) : SubSeq(s, n + 1, Len(s))[i] = s[n + i]
  <1>1. /\ Len(s) \in Nat /\ \A i \in 1..Len(s) : s[i] \in Byte
    BY LenProperties, ElementOfSeq
  <1>2. \A i \in 1..n : s[i] \in Byte
    BY <1>1
  <1>3. \A i \in (n + 1)..Len(s) : s[i] \in Byte
    BY <1>1
  <1>4. /\ SubSeq(s, 1, n) \in Seq(Byte)
        /\ Len(SubSeq(s, 1, n)) = IF 1 <= n THEN n - 1 + 1 ELSE 0
        /\ \A i \in 1..(n - 1 + 1) : SubSeq(s, 1, n)[i] = s[1 + i - 1]
    BY <1>1, <1>2, SubSeqProperties
  <1>5. /\ SubSeq(s, n + 1, Len(s)) \in Seq(Byte)
        /\ Len(SubSeq(s, n + 1, Len(s))) = IF n + 1 <= Len(s) THEN Len(s) - (n + 1) + 1 ELSE 0
        /\ \A i \in 1..(Len(s) - (n + 1) + 1) :
              SubSeq(s, n + 1, Len(s))[i] = s[(n + 1) + i - 1]
    <2>1. n + 1 \in Int /\ Len(s) \in Int
      BY <1>1
    <2> QED
      BY <2>1, <1>3, SubSeqProperties
  <1>6. \A i \in 1..n : SubSeq(s, 1, n)[i] = s[i]
    BY <1>1, <1>4
  <1>7. \A i \in 1..(Len(s) - n) : SubSeq(s, n + 1, Len(s))[i] = s[n + i]
    BY <1>1, <1>5
  <1> QED
    BY <1>1, <1>4, <1>5, <1>6, <1>7

LEMMA ByteNumbers ==
    /\ \A b : b \in Byte <=> b \in Nat /\ b < 256
    /\ Magic0 \in Byte /\ Magic1 \in Byte /\ Magic0 # Magic1 /\ Magic0 # 0
  BY DEF Byte, Magic0, Magic1

LEMMA Bytes ==
    ASSUME NEW s \in Seq(Byte)
    PROVE  /\ Len(s) \in Nat /\ (s # <<>> <=> Len(s) > 0)
           /\ \A i \in 1..Len(s) : s[i] \in Byte /\ s[i] \in Nat
  <1>1. /\ Len(s) \in Nat /\ \A i \in 1..Len(s) : s[i] \in Byte
    BY LenProperties, ElementOfSeq
  <1> QED
    BY <1>1, EmptySeq, ByteNumbers

\* Division by 256 and its rest.
LEMMA BigEndian ==
    /\ \A n \in Nat : (n \div 256) * 256 + (n % 256) = n
    /\ \A n \in Nat : n \div 256 \in Nat /\ n % 256 \in Nat /\ n % 256 < 256
    /\ \A n \in Nat : n < 256 * 256 => n \div 256 < 256
  <1>1. \A n \in Nat : (n \div 256) * 256 + (n % 256) = n
    <2>1. \A n \in Nat : n = 256 * (n \div 256) + (n % 256)
      BY SMT
    <2>2. \A q, r \in Nat : q * 256 + r = 256 * q + r
      BY SMT
    <2>3. \A n \in Nat : n \div 256 \in Nat /\ n % 256 \in Nat
      BY SMT
    <2> TAKE n \in Nat
    <2> DEFINE q == n \div 256
               r == n % 256
    <2>4. q \in Nat /\ r \in Nat /\ n = 256 * q + r
      BY <2>1, <2>3
    <2> HIDE DEF q, r
    <2>5. q * 256 + r = n
      BY <2>2, <2>4
    <2> QED
      BY <2>5 DEF q, r
  <1>2. \A n \in Nat : n \div 256 \in Nat /\ n % 256 \in Nat /\ n % 256 < 256
    BY SMT
  <1>3. \A n \in Nat : n < 256 * 256 => n \div 256 < 256
    BY SMT
  <1> QED
    BY <1>1, <1>2, <1>3

\* A header is four bytes.
LEMMA HeaderBytes ==
    ASSUME NEW n \in Nat, n < 256 * 256
    PROVE  /\ Header(n) \in Seq(Byte) /\ Len(Header(n)) = 4
           /\ Header(n)[1] = Magic0 /\ Header(n)[2] = Magic1
           /\ Header(n)[3] = n \div 256 /\ Header(n)[4] = n % 256
  <1>1. n \div 256 \in Byte /\ n % 256 \in Byte
    BY BigEndian, ByteNumbers
  <1> QED
    BY <1>1, ByteNumbers DEF Header

LEMMA InitTypes == Init => TypesInv
  <1>1. <<>> \in Seq(Byte) /\ <<>> \in Seq(Seq(Byte)) /\ Len(<<>>) = 0
        /\ <<>> \in Seq([payload : Seq(Byte), end : Nat])
    BY EmptySeq
  <1> SUFFICES ASSUME Init PROVE TypesInv
    OBVIOUS
  <1>2. WritersOK /\ ReaderHolds
    BY <1>1 DEF Init, WritersOK, ReaderHolds, Writing
  <1>3. \A w \in Writers : Writing(w) <=> serialMu = w
    BY FrameAssumptions DEF Init, Writing
  <1>4. MaxSize \in Nat
    BY FrameAssumptions
  <1>5. pos \in 0..Len(line) /\ need \in 0..MaxSize /\ refused \in Nat
    BY <1>1, <1>4, SMT DEF Init
  <1>6. /\ rst \in {"magic0", "magic1", "length", "payload", "ended"}
        /\ rst # "length" /\ rst # "payload"
        /\ wpc \in [Writers -> {"idle", "lock", "header", "payload"}]
    BY DEF Init
  <1> QED
    BY <1>1, <1>2, <1>3, <1>5, <1>6 DEF Init, TypesInv, FrameTypeOK

LEMMA StartWriteTypes ==
    ASSUME TypesInv, NEW w \in Writers, NEW p \in Payloads, StartWrite(w, p)
    PROVE  TypesInv' /\ Grows
  <1>1. p \in Seq(Byte) /\ p # <<>>
    BY FrameAssumptions
  <1>2. WritersOK'
    BY <1>1 DEF StartWrite, TypesInv, FrameTypeOK, WritersOK, Writing
  <1>3. FrameTypeOK'
    BY DEF StartWrite, TypesInv, FrameTypeOK, Writing, readVars
  <1>4. Grows
    BY Bytes DEF StartWrite, TypesInv, FrameTypeOK, Grows
  <1> QED
    BY <1>2, <1>3, <1>4 DEF StartWrite, TypesInv, ReaderHolds, readVars

LEMMA LockTypes ==
    ASSUME TypesInv, NEW w \in Writers, Lock(w)
    PROVE  TypesInv' /\ Grows
  <1>1. payload[w] \in Seq(Byte) /\ Len(payload[w]) \in Nat
    BY Bytes DEF TypesInv, WritersOK
  <1>2. Len(payload[w]) <= MaxSize => Header(Len(payload[w])) \in Seq(Byte)
    <2>1. Len(payload[w]) <= MaxSize => Len(payload[w]) < 256 * 256
      BY <1>1, FrameAssumptions, SMT
    <2> QED
      BY <1>1, <2>1, HeaderBytes
  <1>3. /\ wpc' \in [Writers -> {"idle", "lock", "header", "payload"}]
        /\ \A u \in Writers : wpc'[u] \in {"header", "payload"} <=> serialMu' = u
        /\ done' \in BOOLEAN
    <2>1. Nil \notin Writers
      BY FrameAssumptions
    <2> QED
      BY <2>1 DEF Lock, LockFree, Failed, TypesInv, FrameTypeOK, Writing
  <1>4. WritersOK'
    <2>1. buf' \in [Writers -> Seq(Byte)] /\ serialMu' \in Writers \cup {Nil}
      BY <1>2 DEF Lock, TypesInv, WritersOK
    <2>2. \A u \in Writers : wpc'[u] # "idle" => payload'[u] # <<>>
      BY DEF Lock, TypesInv, FrameTypeOK, WritersOK
    <2>3. \A u \in Writers : wpc'[u] \in {"header", "payload"} => Len(payload'[u]) <= MaxSize
      BY DEF Lock, TypesInv, FrameTypeOK, WritersOK, Writing
    <2> QED
      BY <2>1, <2>2, <2>3 DEF Lock, TypesInv, WritersOK, Writing
  <1>5. Grows
    BY Bytes DEF Lock, TypesInv, FrameTypeOK, Grows
  <1> QED
    BY <1>3, <1>4, <1>5 DEF Lock, TypesInv, FrameTypeOK, ReaderHolds, Writing, readVars

LEMMA WriteSomeTypes ==
    ASSUME TypesInv, NEW w \in Writers, WriteSome(w)
    PROVE  TypesInv' /\ Grows
  <1>1. PICK n \in 1..Len(buf[w]) :
            /\ line' = line \o SubSeq(buf[w], 1, n)
            /\ buf' = [buf EXCEPT ![w] = SubSeq(@, n + 1, Len(@))]
            /\ written' = IF wpc[w] = "payload" /\ n = Len(buf[w])
                            THEN Append(written, payload[w]) ELSE written
    BY DEF WriteSome
  <1>2. buf[w] \in Seq(Byte) /\ line \in Seq(Byte)
    BY DEF TypesInv, WritersOK, FrameTypeOK
  <1>3. SubSeq(buf[w], 1, n) \in Seq(Byte) /\ SubSeq(buf[w], n + 1, Len(buf[w])) \in Seq(Byte)
    BY <1>2, Cut
  <1>4. /\ line' \in Seq(Byte) /\ Len(line') = Len(line) + Len(SubSeq(buf[w], 1, n))
        /\ \A i \in 1..Len(line) : line'[i] = line[i]
    BY <1>1, <1>2, <1>3, Appended
  <1>5. Grows
    BY <1>2, <1>3, <1>4, Bytes DEF Grows
  <1>6. buf' \in [Writers -> Seq(Byte)] /\ written' \in Seq(Seq(Byte))
    <2>1. payload[w] \in Seq(Byte) /\ written \in Seq(Seq(Byte)) /\ buf \in [Writers -> Seq(Byte)]
      BY DEF TypesInv, WritersOK
    <2>2. Append(written, payload[w]) \in Seq(Seq(Byte))
      BY <2>1, AppendProperties
    <2> QED
      BY <1>1, <1>3, <2>1, <2>2
  <1>7. pos' \in 0..Len(line')
    BY <1>2, <1>5, Bytes DEF WriteSome, readVars, TypesInv, FrameTypeOK, Grows
  <1> QED
    BY <1>4, <1>5, <1>6, <1>7 DEF WriteSome, TypesInv, FrameTypeOK, WritersOK, ReaderHolds,
       Writing, readVars

LEMMA WriteNextTypes ==
    ASSUME TypesInv, NEW w \in Writers, WriteNext(w)
    PROVE  TypesInv' /\ Grows
  <1>1. Nil \notin Writers /\ <<>> \in Seq(Byte)
    BY FrameAssumptions, EmptySeq
  <1>2. /\ wpc' \in [Writers -> {"idle", "lock", "header", "payload"}]
        /\ \A u \in Writers : wpc'[u] \in {"header", "payload"} <=> serialMu' = u
        /\ done' \in BOOLEAN
    BY <1>1 DEF WriteNext, TypesInv, FrameTypeOK, Writing
  <1>3. WritersOK'
    BY <1>1, <1>2, ZenonT(30) DEF WriteNext, TypesInv, FrameTypeOK, WritersOK, Writing
  <1>4. Grows
    BY Bytes DEF WriteNext, TypesInv, FrameTypeOK, Grows
  <1> QED
    BY <1>2, <1>3, <1>4 DEF WriteNext, TypesInv, FrameTypeOK, ReaderHolds, Writing, readVars

LEMMA WriteFailsTypes ==
    ASSUME TypesInv, NEW w \in Writers, WriteFails(w)
    PROVE  TypesInv' /\ Grows
  <1>1. Nil \notin Writers /\ <<>> \in Seq(Byte)
    BY FrameAssumptions, EmptySeq
  <1>2. /\ wpc' \in [Writers -> {"idle", "lock", "header", "payload"}]
        /\ \A u \in Writers : wpc'[u] \in {"header", "payload"} <=> serialMu' = u
        /\ done' \in BOOLEAN
    BY <1>1 DEF WriteFails, Failed, TypesInv, FrameTypeOK, Writing
  <1>3. WritersOK'
    BY <1>1, <1>2 DEF WriteFails, TypesInv, FrameTypeOK, WritersOK, Writing
  <1>4. Grows
    BY Bytes DEF WriteFails, TypesInv, FrameTypeOK, Grows
  <1> QED
    BY <1>2, <1>3, <1>4 DEF WriteFails, TypesInv, FrameTypeOK, ReaderHolds, Writing, readVars

LEMMA ReadMagic0Types ==
    ASSUME TypesInv, ReadMagic0
    PROVE  TypesInv' /\ Grows
  BY Bytes DEF ReadMagic0, ReadByte, TypesInv, FrameTypeOK, WritersOK, ReaderHolds,
     Writing, writeVars, Grows

LEMMA ReadMagic1Types ==
    ASSUME TypesInv, ReadMagic1
    PROVE  TypesInv' /\ Grows
  BY Bytes DEF ReadMagic1, ReadByte, TypesInv, FrameTypeOK, WritersOK, ReaderHolds,
     Writing, writeVars, Grows

LEMMA ReadLengthTypes ==
    ASSUME TypesInv, ReadLength
    PROVE  TypesInv' /\ Grows
  <1>1. Next1 \in Byte /\ Next1 \in Nat
    BY Bytes DEF ReadLength, ReadByte, Next1, TypesInv, FrameTypeOK
  <1>2. part # <<>> => part[1] \in Nat
    BY Bytes DEF TypesInv, FrameTypeOK
  <1>3. <<Next1>> \in Seq(Byte) /\ Len(<<Next1>>) = 1
    BY <1>1
  <1>4. part' \in Seq(Byte) /\ need' \in 0..MaxSize /\ refused' \in Nat
        /\ (rst' = "length" => Len(part') < 2) /\ (rst' = "payload" => Len(part') < need')
        /\ rst' \in {"magic0", "length", "payload"} /\ (rst' = "magic0" => part' = <<>>)
    <2>1. <<>> \in Seq(Byte) /\ Len(<<>>) = 0 /\ MaxSize \in Nat
      BY EmptySeq, FrameAssumptions
    <2> DEFINE length == part[1] * 256 + Next1
    <2>2. part # <<>> => length \in Nat
      BY <1>1, <1>2, SMT
    <2> HIDE DEF length
    <2>3. rst = "length"
          /\ (\/ part = <<>> /\ part' = <<Next1>> /\ UNCHANGED <<rst, need, refused>>
              \/ /\ part # <<>> /\ Invalid(length)
                 /\ part' = <<>> /\ rst' = "magic0" /\ refused' = refused + 1
                 /\ UNCHANGED need
              \/ /\ part # <<>> /\ ~Invalid(length)
                 /\ part' = <<>> /\ rst' = "payload" /\ need' = length
                 /\ UNCHANGED refused)
      BY DEF ReadLength, length
    <2>4. part # <<>> /\ ~Invalid(length) => length \in 0..MaxSize /\ 0 < length
      BY <2>1, <2>2, SMT DEF Invalid
    <2> QED
      <3>1. need \in 0..MaxSize /\ refused \in Nat /\ refused + 1 \in Nat
        BY DEF TypesInv, FrameTypeOK
      <3>2. CASE part = <<>>
        <4>1. part' = <<Next1>> /\ rst' = "length" /\ need' = need /\ refused' = refused
          BY <3>2, <2>3
        <4>2. Len(part') < 2 /\ part' \in Seq(Byte)
          BY <4>1, <1>3
        <4> QED
          BY <4>1, <4>2, <3>1
      <3>3. CASE part # <<>> /\ Invalid(length)
        BY <3>1, <3>3, <2>1, <2>3
      <3>4. CASE part # <<>> /\ ~Invalid(length)
        BY <3>1, <3>4, <2>1, <2>3, <2>4
      <3> QED
        BY <3>2, <3>3, <3>4
  <1>5. pos' \in 0..Len(line')
    BY Bytes DEF ReadLength, ReadByte, TypesInv, FrameTypeOK
  <1> QED
    <2>1. Grows
      BY Bytes DEF ReadLength, ReadByte, TypesInv, FrameTypeOK, Grows
    <2>2. WritersOK'
      BY DEF ReadLength, ReadByte, TypesInv, WritersOK, Writing, writeVars
    <2>3. FrameTypeOK'
      BY <1>4, <1>5 DEF ReadLength, ReadByte, TypesInv, FrameTypeOK, Writing, writeVars
    <2>4. got' = got
      BY DEF ReadLength
    <2> QED
      BY <1>4, <2>1, <2>2, <2>3, <2>4 DEF TypesInv, ReaderHolds

LEMMA ReadPayloadTypes ==
    ASSUME TypesInv, ReadPayload
    PROVE  TypesInv' /\ Grows
  <1>1. Next1 \in Byte
    BY Bytes DEF ReadPayload, ReadByte, Next1, TypesInv, FrameTypeOK
  <1>2. Append(part, Next1) \in Seq(Byte) /\ Len(Append(part, Next1)) = Len(part) + 1
    BY <1>1 DEF TypesInv, FrameTypeOK
  <1>3. part' \in Seq(Byte) /\ need' \in 0..MaxSize /\ rst' \in {"magic0", "payload"}
        /\ (rst' = "payload" => Len(part') < need') /\ (rst' = "magic0" => part' = <<>>)
        /\ got' \in Seq([payload : Seq(Byte), end : Nat])
    <2>1. <<>> \in Seq(Byte) /\ Len(<<>>) = 0 /\ MaxSize \in Nat /\ Len(part) \in Nat
      BY EmptySeq, FrameAssumptions, Bytes DEF TypesInv, FrameTypeOK
    <2>2. [payload |-> Append(part, Next1), end |-> pos + 1] \in [payload : Seq(Byte), end : Nat]
      BY <1>2, Bytes, SMT DEF TypesInv, FrameTypeOK
    <2> QED
      <3>1. need \in 0..MaxSize /\ got \in Seq([payload : Seq(Byte), end : Nat])
            /\ rst = "payload" /\ Len(part) < need /\ 0 \in 0..MaxSize
        BY <2>1 DEF TypesInv, FrameTypeOK, ReaderHolds, ReadPayload
      <3>2. CASE ~Full(Append(part, Next1))
        <4>1. part' = Append(part, Next1) /\ rst' = "payload" /\ need' = need /\ got' = got
          BY <3>1, <3>2 DEF ReadPayload
        <4>2. Len(part') < need'
          BY <3>1, <3>2, <4>1, <1>2, <2>1, SMT DEF Full
        <4> QED
          BY <3>1, <4>1, <4>2, <1>2
      <3>3. CASE Full(Append(part, Next1))
        <4>1. /\ got' = Append(got, [payload |-> Append(part, Next1), end |-> pos + 1])
              /\ part' = <<>> /\ need' = 0 /\ rst' = "magic0"
          BY <3>3 DEF ReadPayload
        <4>2. got' \in Seq([payload : Seq(Byte), end : Nat])
          BY <3>1, <4>1, <2>2, AppendProperties
        <4> QED
          BY <3>1, <4>1, <4>2, <2>1
      <3> QED
        BY <3>2, <3>3
  <1>4. pos' \in 0..Len(line')
    BY Bytes DEF ReadPayload, ReadByte, TypesInv, FrameTypeOK
  <1> QED
    <2>1. Grows
      BY Bytes DEF ReadPayload, ReadByte, TypesInv, FrameTypeOK, Grows
    <2>2. WritersOK'
      BY DEF ReadPayload, ReadByte, TypesInv, WritersOK, Writing, writeVars
    <2>3. FrameTypeOK'
      BY <1>3, <1>4 DEF ReadPayload, ReadByte, TypesInv, FrameTypeOK, Writing, writeVars
    <2> QED
      BY <1>3, <2>1, <2>2, <2>3 DEF TypesInv, ReaderHolds

LEMMA ReadEndsTypes ==
    ASSUME TypesInv, ReadEnds
    PROVE  TypesInv' /\ Grows
  BY Bytes DEF ReadEnds, TypesInv, FrameTypeOK, WritersOK, ReaderHolds, Writing, writeVars,
     Grows

LEMMA NoiseTypes ==
    ASSUME TypesInv, NEW b \in Noise, NoiseArrives(b)
    PROVE  TypesInv' /\ Grows
  <1>1. b \in Seq(Byte) /\ line \in Seq(Byte)
    BY FrameAssumptions DEF TypesInv, FrameTypeOK
  <1>2. /\ line' \in Seq(Byte) /\ Len(line') = Len(line) + Len(b)
        /\ \A i \in 1..Len(line) : line'[i] = line[i]
    BY <1>1, Appended DEF NoiseArrives
  <1>3. Grows /\ pos' \in 0..Len(line')
    BY <1>1, <1>2, Bytes DEF Grows, NoiseArrives, TypesInv, FrameTypeOK, readVars
  <1> QED
    BY <1>1, <1>2, <1>3 DEF NoiseArrives, TypesInv, FrameTypeOK, WritersOK, ReaderHolds,
       Writing, writeVars, readVars

LEMMA BreakTypes ==
    ASSUME TypesInv, LineBreaks
    PROVE  TypesInv' /\ Grows
  BY Bytes DEF LineBreaks, TypesInv, FrameTypeOK, WritersOK, ReaderHolds, Writing, writeVars,
     readVars, Grows

LEMMA StutterTypes ==
    ASSUME TypesInv, UNCHANGED vars
    PROVE  TypesInv' /\ Grows
  BY Bytes DEF vars, TypesInv, FrameTypeOK, WritersOK, ReaderHolds, Writing, writeVars,
     readVars, Grows

LEMMA TypesStep == ASSUME TypesInv, [Next]_vars PROVE TypesInv' /\ Grows
  BY StartWriteTypes, LockTypes, WriteSomeTypes, WriteNextTypes, WriteFailsTypes,
     ReadMagic0Types, ReadMagic1Types, ReadLengthTypes, ReadPayloadTypes, ReadEndsTypes,
     NoiseTypes, BreakTypes, StutterTypes DEF Next, Write, Read

\* Spec keeps FrameTypeOK: the reader never collects more than the length it accepted,
\* and serialMu is held by exactly the writer whose bytes go out.
THEOREM FrameTypeCorrect == Spec => []FrameTypeOK
  <1>1. TypesInv /\ [Next]_vars => TypesInv'
    BY TypesStep
  <1>2. TypesInv => FrameTypeOK
    BY DEF TypesInv
  <1> QED
    BY InitTypes, <1>1, <1>2, PTL DEF Spec

-----------------------------------------------------------------------------
(* What the reader has read *)

\* A frame with payload p stands in the line after its first s bytes.
Stands(s, p) ==
    /\ s + 4 + Len(p) <= Len(line)
    /\ line[s + 1] = Magic0 /\ line[s + 2] = Magic1
    /\ line[s + 3] * 256 + line[s + 4] = Len(p)
    /\ \A i \in 1..Len(p) : line[s + 4 + i] = p[i]

\* How many bytes stood before the header ReadFrame is in, or before the next byte.
Base == IF rst = "magic1" THEN pos - 1 ELSE
        IF rst = "length" THEN pos - 2 - Len(part) ELSE
        IF rst = "payload" THEN pos - 4 - Len(part) ELSE pos

LastEnd == IF Len(got) = 0 THEN 0 ELSE got[Len(got)].end

\* The state of ReadFrame tells what the line holds from Base to pos.
ReaderOK ==
    /\ LastEnd \in Nat /\ LastEnd <= Base
    /\ rst \in {"magic1", "length", "payload"} => line[Base + 1] = Magic0
    /\ rst \in {"length", "payload"} => line[Base + 2] = Magic1
    /\ rst = "length" /\ part # <<>> => line[Base + 3] = part[1]
    /\ rst = "payload" =>
          /\ line[Base + 3] * 256 + line[Base + 4] = need
          /\ \A i \in 1..Len(part) : line[Base + 4 + i] = part[i]

EndBefore(k) == IF k = 1 THEN 0 ELSE got[k - 1].end
GotOK == \A k \in 1..Len(got) :
    /\ EndBefore(k) \in Nat
    /\ EndBefore(k) + 4 + Len(got[k].payload) <= got[k].end
    /\ Stands(got[k].end - 4 - Len(got[k].payload), got[k].payload)

ReadInv == ReaderOK /\ GotOK

\* The types once more, as the numbers the steps below compute with.
LEMMA Numbers ==
    ASSUME TypesInv
    PROVE  /\ Len(line) \in Nat /\ \A i \in 1..Len(line) : line[i] \in Nat /\ line[i] < 256
           /\ pos \in Nat /\ pos <= Len(line) /\ Len(part) \in Nat /\ need \in Nat
           /\ rst = "length" => Len(part) < 2 /\ (part # <<>> <=> Len(part) = 1)
           /\ rst = "payload" => Len(part) < need
           /\ Len(got) \in Nat
           /\ \A k \in 1..Len(got) : got[k].payload \in Seq(Byte) /\ got[k].end \in Nat
           /\ \A k \in 1..Len(got) : Len(got[k].payload) \in Nat
           /\ Len(written) \in Nat /\ \A k \in 1..Len(written) : written[k] \in Seq(Byte)
  <1> MaxSize \in Nat
    BY FrameAssumptions
  <1>1. /\ Len(line) \in Nat /\ \A i \in 1..Len(line) : line[i] \in Nat /\ line[i] < 256
    BY Bytes, ByteNumbers DEF TypesInv, FrameTypeOK
  <1>2. /\ pos \in Nat /\ pos <= Len(line) /\ Len(part) \in Nat /\ need \in Nat
        /\ rst = "length" => Len(part) < 2 /\ (part # <<>> <=> Len(part) = 1)
        /\ rst = "payload" => Len(part) < need
    <2>1. Len(part) \in Nat /\ (part # <<>> <=> Len(part) > 0)
      BY Bytes DEF TypesInv, FrameTypeOK
    <2>2. /\ pos \in 0..Len(line) /\ need \in 0..MaxSize
          /\ rst = "length" => Len(part) < 2
          /\ rst = "payload" => Len(part) < need
      BY DEF TypesInv, FrameTypeOK
    <2>3. /\ pos \in Nat /\ pos <= Len(line) /\ need \in Nat
          /\ Len(part) < 2 => (Len(part) > 0 <=> Len(part) = 1)
      <3>1. Len(line) \in Nat /\ pos \in 0..Len(line) => pos \in Nat /\ pos <= Len(line)
        BY SMT
      <3>2. need \in 0..MaxSize => need \in Nat
        BY SMT
      <3>3. \A n \in Nat : n < 2 => (n > 0 <=> n = 1)
        BY SMT
      <3> QED
        BY <1>1, <2>1, <2>2, <3>1, <3>2, <3>3, Zenon
    <2> QED
      BY <2>1, <2>2, <2>3, Zenon
  <1>3. \A k \in 1..Len(got) : got[k] \in [payload : Seq(Byte), end : Nat]
    BY ElementOfSeq DEF TypesInv, ReaderHolds
  <1>4. /\ Len(got) \in Nat /\ Len(written) \in Nat
        /\ \A k \in 1..Len(written) : written[k] \in Seq(Byte)
    BY LenProperties, ElementOfSeq DEF TypesInv, ReaderHolds, WritersOK
  <1>5. \A k \in 1..Len(got) : got[k].payload \in Seq(Byte) /\ got[k].end \in Nat
    BY <1>3
  <1> QED
    BY <1>1, <1>2, <1>4, <1>5, Bytes

LEMMA BaseFacts ==
    ASSUME TypesInv, ReadInv
    PROVE  /\ Base \in Nat /\ Base <= pos
           /\ rst = "magic1" => Base + 1 = pos
           /\ rst = "length" => Base + 2 + Len(part) = pos
           /\ rst = "payload" => Base + 4 + Len(part) = pos
           /\ rst \in {"magic0", "ended"} => Base = pos
  <1>1. /\ Base \in Int /\ Base <= pos
        /\ rst = "magic1" => Base + 1 = pos
        /\ rst = "length" => Base + 2 + Len(part) = pos
        /\ rst = "payload" => Base + 4 + Len(part) = pos
        /\ rst \in {"magic0", "ended"} => Base = pos
    <2>1. pos \in Nat /\ Len(part) \in Nat
      BY Numbers
    <2>2. CASE rst = "magic1"
      BY <2>1, <2>2, SMT DEF Base
    <2>3. CASE rst = "length"
      BY <2>1, <2>3, SMT DEF Base
    <2>4. CASE rst = "payload"
      BY <2>1, <2>4, SMT DEF Base
    <2>5. CASE rst \notin {"magic1", "length", "payload"}
      BY <2>1, <2>5, SMT DEF Base
    <2> QED
      BY <2>2, <2>3, <2>4, <2>5
  <1>2. LastEnd \in Nat /\ LastEnd <= Base
    BY DEF ReadInv, ReaderOK
  <1> QED
    BY <1>1, <1>2, SMT

\* A frame that stands in the line goes on standing there.
LEMMA StandsGrows ==
    ASSUME Grows, Len(line) \in Nat, NEW s \in Nat, NEW p, Len(p) \in Nat, Stands(s, p)
    PROVE  Stands(s, p)'
  <1>1. s + 4 + Len(p) <= Len(line) /\ Len(line') \in Nat /\ Len(line) <= Len(line')
    BY DEF Stands, Grows
  <1>2. /\ s + 1 \in 1..Len(line) /\ s + 2 \in 1..Len(line) /\ s + 3 \in 1..Len(line)
        /\ s + 4 \in 1..Len(line) /\ \A i \in 1..Len(p) : s + 4 + i \in 1..Len(line)
        /\ s + 4 + Len(p) <= Len(line')
    BY <1>1, SMT
  <1> QED
    BY <1>2 DEF Stands, Grows

\* More bytes on the line disturb nothing that was read.
LEMMA GrowsRead ==
    ASSUME TypesInv, TypesInv', ReadInv, Grows, UNCHANGED readVars
    PROVE  ReadInv'
  <1>1. Base' = Base /\ LastEnd' = LastEnd /\ rst' = rst /\ part' = part /\ need' = need
        /\ got' = got /\ pos' = pos
    BY DEF readVars, Base, LastEnd
  <1>2. ReaderOK'
    <2>1. /\ rst = "magic1" => Base + 1 = pos
          /\ rst = "length" => Base + 2 + Len(part) = pos
          /\ rst = "payload" => Base + 4 + Len(part) = pos
      BY BaseFacts
    <2>2. Base \in Nat
      BY BaseFacts
    <2>3. \A i \in 1..pos : line'[i] = line[i]
      BY Numbers, SMT DEF Grows
    <2>4. rst \in {"magic1", "length", "payload"} => Base + 1 \in 1..pos
      BY <2>1, <2>2, Numbers, SMT
    <2>5. rst \in {"length", "payload"} => Base + 2 \in 1..pos
      BY <2>1, <2>2, Numbers, SMT
    <2>6. rst = "length" /\ part # <<>> => Base + 3 \in 1..pos
      BY <2>1, <2>2, Numbers, SMT
    <2>7. rst = "payload" => Base + 3 \in 1..pos /\ Base + 4 \in 1..pos
                             /\ \A i \in 1..Len(part) : Base + 4 + i \in 1..pos
      BY <2>1, <2>2, Numbers, SMT
    <2> QED
      BY <1>1, <2>3, <2>4, <2>5, <2>6, <2>7 DEF ReadInv, ReaderOK
  <1>3. GotOK'
    <2> SUFFICES ASSUME NEW k \in 1..Len(got)
                 PROVE  Stands(got[k].end - 4 - Len(got[k].payload), got[k].payload)'
      BY <1>1 DEF ReadInv, GotOK, EndBefore
    <2>1. PICK p, s : p = got[k].payload /\ s = got[k].end - 4 - Len(p)
      OBVIOUS
    <2>2. Len(p) \in Nat /\ got[k].end \in Nat /\ Len(line) \in Nat
      BY <2>1, Numbers
    <2>3. EndBefore(k) \in Nat /\ EndBefore(k) + 4 + Len(p) <= got[k].end /\ Stands(s, p)
      BY <2>1 DEF ReadInv, GotOK
    <2>4. s \in Nat
      <3>1. PICK e, l, b \in Nat : e = got[k].end /\ l = Len(p) /\ b = EndBefore(k)
        BY <2>2, <2>3
      <3>2. s = e - 4 - l /\ b + 4 + l <= e
        BY <2>1, <2>3, <3>1
      <3> QED
        BY <3>2, SMT
    <2>5. Stands(s, p)'
      BY <2>2, <2>3, <2>4, StandsGrows
    <2> QED
      BY <1>1, <2>1, <2>5 DEF Stands
  <1> QED
    BY <1>2, <1>3 DEF ReadInv

\* A step of ReadFrame that returns no frame leaves the frames returned as they were.
LEMMA NoFrame ==
    ASSUME ReadInv, UNCHANGED <<line, got>>
    PROVE  GotOK' /\ LastEnd' = LastEnd
  BY DEF ReadInv, GotOK, EndBefore, Stands, LastEnd

LEMMA ReadMagic0Read ==
    ASSUME TypesInv, ReadInv, ReadMagic0
    PROVE  ReadInv'
  <1>1. GotOK' /\ LastEnd' = LastEnd
    BY NoFrame DEF ReadMagic0, ReadByte
  <1>2. ReaderOK'
    BY <1>1, Numbers DEF ReadMagic0, ReadByte, Next1, ReadInv, ReaderOK, Base
  <1> QED
    BY <1>1, <1>2 DEF ReadInv

LEMMA ReadMagic1Read ==
    ASSUME TypesInv, ReadInv, ReadMagic1
    PROVE  ReadInv'
  <1>1. GotOK' /\ LastEnd' = LastEnd
    BY NoFrame DEF ReadMagic1, ReadByte
  <1>2. part = <<>> /\ Len(part) = 0
    BY EmptySeq DEF ReadMagic1, TypesInv, ReaderHolds
  <1>3. ReaderOK'
    BY <1>1, <1>2, Numbers, SMTT(30) DEF ReadMagic1, ReadByte, Next1, ReadInv, ReaderOK, Base
  <1> QED
    BY <1>1, <1>3 DEF ReadInv

LEMMA ReadLengthRead ==
    ASSUME TypesInv, TypesInv', ReadInv, ReadLength
    PROVE  ReadInv'
  <1>1. GotOK' /\ LastEnd' = LastEnd
    BY NoFrame DEF ReadLength, ReadByte
  <1>2. Len(<<>>) = 0
    BY EmptySeq
  <1>3. CASE part = <<>>
    <2>1. rst' = rst /\ part' = <<Next1>> /\ Len(part') = 1 /\ part'[1] = Next1
      BY <1>3 DEF ReadLength
    <2>2. Base' = Base /\ Base + 3 = pos + 1 /\ line' = line /\ Next1 = line[Base + 3]
      BY <1>2, <1>3, <2>1, Numbers, BaseFacts, SMT DEF ReadLength, ReadByte, Next1, Base
    <2> QED
      BY <1>1, <2>1, <2>2 DEF ReadLength, ReadInv, ReaderOK
  <1>4. CASE part # <<>> /\ rst' = "magic0"
    BY <1>1, <1>2, <1>4, Numbers, SMTT(30) DEF ReadLength, ReadByte, ReadInv, ReaderOK, Base
  <1>5. CASE part # <<>> /\ rst' = "payload"
    <2>1. need' = part[1] * 256 + Next1 /\ Len(part') = 0
      BY <1>2, <1>5 DEF ReadLength
    <2>2. rst = "length" /\ pos' = pos + 1 /\ line' = line /\ Next1 = line[pos + 1]
      BY DEF ReadLength, ReadByte, Next1
    <2>3. Base + 3 = pos /\ pos \in Nat /\ Base \in Nat
      BY <1>5, <2>2, Numbers, BaseFacts, SMT
    <2>4. Base' = pos' - 4 - Len(part')
      BY <1>5 DEF Base
    <2>5. Base' = Base /\ Next1 = line[Base + 4]
      BY <2>1, <2>2, <2>3, <2>4, SMT
    <2>6. part[1] = line[Base + 3] /\ line[Base + 1] = Magic0 /\ line[Base + 2] = Magic1
      BY <1>5, <2>2 DEF ReadInv, ReaderOK
    <2>7. 1..Len(part') = {}
      BY <2>1
    <2>8. LastEnd \in Nat /\ LastEnd <= Base
      BY DEF ReadInv, ReaderOK
    <2> QED
      <3>1. line'[Base' + 3] * 256 + line'[Base' + 4] = need'
        BY <2>1, <2>2, <2>5, <2>6
      <3>2. LastEnd' \in Nat /\ LastEnd' <= Base'
        BY <1>1, <2>5, <2>8
      <3>3. line'[Base' + 1] = Magic0 /\ line'[Base' + 2] = Magic1
        BY <2>2, <2>5, <2>6
      <3> QED
        BY <1>1, <1>5, <2>7, <3>1, <3>2, <3>3, Zenon DEF ReaderOK, ReadInv
  <1>6. part = <<>> \/ rst' = "magic0" \/ rst' = "payload"
    BY DEF ReadLength
  <1> QED
    BY <1>1, <1>3, <1>4, <1>5, <1>6 DEF ReadInv

\* The byte that completes a payload: what has been collected stands in the line.
LEMMA ReadPayloadRead ==
    ASSUME TypesInv, TypesInv', ReadInv, ReadPayload
    PROVE  ReadInv'
  <1> DEFINE p == Append(part, Next1)
  <1>1. /\ p \in Seq(Byte) /\ Len(p) = Len(part) + 1
        /\ \A i \in 1..Len(part) : p[i] = part[i]
        /\ p[Len(part) + 1] = Next1
    <2>1. Next1 \in Byte /\ part \in Seq(Byte)
      BY Bytes DEF ReadPayload, ReadByte, Next1, TypesInv, FrameTypeOK
    <2> QED
      BY <2>1, AppendProperties
  <1>2. /\ rst = "payload" /\ pos' = pos + 1 /\ line' = line /\ Next1 = line[pos + 1]
        /\ pos < Len(line)
    BY DEF ReadPayload, ReadByte, Next1
  <1>3. Base + 4 + Len(part) = pos /\ Base \in Nat
    BY <1>2, BaseFacts
  <1>4. /\ line[Base + 1] = Magic0 /\ line[Base + 2] = Magic1
        /\ line[Base + 3] * 256 + line[Base + 4] = need
        /\ \A i \in 1..Len(part) : line[Base + 4 + i] = part[i]
        /\ LastEnd \in Nat /\ LastEnd <= Base
    BY <1>2 DEF ReadInv, ReaderOK
  <1>5. \A i \in 1..Len(p) : line[Base + 4 + i] = p[i]
    <2>1. Len(part) \in Nat /\ pos + 1 = Base + 4 + (Len(part) + 1)
      BY <1>3, Numbers, SMT
    <2> HIDE DEF p
    <2>2. \A i \in 1..Len(p) : i \in 1..Len(part) \/ i = Len(part) + 1
      BY <1>1, <2>1, SMT
    <2> QED
      BY <1>1, <1>2, <1>4, <2>1, <2>2
  <1> HIDE DEF p
  <1>6. CASE ~Full(p)
    <2>1. part' = p /\ rst' = "payload" /\ need' = need /\ got' = got
      BY <1>6 DEF ReadPayload, p
    <2>2. GotOK' /\ LastEnd' = LastEnd
      BY <1>2, <2>1, NoFrame
    <2>3. Base' = Base
      <3>1. Base' = pos' - 4 - Len(part')
        BY <2>1 DEF Base
      <3>2. Len(part) \in Nat /\ pos' = pos + 1 /\ Len(part') = Len(part) + 1
        BY Numbers, <1>1, <1>2, <2>1
      <3> QED
        BY <3>1, <3>2, <1>3, SMT
    <2> QED
      BY <1>2, <1>4, <1>5, <2>1, <2>2, <2>3 DEF ReadInv, ReaderOK
  <1>7. CASE Full(p)
    <2> DEFINE f == [payload |-> p, end |-> pos + 1]
    <2>1. got' = Append(got, f) /\ part' = <<>> /\ rst' = "magic0"
      BY <1>7 DEF ReadPayload, p
    <2>2. f \in [payload : Seq(Byte), end : Nat] /\ f.payload = p /\ f.end = pos + 1
      BY <1>1, Numbers
    <2> HIDE DEF f
    <2>3. /\ Len(got') = Len(got) + 1 /\ \A i \in 1..Len(got) : got'[i] = got[i]
          /\ got'[Len(got) + 1] = f
      BY <2>1, <2>2, AppendProperties DEF TypesInv, ReaderHolds
    <2>4. LastEnd' = pos + 1 /\ Base' = pos + 1
      BY <1>2, <2>1, <2>2, <2>3, Numbers, SMT DEF LastEnd, Base
    <2>5. ReaderOK'
      BY <2>1, <2>4, Numbers DEF ReaderOK
    <2>6. f.end - 4 - Len(f.payload) = Base /\ Len(p) = need
      BY <1>1, <1>3, <1>7, <2>2, Numbers, SMT DEF Full
    <2>7. Stands(Base, p)
      <3>1. Base + 4 + Len(p) <= Len(line)
        BY <1>1, <1>2, <1>3, Numbers, SMT
      <3> QED
        BY <3>1, <1>4, <1>5, <2>6 DEF Stands
    <2>8. ASSUME NEW k \in 1..Len(got)
          PROVE  /\ EndBefore(k)' \in Nat
                 /\ EndBefore(k)' + 4 + Len(got'[k].payload) <= got'[k].end
                 /\ Stands(got[k].end - 4 - Len(got[k].payload), got[k].payload)
                 /\ got'[k] = got[k]
      <3>1. got'[k] = got[k]
        BY <2>3
      <3>2. EndBefore(k)' = EndBefore(k)
        BY <2>3, Numbers, SMT DEF EndBefore
      <3> QED
        BY <3>1, <3>2 DEF ReadInv, GotOK
    <2>9. (IF Len(got) + 1 = 1 THEN 0 ELSE got'[Len(got) + 1 - 1].end) = LastEnd
      <3>1. Len(got) \in Nat /\ (Len(got) + 1 = 1 <=> Len(got) = 0) /\ Len(got) + 1 - 1 = Len(got)
            /\ (Len(got) # 0 => Len(got) \in 1..Len(got))
        BY Numbers, SMT
      <3> QED
        BY <2>3, <3>1 DEF LastEnd
    <2>10. GotOK'
      <3> SUFFICES ASSUME NEW k \in 1..(Len(got) + 1)
                   PROVE  /\ EndBefore(k)' \in Nat
                          /\ EndBefore(k)' + 4 + Len(got'[k].payload) <= got'[k].end
                          /\ Stands(got[k].end - 4 - Len(got[k].payload), got[k].payload)'
        BY <2>3 DEF GotOK
      <3>1. CASE k \in 1..Len(got)
        <4>1. Stands(got[k].end - 4 - Len(got[k].payload), got[k].payload)'
          <5>1. got'[k] = got[k] /\ line' = line
            BY <2>8, <3>1, <1>2
          <5> DEFINE q == got[k].end - 4 - Len(got[k].payload)
                     r == got[k].payload
          <5>2. Stands(q, r) /\ q' = q /\ r' = r
            BY <2>8, <3>1, <5>1
          <5> HIDE DEF q, r
          <5>3. Stands(q, r)'
            BY <5>1, <5>2 DEF Stands
          <5> QED
            BY <5>3 DEF q, r
        <4> QED
          BY <2>8, <3>1, <4>1
      <3>2. CASE k = Len(got) + 1
        <4>1. got'[k] = f
          BY <2>3, <3>2
        <4>2. f.end - 4 - Len(f.payload) = Base /\ EndBefore(k)' = LastEnd
          <5>1. EndBefore(k)' = IF k = 1 THEN 0 ELSE got'[k - 1].end
            BY DEF EndBefore
          <5> QED
            BY <2>6, <2>9, <3>2, <5>1
        <4>3. Stands(got[k].end - 4 - Len(got[k].payload), got[k].payload)'
          BY <4>1, <4>2, <2>2, <2>7, <1>2 DEF Stands
        <4> QED
          <5>1. LastEnd + 4 + Len(p) <= f.end
            <6>1. f.end = Base + 4 + Len(p)
              BY <2>2, <1>1, <1>3, Numbers, SMT
            <6> QED
              BY <6>1, <1>1, <1>3, <1>4, Numbers, SMT
          <5> QED
            BY <4>1, <4>2, <4>3, <5>1, <1>4, <2>2
      <3> QED
        BY <3>1, <3>2, Numbers, SMT
    <2> QED
      BY <2>5, <2>10 DEF ReadInv
  <1> QED
    BY <1>6, <1>7

LEMMA ReadEndsRead ==
    ASSUME TypesInv, ReadInv, ReadEnds
    PROVE  ReadInv'
  <1>1. GotOK' /\ LastEnd' = LastEnd
    BY NoFrame DEF ReadEnds
  <1>2. ReaderOK'
    BY <1>1, Numbers, SMT DEF ReadEnds, ReadInv, ReaderOK, Base
  <1> QED
    BY <1>1, <1>2 DEF ReadInv

LEMMA ReadStep == ASSUME TypesInv, TypesInv', Grows, ReadInv, [Next]_vars PROVE ReadInv'
  <1>1. CASE Read
    BY <1>1, ReadMagic0Read, ReadMagic1Read, ReadLengthRead, ReadPayloadRead, ReadEndsRead DEF Read
  <1>2. CASE UNCHANGED readVars
    BY <1>2, GrowsRead
  <1>3. Read \/ UNCHANGED readVars
    BY DEF Next, Write, StartWrite, Lock, WriteSome, WriteNext, WriteFails, NoiseArrives,
       LineBreaks, vars
  <1> QED
    BY <1>1, <1>2, <1>3

\* Where a frame stands the line holds the bytes WriteFrame writes for it.
LEMMA StandsEncoded ==
    ASSUME NEW s \in Nat, NEW p \in Seq(Byte), line \in Seq(Byte), Stands(s, p)
    PROVE  SubSeq(line, s + 1, s + 4 + Len(p)) = Encode(p)
  <1>1. Len(p) \in Nat /\ Len(line) \in Nat /\ \A i \in 1..Len(line) : line[i] \in Byte
    BY Bytes
  <1>2. line[s + 3] \in Nat /\ line[s + 4] \in Nat /\ line[s + 3] < 256 /\ line[s + 4] < 256
    <2>1. s + 3 \in 1..Len(line) /\ s + 4 \in 1..Len(line)
      BY <1>1, SMT DEF Stands
    <2> QED
      BY <1>1, <2>1, ByteNumbers
  <1>3. line[s + 3] = Len(p) \div 256 /\ line[s + 4] = Len(p) % 256 /\ Len(p) < 256 * 256
    <2>1. \A n, hi, lo \in Nat : lo < 256 /\ n = hi * 256 + lo => hi = n \div 256 /\ lo = n % 256
      BY SMT
    <2>2. Len(p) = line[s + 3] * 256 + line[s + 4] /\ Len(p) < 256 * 256
      BY <1>1, <1>2, SMT DEF Stands
    <2> QED
      <3>1. line[s + 3] = Len(p) \div 256 /\ line[s + 4] = Len(p) % 256
        <4> DEFINE hi == line[s + 3]
                   lo == line[s + 4]
                   n == Len(p)
        <4>1. hi \in Nat /\ lo \in Nat /\ n \in Nat /\ lo < 256 /\ n = hi * 256 + lo
          BY <2>2, <1>1, <1>2
        <4> HIDE DEF hi, lo, n
        <4>2. hi = n \div 256 /\ lo = n % 256
          BY <2>1, <4>1
        <4> QED
          BY <4>2 DEF hi, lo, n
      <3> QED
        BY <2>2, <3>1
  <1> DEFINE a == SubSeq(line, s + 1, s + 4 + Len(p))
             h == Header(Len(p))
  <1>4. /\ a \in Seq(Byte) /\ Len(a) = 4 + Len(p)
        /\ \A i \in 1..(4 + Len(p)) : a[i] = line[s + i]
    <2>1. s + 1 \in Int /\ s + 4 + Len(p) \in Int
      BY <1>1
    <2>2. \A i \in (s + 1)..(s + 4 + Len(p)) : line[i] \in Byte
      BY <1>1 DEF Stands
    <2>3. /\ a \in Seq(Byte)
          /\ Len(a) = IF s + 1 <= s + 4 + Len(p) THEN s + 4 + Len(p) - (s + 1) + 1 ELSE 0
          /\ \A i \in 1..(s + 4 + Len(p) - (s + 1) + 1) : a[i] = line[(s + 1) + i - 1]
      BY <2>1, <2>2, SubSeqProperties
    <2> HIDE DEF a
    <2> QED
      BY <1>1, <2>3, SMT
  <1>5. /\ h \in Seq(Byte) /\ Len(h) = 4 /\ h[1] = Magic0 /\ h[2] = Magic1
        /\ h[3] = Len(p) \div 256 /\ h[4] = Len(p) % 256
    BY <1>1, <1>3, HeaderBytes
  <1>6. Encode(p) = h \o p
    BY DEF Encode
  <1> HIDE DEF a, h
  <1>7. /\ h \o p \in Seq(Byte) /\ Len(h \o p) = 4 + Len(p)
        /\ \A i \in 1..4 : (h \o p)[i] = h[i]
        /\ \A i \in 1..Len(p) : (h \o p)[4 + i] = p[i]
    <2>1. p \in Seq(Byte)
      OBVIOUS
    <2>2. /\ h \o p \in Seq(Byte) /\ Len(h \o p) = Len(h) + Len(p)
          /\ \A i \in 1..Len(h) : (h \o p)[i] = h[i]
          /\ \A i \in 1..Len(p) : (h \o p)[Len(h) + i] = p[i]
      BY <1>5, <2>1, Appended, ZenonT(30)
    <2> QED
      BY <1>5, <2>2
  <1>8. \A i \in 1..(4 + Len(p)) : a[i] = (h \o p)[i]
    <2> SUFFICES ASSUME NEW i \in 1..(4 + Len(p)) PROVE a[i] = (h \o p)[i]
      OBVIOUS
    <2>1. CASE i \in 1..4
      <3>1. i = 1 \/ i = 2 \/ i = 3 \/ i = 4
        BY <2>1, SMT
      <3>2. a[i] = line[s + i] /\ (h \o p)[i] = h[i]
        BY <2>1, <1>4, <1>7
      <3> QED
        <4>1. CASE i = 1
          BY <3>2, <4>1, <1>5 DEF Stands
        <4>2. CASE i = 2
          BY <3>2, <4>2, <1>5 DEF Stands
        <4>3. CASE i = 3
          BY <3>2, <4>3, <1>3, <1>5
        <4>4. CASE i = 4
          BY <3>2, <4>4, <1>3, <1>5
        <4> QED
          BY <3>1, <4>1, <4>2, <4>3, <4>4
    <2>2. CASE i - 4 \in 1..Len(p)
      <3>1. a[i] = line[s + 4 + (i - 4)] /\ (h \o p)[4 + (i - 4)] = p[i - 4] /\ 4 + (i - 4) = i
        <4>1. 4 + (i - 4) = i /\ s + 4 + (i - 4) = s + i
          BY <2>2, <1>1, SMT
        <4> QED
          BY <2>2, <4>1, <1>4, <1>7
      <3> QED
        BY <2>2, <3>1 DEF Stands
    <2> QED
      <3>1. i \in 1..4 \/ i - 4 \in 1..Len(p)
        BY <1>1, SMT
      <3> QED
        BY <2>1, <2>2, <3>1
  <1> QED
    BY <1>4, <1>6, <1>7, <1>8, SeqEqual DEF a

LEMMA ReadFramed == ASSUME TypesInv, ReadInv PROVE Framed
  <1> SUFFICES ASSUME NEW k \in 1..Len(got)
               PROVE  /\ StartOf(got[k]) > IF k = 1 THEN 0 ELSE got[k - 1].end
                      /\ SubSeq(line, StartOf(got[k]), got[k].end) = Encode(got[k].payload)
    BY DEF Framed
  <1> DEFINE s == got[k].end - 4 - Len(got[k].payload)
             p == got[k].payload
  <1>1. /\ EndBefore(k) \in Nat /\ EndBefore(k) + 4 + Len(p) <= got[k].end /\ Stands(s, p)
        /\ got[k].end \in Nat /\ p \in Seq(Byte) /\ Len(p) \in Nat
    BY Numbers DEF ReadInv, GotOK
  <1>2. s \in Nat /\ s + 1 = StartOf(got[k]) /\ s + 4 + Len(p) = got[k].end
        /\ EndBefore(k) < StartOf(got[k])
    <2> HIDE DEF p
    <2>1. StartOf(got[k]) = got[k].end - Len(p) - 3
      BY DEF StartOf, p
    <2>2. s = got[k].end - 4 - Len(p)
      BY DEF p
    <2>3. got[k].end \in Nat /\ Len(p) \in Nat /\ EndBefore(k) \in Nat
          /\ EndBefore(k) + 4 + Len(p) <= got[k].end
      BY <1>1
    <2> HIDE DEF s
    <2> QED
      BY <2>1, <2>2, <2>3, SMTT(30)
  <1>3. SubSeq(line, s + 1, s + 4 + Len(p)) = Encode(p)
    <2> HIDE DEF s, p
    <2> QED
      BY <1>1, <1>2, StandsEncoded DEF TypesInv, FrameTypeOK
  <1>4. SubSeq(line, StartOf(got[k]), got[k].end) = Encode(p)
    <2> HIDE DEF s, p
    <2> QED
      BY <1>2, <1>3
  <1> QED
    BY <1>1, <1>2, <1>4 DEF EndBefore

LEMMA InitRead == Init => ReadInv
  BY EmptySeq DEF Init, ReadInv, ReaderOK, GotOK, Base, LastEnd

\* Spec keeps Framed: whatever the line carries, every frame ReadFrame returns stands in
\* it as WriteFrame writes one, and no byte belongs to two.
THEOREM FramedCorrect == Spec => []Framed
  <1>1. Init => TypesInv /\ ReadInv
    BY InitTypes, InitRead
  <1>2. TypesInv /\ ReadInv /\ [Next]_vars => TypesInv' /\ ReadInv'
    BY TypesStep, ReadStep
  <1>3. TypesInv /\ ReadInv => Framed
    BY ReadFramed
  <1> QED
    BY <1>1, <1>2, <1>3, PTL DEF Spec

-----------------------------------------------------------------------------
(* What was written arrives *)

EndOf(S, k) == S[k] + 4 + Len(written[k])

\* The frames of written stand one after the other where S says, all before c.
FramesStand(S, c) == \A k \in 1..Len(S) :
    /\ Len(written[k]) > 0 /\ Len(written[k]) <= MaxSize
    /\ Stands(S[k], written[k]) /\ EndOf(S, k) <= c
FramesApart(S) == \A j, k \in 1..Len(S) : j < k => EndOf(S, j) <= S[k]

\* Headers of length 0 stand where Z says, in no frame, and no other Magic0 stands
\* before c outside a frame.
ZerosStand(Z, c) == \A z \in Z :
    /\ z + 4 <= c /\ line[z + 1] = Magic0 /\ line[z + 2] = Magic1
    /\ line[z + 3] = 0 /\ line[z + 4] = 0
ZerosApart(S, Z) == \A z \in Z, k \in 1..Len(S) : z + 4 <= S[k] \/ EndOf(S, k) <= z
NoOtherMagic(S, Z, c) == \A q \in Nat : q < c /\ line[q + 1] = Magic0 =>
    q \in Z \/ \E k \in 1..Len(S) : S[k] <= q /\ q < EndOf(S, k)

Layout(S, Z, c) ==
    /\ Len(S) = Len(written) /\ c <= Len(line)
    /\ FramesStand(S, c) /\ FramesApart(S)
    /\ ZerosStand(Z, c) /\ ZerosApart(S, Z) /\ NoOtherMagic(S, Z, c)

\* From c to the end of the line stand the first bytes of the frame of p, not all.
Started(c, p) ==
    /\ Len(p) > 0 /\ Len(p) <= MaxSize /\ Len(line) < c + 4 + Len(p)
    /\ \A j \in 1..4 : c + j <= Len(line) => line[c + j] = Header(Len(p))[j]
    /\ \A i \in 1..Len(p) : c + 4 + i <= Len(line) => line[c + 4 + i] = p[i]

CutShort(c) == c = Len(line) \/ \E p \in Seq(Byte) : Started(c, p)

\* The writer that holds the lock has written what its buffer no longer holds.
InHeader(w, c) ==
    /\ Started(c, payload[w])
    /\ Len(buf[w]) <= 4 /\ c + 4 = Len(line) + Len(buf[w])
    /\ \A i \in 1..Len(buf[w]) : buf[w][i] = Header(Len(payload[w]))[4 - Len(buf[w]) + i]
InPayload(w, c) ==
    /\ Started(c, payload[w])
    /\ Len(buf[w]) <= Len(payload[w]) /\ c + 4 + Len(payload[w]) = Len(line) + Len(buf[w])
    /\ \A i \in 1..Len(buf[w]) : buf[w][i] = payload[w][Len(payload[w]) - Len(buf[w]) + i]
WriterOK(c) == ~broken =>
    /\ serialMu = Nil => c = Len(line)
    /\ \A w \in Writers :
          /\ wpc[w] = "header" => InHeader(w, c)
          /\ wpc[w] = "payload" /\ buf[w] = <<>> => c = Len(line)
          /\ wpc[w] = "payload" /\ buf[w] # <<>> => InPayload(w, c)

\* The reader has returned the frames before Base, and is inside none of the others.
Reads(S, Z, c) ==
    /\ Len(got) <= Len(written) /\ \A k \in 1..Len(got) : got[k].payload = written[k]
    /\ rst = "ended" => broken /\ Len(got) = Len(written)
    /\ rst # "ended" =>
          /\ Base <= c
          /\ \A k \in 1..Len(got) : EndOf(S, k) <= Base
          /\ \A k \in 1..Len(S) : Len(got) < k => Base <= S[k]
          /\ \A z \in Z : z + 4 <= Base \/ Base <= z

Arrives(S, Z, c) == Layout(S, Z, c) /\ CutShort(c) /\ WriterOK(c) /\ Reads(S, Z, c)
HarmlessNoise == \A i \in 1..Len(noise) : Harmless(noise[i])
ArriveInv == HarmlessNoise =>
    \E S \in Seq(Nat), Z \in SUBSET Nat, c \in Nat : Arrives(S, Z, c)

LEMMA LayoutNumbers ==
    ASSUME TypesInv, NEW S \in Seq(Nat), NEW Z \in SUBSET Nat, NEW c \in Nat, Layout(S, Z, c)
    PROVE  /\ Len(S) \in Nat /\ Len(S) = Len(written)
           /\ \A k \in 1..Len(S) :
                 S[k] \in Nat /\ Len(written[k]) \in Nat /\ written[k] \in Seq(Byte)
                 /\ EndOf(S, k) \in Nat /\ EndOf(S, k) = S[k] + 4 + Len(written[k])
                 /\ Len(written[k]) > 0 /\ EndOf(S, k) <= c
  <1>1. Len(S) \in Nat /\ \A k \in 1..Len(S) : S[k] \in Nat
    BY LenProperties, ElementOfSeq
  <1>2. Len(S) = Len(written) /\ \A k \in 1..Len(S) : Len(written[k]) > 0 /\ EndOf(S, k) <= c
    BY DEF Layout, FramesStand
  <1>3. \A k \in 1..Len(S) : written[k] \in Seq(Byte)
    BY <1>2, Numbers
  <1>4. \A k \in 1..Len(S) : Len(written[k]) \in Nat
    BY <1>3, Bytes
  <1>5. \A k \in 1..Len(S) : EndOf(S, k) \in Nat /\ EndOf(S, k) = S[k] + 4 + Len(written[k])
    BY <1>1, <1>4 DEF EndOf
  <1> QED
    BY <1>1, <1>2, <1>3, <1>4, <1>5

\* The frames returned are the first of those written, and end before Base.
LEMMA ReturnedEnds ==
    ASSUME TypesInv, NEW S \in Seq(Nat), NEW Z \in SUBSET Nat, NEW c \in Nat,
           Arrives(S, Z, c), rst # "ended", NEW k \in 1..Len(got)
    PROVE  k \in 1..Len(S) /\ EndOf(S, k) \in Nat /\ EndOf(S, k) <= Base
  <1>1. Len(got) \in Nat /\ Len(S) \in Nat /\ Len(got) <= Len(S)
    BY Numbers, LayoutNumbers DEF Arrives, Reads
  <1>2. k \in 1..Len(S)
    BY <1>1, SMT
  <1> QED
    BY <1>2, LayoutNumbers DEF Arrives, Reads

\* The header of a frame that stands, or began, tells its length.
LEMMA HeaderTells ==
    ASSUME TypesInv, NEW c \in Nat, NEW p \in Seq(Byte), Started(c, p), c < Len(line)
    PROVE  /\ Len(p) \in Nat /\ line[c + 1] = Magic0
           /\ c + 2 <= Len(line) => line[c + 2] = Magic1
           /\ c + 4 <= Len(line) => line[c + 3] * 256 + line[c + 4] = Len(p)
  <1>1. Len(p) \in Nat /\ Len(line) \in Nat /\ Len(p) < 256 * 256
    <2>1. Len(p) \in Nat /\ Len(line) \in Nat /\ MaxSize \in Nat /\ Len(p) <= MaxSize
      BY Bytes, Numbers, FrameAssumptions DEF Started
    <2>2. MaxSize < 256 * 256
      BY FrameAssumptions
    <2> QED
      BY <2>1, <2>2, SMT
  <1>2. /\ Header(Len(p))[1] = Magic0 /\ Header(Len(p))[2] = Magic1
        /\ Header(Len(p))[3] = Len(p) \div 256 /\ Header(Len(p))[4] = Len(p) % 256
    BY <1>1, HeaderBytes
  <1>3. \A j \in 1..4 : c + j <= Len(line) => line[c + j] = Header(Len(p))[j]
    BY DEF Started
  <1>4. c + 1 <= Len(line) /\ (c + 4 <= Len(line) => c + 3 <= Len(line))
    BY <1>1, SMT
  <1>5. line[c + 1] = Magic0 /\ (c + 2 <= Len(line) => line[c + 2] = Magic1)
    BY <1>2, <1>3, <1>4
  <1>6. c + 4 <= Len(line) => line[c + 3] = Len(p) \div 256 /\ line[c + 4] = Len(p) % 256
    BY <1>2, <1>3, <1>4
  <1>7. (Len(p) \div 256) * 256 + (Len(p) % 256) = Len(p)
    BY <1>1, BigEndian
  <1> QED
    BY <1>1, <1>5, <1>6, <1>7

\* A Magic0 that the reader meets outside a frame begins a header: of length 0, of the
\* frame that is next to be returned, or of the one that is not yet whole.
LEMMA AtItem ==
    ASSUME TypesInv, ReadInv, NEW S \in Seq(Nat), NEW Z \in SUBSET Nat, NEW c \in Nat,
           Arrives(S, Z, c), rst # "ended", Base < Len(line), line[Base + 1] = Magic0
    PROVE  \/ Base \in Z
           \/ Base = c /\ c < Len(line)
           \/ Len(got) + 1 \in 1..Len(S) /\ Base = S[Len(got) + 1]
  <1>1. Base \in Nat /\ Base <= c
    BY BaseFacts DEF Arrives, Reads
  <1>2. CASE Base < c
    <2>1. Base \in Z \/ \E k \in 1..Len(S) : S[k] <= Base /\ Base < EndOf(S, k)
      BY <1>1, <1>2 DEF Arrives, Layout, NoOtherMagic
    <2>2. ASSUME NEW k \in 1..Len(S), S[k] <= Base, Base < EndOf(S, k)
          PROVE  Len(got) + 1 \in 1..Len(S) /\ Base = S[Len(got) + 1]
      <3>0. Len(got) \in Nat /\ Len(S) \in Nat /\ Len(got) <= Len(S)
        BY Numbers, LayoutNumbers DEF Arrives, Reads
      <3>1. Len(got) < k
        <4>1. k \in 1..Len(got) => EndOf(S, k) <= Base
          BY DEF Arrives, Reads
        <4>2. EndOf(S, k) \in Nat
          BY LayoutNumbers DEF Arrives
        <4> QED
          BY <1>1, <2>2, <3>0, <4>1, <4>2, SMT
      <3>2. Base = S[k]
        <4>1. Base <= S[k] /\ S[k] \in Nat
          BY <3>1, LayoutNumbers DEF Arrives, Reads
        <4> QED
          BY <1>1, <2>2, <4>1, SMT
      <3> DEFINE m == Len(got) + 1
      <3>3. m \in 1..Len(S) /\ Len(got) < m
        BY <3>0, <3>1, SMT
      <3> HIDE DEF m
      <3>4. m = k
        <4>1. m < k => EndOf(S, m) <= S[k]
          BY <3>3 DEF Arrives, Layout, FramesApart
        <4>2. Base <= S[m] /\ S[m] \in Nat /\ Len(written[m]) \in Nat
              /\ EndOf(S, m) = S[m] + 4 + Len(written[m])
          BY <3>3, LayoutNumbers DEF Arrives, Reads
        <4>3. ~(m < k)
          <5>1. PICK b, l \in Nat : b = S[m] /\ l = Len(written[m])
            BY <4>2
          <5>2. Base <= b /\ (m < k => b + 4 + l <= Base)
            BY <3>2, <4>1, <4>2, <5>1
          <5>3. ~(b + 4 + l <= Base)
            BY <1>1, <5>2, SMT
          <5> QED
            BY <5>2, <5>3
        <4>4. m <= k
          BY <3>0, <3>1, SMT DEF m
        <4> QED
          BY <4>3, <4>4, <3>0, <3>3, SMT
      <3> QED
        BY <3>2, <3>3, <3>4 DEF m
    <2> QED
      BY <2>1, <2>2
  <1>3. CASE ~(Base < c)
    <2>1. Base = c
      BY <1>1, <1>3, SMT
    <2> QED
      BY <2>1
  <1> QED
    BY <1>2, <1>3

\* Once everything is read no frame is missing.
LEMMA AllRead ==
    ASSUME TypesInv, ReadInv, NEW S \in Seq(Nat), NEW Z \in SUBSET Nat, NEW c \in Nat,
           Arrives(S, Z, c), pos = Len(line)
    PROVE  Len(got) = Len(written)
  <1> SUFFICES ASSUME Len(got) # Len(written), rst # "ended" PROVE FALSE
    BY DEF Arrives, Reads
  <1>0. Len(got) \in Nat /\ Len(S) \in Nat /\ Len(got) <= Len(S) /\ Len(S) = Len(written)
    BY Numbers, LayoutNumbers DEF Arrives, Reads
  <1> DEFINE m == Len(got) + 1
  <1>1. m \in 1..Len(S) /\ Len(got) < m
    BY <1>0, SMT
  <1> HIDE DEF m
  <1>2. /\ Base <= S[m] /\ S[m] \in Nat /\ Len(written[m]) \in Nat /\ Len(written[m]) > 0
        /\ EndOf(S, m) = S[m] + 4 + Len(written[m]) /\ EndOf(S, m) <= c /\ c <= Len(line)
    BY <1>1, LayoutNumbers DEF Arrives, Reads, Layout
  <1>3. Base \in Nat /\ Len(line) \in Nat /\ Len(part) \in Nat /\ need \in Nat
    BY BaseFacts, Numbers
  <1>4. Base + 4 < pos
    <2>1. PICK b, l, e \in Nat : b = S[m] /\ l = Len(written[m]) /\ e = Len(line)
      BY <1>2, <1>3
    <2>2. Base <= b /\ l > 0 /\ b + 4 + l <= c /\ c <= e
      BY <1>2, <2>1
    <2>3. Base + 4 < e
      BY <1>3, <2>2, SMT
    <2> QED
      BY <2>1, <2>3
  <1>5. rst = "payload" /\ Base + 4 + Len(part) = pos /\ Len(part) < need
    <2>1. rst = "magic1" => Base + 1 = pos
      BY BaseFacts
    <2>2. rst = "length" => Base + 2 + Len(part) = pos /\ Len(part) < 2
      BY BaseFacts, Numbers
    <2>3. rst = "magic0" => Base = pos
      BY BaseFacts
    <2>4. rst # "magic0" /\ rst # "magic1" /\ rst # "length"
      BY <1>3, <1>4, <2>1, <2>2, <2>3, SMT
    <2>5. rst = "payload"
      BY <2>4 DEF TypesInv, FrameTypeOK
    <2> QED
      BY <2>5, BaseFacts, Numbers
  <1>6. line[Base + 1] = Magic0 /\ line[Base + 3] * 256 + line[Base + 4] = need
    BY <1>5 DEF ReadInv, ReaderOK
  <1>7. Base < Len(line)
    BY <1>3, <1>4, SMT
  <1>8. Base \in Z \/ Base = c \/ Base = S[m]
    BY <1>6, <1>7, AtItem DEF m
  <1>9. Base \notin Z
    <2> SUFFICES ASSUME Base \in Z PROVE FALSE
      OBVIOUS
    <2>1. line[Base + 3] = 0 /\ line[Base + 4] = 0
      BY DEF Arrives, Layout, ZerosStand
    <2> QED
      BY <2>1, <1>3, <1>5, <1>6, SMT
  <1>10. Base # c
    <2>1. PICK b, l \in Nat : b = S[m] /\ l = Len(written[m])
      BY <1>2
    <2>2. Base <= b /\ b + 4 + l <= c
      BY <1>2, <2>1
    <2> QED
      BY <1>3, <2>2, SMT
  <1>11. Base # S[m]
    <2> SUFFICES ASSUME Base = S[m] PROVE FALSE
      OBVIOUS
    <2>1. line[Base + 3] * 256 + line[Base + 4] = Len(written[m])
      BY <1>1 DEF Arrives, Layout, FramesStand, Stands
    <2>2. Len(written[m]) = need
      BY <2>1, <1>6
    <2> QED
      <3>1. Base + 4 + need <= c /\ c <= Len(line)
        BY <1>2, <2>2
      <3>2. PICK l, e \in Nat : l = Len(part) /\ e = Len(line)
        BY <1>3
      <3>3. Base + 4 + need <= c /\ c <= e /\ Base + 4 + l = e /\ l < need
        BY <3>1, <3>2, <1>5
      <3> QED
        BY <1>3, <3>3, SMTT(30)
  <1> QED
    BY <1>8, <1>9, <1>10, <1>11

LEMMA ArriveFrames == ASSUME TypesInv, ReadInv, ArriveInv PROVE FramesArrive
  <1> SUFFICES ASSUME HarmlessNoise
               PROVE  /\ IsPrefix(GotPayloads, written)
                      /\ pos = Len(line) => GotPayloads = written
    BY DEF FramesArrive, HarmlessNoise
  <1>1. PICK S \in Seq(Nat), Z \in SUBSET Nat, c \in Nat : Arrives(S, Z, c)
    BY DEF ArriveInv
  <1>2. /\ Len(got) \in Nat /\ Len(written) \in Nat /\ Len(got) <= Len(written)
        /\ \A k \in 1..Len(got) : got[k].payload = written[k]
    BY <1>1, Numbers DEF Arrives, Reads
  <1>3. \A k \in 1..Len(written) : written[k] \in Seq(Byte)
    BY Numbers
  <1>4. /\ GotPayloads \in Seq(Seq(Byte)) /\ Len(GotPayloads) = Len(got)
        /\ \A k \in 1..Len(got) : GotPayloads[k] = written[k]
    <2>1. \A k \in 1..Len(got) : got[k].payload \in Seq(Byte)
      BY Numbers
    <2>2. GotPayloads \in [1..Len(got) -> Seq(Byte)]
      BY <2>1 DEF GotPayloads
    <2>3. GotPayloads \in Seq(Seq(Byte))
      BY <1>2, <2>2, SeqDef
    <2>4. Len(GotPayloads) = Len(got)
      <3>1. DOMAIN GotPayloads = 1..Len(got) /\ DOMAIN GotPayloads = 1..Len(GotPayloads)
            /\ Len(GotPayloads) \in Nat
        BY <2>2, <2>3, LenProperties
      <3> QED
        BY <3>1, <1>2, SMT
    <2> QED
      BY <2>3, <2>4, <1>2 DEF GotPayloads
  <1>5. IsPrefix(GotPayloads, written)
    <2> DEFINE n == Len(got)
               T == Seq(Byte)
    <2>1. n \in Nat /\ \A i \in 1..n : GotPayloads[i] \in T /\ written[i] \in T
      <3>1. \A i \in 1..n : i \in 1..Len(written)
        BY <1>2, SMT
      <3> QED
        BY <1>2, <1>3, <1>4, <3>1
    <2> HIDE DEF n, T
    <2>2. /\ SubSeq(GotPayloads, 1, n) \in Seq(T)
          /\ Len(SubSeq(GotPayloads, 1, n)) = IF 1 <= n THEN n - 1 + 1 ELSE 0
          /\ \A i \in 1..(n - 1 + 1) : SubSeq(GotPayloads, 1, n)[i] = GotPayloads[1 + i - 1]
      BY <2>1, SubSeqProperties
    <2>3. /\ SubSeq(written, 1, n) \in Seq(T)
          /\ Len(SubSeq(written, 1, n)) = IF 1 <= n THEN n - 1 + 1 ELSE 0
          /\ \A i \in 1..(n - 1 + 1) : SubSeq(written, 1, n)[i] = written[1 + i - 1]
      BY <2>1, SubSeqProperties
    <2>4. Len(SubSeq(GotPayloads, 1, n)) = n
      BY <2>1, <2>2, SMT
    <2>5. \A i \in 1..n : SubSeq(GotPayloads, 1, n)[i] = SubSeq(written, 1, n)[i]
      <3>1. \A i \in 1..n : i \in 1..(n - 1 + 1) /\ 1 + i - 1 = i
        BY <2>1, SMT
      <3>2. \A i \in 1..n : GotPayloads[i] = written[i]
        BY <1>4 DEF n
      <3> QED
        BY <2>2, <2>3, <3>1, <3>2
    <2>6. SubSeq(GotPayloads, 1, n) = SubSeq(written, 1, n)
      BY <2>2, <2>3, <2>4, <2>5, SeqEqual
    <2> QED
      BY <1>2, <1>4, <2>6 DEF IsPrefix, n
  <1>6. ASSUME pos = Len(line) PROVE GotPayloads = written
    <2>1. Len(got) = Len(written)
      BY <1>1, <1>6, AllRead
    <2> QED
      BY <2>1, <1>4, SeqEqual DEF TypesInv, WritersOK
  <1> QED
    BY <1>5, <1>6

LEMMA SameLayout ==
    ASSUME line' = line, written' = written, NEW S, NEW Z, NEW c, Layout(S, Z, c)
    PROVE  Layout(S, Z, c)'
  <1>1. FramesStand(S, c)'
    BY SMTT(30) DEF Layout, FramesStand, EndOf, Stands
  <1>2. FramesApart(S)'
    BY DEF Layout, FramesApart, EndOf
  <1>3. ZerosStand(Z, c)'
    BY DEF Layout, ZerosStand
  <1>4. ZerosApart(S, Z)'
    BY DEF Layout, ZerosApart, EndOf
  <1>5. NoOtherMagic(S, Z, c)'
    BY DEF Layout, NoOtherMagic, EndOf
  <1> QED
    BY <1>1, <1>2, <1>3, <1>4, <1>5 DEF Layout

\* The reader's steps change neither the line nor what the writers hold.
LEMMA ReaderOnly ==
    ASSUME UNCHANGED <<line, broken, writeVars>>, NEW S, NEW Z, NEW c,
           Layout(S, Z, c), CutShort(c), WriterOK(c)
    PROVE  /\ Layout(S, Z, c)' /\ CutShort(c)' /\ WriterOK(c)'
           /\ \A k : EndOf(S, k)' = EndOf(S, k)
  <1>1. line' = line /\ broken' = broken /\ serialMu' = serialMu /\ wpc' = wpc
        /\ payload' = payload /\ buf' = buf /\ written' = written
    BY DEF writeVars
  <1>2. Layout(S, Z, c)'
    BY <1>1, SameLayout
  <1>3. CutShort(c)'
    BY <1>1 DEF CutShort, Started
  <1>4. WriterOK(c)'
    <2> SUFFICES ASSUME ~broken
                 PROVE  /\ serialMu = Nil => c = Len(line)
                        /\ \A w \in Writers :
                              /\ wpc[w] = "header" => InHeader(w, c)'
                              /\ wpc[w] = "payload" /\ buf[w] = <<>> => c = Len(line)
                              /\ wpc[w] = "payload" /\ buf[w] # <<>> => InPayload(w, c)'
      BY <1>1 DEF WriterOK
    <2>1. ASSUME NEW w, InHeader(w, c) PROVE InHeader(w, c)'
      BY <2>1, <1>1 DEF InHeader, Started
    <2>2. ASSUME NEW w, InPayload(w, c) PROVE InPayload(w, c)'
      BY <2>2, <1>1 DEF InPayload, Started
    <2> QED
      BY <2>1, <2>2 DEF WriterOK
  <1>5. \A k : EndOf(S, k)' = EndOf(S, k)
    BY <1>1 DEF EndOf
  <1> QED
    BY <1>2, <1>3, <1>4, <1>5

\* A step that stays in the item it is in, or before the next one.
LEMMA StayBase ==
    ASSUME UNCHANGED <<written, got>>, Base' = Base, NEW S, NEW Z, NEW c,
           Reads(S, Z, c), rst # "ended", rst' # "ended"
    PROVE  Reads(S, Z, c)'
  BY DEF Reads, EndOf

\* Base moves past bytes in which nothing begins.
LEMMA MoveBase ==
    ASSUME UNCHANGED <<written, got>>, NEW S, NEW Z, NEW c,
           Reads(S, Z, c), rst # "ended", rst' # "ended", Base' <= c,
           \A k \in 1..Len(got) : EndOf(S, k) <= Base',
           \A k \in 1..Len(S) : Len(got) < k => Base' <= S[k],
           \A z \in Z : z + 4 <= Base' \/ Base' <= z
    PROVE  Reads(S, Z, c)'
  BY DEF Reads, EndOf

LEMMA ReadMagic0Arrives ==
    ASSUME TypesInv, ReadInv, NEW S \in Seq(Nat), NEW Z \in SUBSET Nat, NEW c \in Nat,
           Arrives(S, Z, c), ReadMagic0
    PROVE  Reads(S, Z, c)'
  <1>1. /\ rst = "magic0" /\ pos < Len(line) /\ pos' = pos + 1 /\ line' = line
        /\ written' = written /\ got' = got /\ Base = pos /\ Reads(S, Z, c)
    BY BaseFacts DEF ReadMagic0, ReadByte, writeVars, Arrives
  <1>2. pos \in Nat /\ Len(line) \in Nat
    BY Numbers
  <1>3. CASE Next1 = Magic0
    <2>1. rst' = "magic1"
      BY <1>3 DEF ReadMagic0
    <2>2. Base' = pos' - 1
      BY <2>1 DEF Base
    <2>3. Base' = Base
      BY <2>2, <1>1, <1>2, SMT
    <2> QED
      BY <1>1, <2>1, <2>3, StayBase
  <1>4. CASE Next1 # Magic0
    <2>0. rst' = "magic0" /\ line[Base + 1] # Magic0
      BY <1>1, <1>4 DEF ReadMagic0, Next1
    <2>1. Base' = Base + 1 /\ Base \in Nat
      BY <2>0, <1>1, <1>2 DEF Base
    <2>2. Base < c
      <3>1. Base <= c /\ c <= Len(line) /\ CutShort(c)
        BY <1>1 DEF Reads, Arrives, Layout
      <3>2. c < Len(line) => line[c + 1] = Magic0
        BY <3>1, HeaderTells DEF CutShort
      <3>3. Base # c
        BY <1>1, <2>0, <3>2
      <3> QED
        BY <3>1, <3>3, <2>1, SMT
    <2>3. \A k \in 1..Len(got) : EndOf(S, k) <= Base + 1
      <3>1. \A k \in 1..Len(got) : EndOf(S, k) <= Base /\ k \in 1..Len(S)
        BY <1>1, ReturnedEnds
      <3>2. \A k \in 1..Len(S) : EndOf(S, k) \in Nat
        BY LayoutNumbers DEF Arrives
      <3>3. \A e \in Nat : e <= Base => e <= Base + 1
        BY <2>1, SMT
      <3> QED
        BY <3>1, <3>2, <3>3
    <2>4. \A k \in 1..Len(S) : Len(got) < k => Base + 1 <= S[k]
      <3>1. \A k \in 1..Len(S) : S[k] \in Nat /\ (Len(got) < k => Base <= S[k])
        BY <1>1, LayoutNumbers DEF Reads, Arrives
      <3>2. \A k \in 1..Len(S) : S[k] # Base
        BY <2>0 DEF Arrives, Layout, FramesStand, Stands
      <3>3. \A s \in Nat : Base <= s /\ s # Base => Base + 1 <= s
        BY <2>1, SMT
      <3> QED
        BY <3>1, <3>2, <3>3
    <2>5. \A z \in Z : z + 4 <= Base + 1 \/ Base + 1 <= z
      <3>1. \A z \in Z : z # Base
        BY <2>0 DEF Arrives, Layout, ZerosStand
      <3>2. \A z \in Z : z \in Nat /\ (z + 4 <= Base \/ Base <= z)
        BY <1>1 DEF Reads
      <3>3. \A z \in Nat : (z + 4 <= Base \/ Base <= z) /\ z # Base
                             => z + 4 <= Base + 1 \/ Base + 1 <= z
        BY <2>1, SMT
      <3> QED
        BY <3>1, <3>2, <3>3
    <2>6. Base + 1 <= c
      BY <2>1, <2>2, SMT
    <2> QED
      BY <1>1, <2>0, <2>1, <2>3, <2>4, <2>5, <2>6, MoveBase
  <1> QED
    BY <1>3, <1>4

LEMMA ReadMagic1Arrives ==
    ASSUME TypesInv, ReadInv, NEW S \in Seq(Nat), NEW Z \in SUBSET Nat, NEW c \in Nat,
           Arrives(S, Z, c), ReadMagic1
    PROVE  Reads(S, Z, c)'
  <1>1. /\ rst = "magic1" /\ pos < Len(line) /\ pos' = pos + 1 /\ line' = line
        /\ written' = written /\ got' = got /\ Base + 1 = pos /\ Reads(S, Z, c)
        /\ part' = part /\ Len(part) = 0
    BY BaseFacts, EmptySeq DEF ReadMagic1, ReadByte, writeVars, Arrives, TypesInv, ReaderHolds
  <1>2. pos \in Nat /\ Len(line) \in Nat /\ Base \in Nat /\ pos + 1 = Base + 2
    BY <1>1, Numbers, BaseFacts, SMT
  <1>3. line[Base + 1] = Magic0 /\ Base < Len(line) /\ Base + 2 <= Len(line)
    <2>1. line[Base + 1] = Magic0
      BY <1>1 DEF ReadInv, ReaderOK
    <2> QED
      BY <1>1, <1>2, <2>1, SMT
  <1>4. line[Base + 2] = Magic1
    <2>0. rst # "ended"
      BY <1>1
    <2>1. \/ Base \in Z
          \/ Base = c /\ c < Len(line)
          \/ Len(got) + 1 \in 1..Len(S) /\ Base = S[Len(got) + 1]
      BY <2>0, <1>3, AtItem
    <2>2. CASE Base \in Z
      BY <2>2 DEF Arrives, Layout, ZerosStand
    <2>3. CASE Base = c /\ c < Len(line)
      BY <1>3, <2>3, HeaderTells, SMT DEF Arrives, CutShort
    <2>4. CASE Len(got) + 1 \in 1..Len(S) /\ Base = S[Len(got) + 1]
      BY <2>4 DEF Arrives, Layout, FramesStand, Stands
    <2> QED
      BY <2>1, <2>2, <2>3, <2>4
  <1>5. rst' = "length"
    BY <1>2, <1>4 DEF ReadMagic1, Next1
  <1>6. Base' = pos' - 2 - Len(part')
    BY <1>5 DEF Base
  <1>7. Base' = Base
    BY <1>1, <1>2, <1>6, SMT
  <1> QED
    BY <1>1, <1>5, <1>7, StayBase

LEMMA ReadLengthArrives ==
    ASSUME TypesInv, TypesInv', ReadInv, NEW S \in Seq(Nat), NEW Z \in SUBSET Nat, NEW c \in Nat,
           Arrives(S, Z, c), ReadLength
    PROVE  Reads(S, Z, c)'
  <1>1. /\ rst = "length" /\ pos < Len(line) /\ pos' = pos + 1 /\ line' = line
        /\ written' = written /\ got' = got /\ Base + 2 + Len(part) = pos /\ Reads(S, Z, c)
        /\ Len(<<>>) = 0 /\ pos \in Nat /\ Len(line) \in Nat /\ Base \in Nat
    BY BaseFacts, EmptySeq, Numbers DEF ReadLength, ReadByte, writeVars, Arrives
  <1>2. CASE part = <<>>
    <2>1. rst' = "length" /\ Len(part') = 1 /\ Len(part) = 0
      BY <1>1, <1>2 DEF ReadLength
    <2>2. Base' = pos' - 2 - Len(part')
      BY <2>1 DEF Base
    <2>3. Base' = Base
      BY <1>1, <2>1, <2>2, SMT
    <2> QED
      BY <1>1, <2>1, <2>3, StayBase
  <1> DEFINE length == part[1] * 256 + Next1
  <1>3. ASSUME part # <<>> PROVE Base + 3 = pos
    <2>1. Len(part) = 1
      BY <1>1, <1>3, Numbers
    <2> QED
      BY <1>1, <2>1, SMT
  <1>4. CASE part # <<>> /\ ~Invalid(length)
    <2>1. rst' = "payload" /\ Len(part') = 0
      BY <1>1, <1>4 DEF ReadLength
    <2>2. Base' = pos' - 4 - Len(part')
      BY <2>1 DEF Base
    <2>3. Base' = Base
      BY <1>1, <1>3, <1>4, <2>1, <2>2, SMT
    <2> QED
      BY <1>1, <2>1, <2>3, StayBase
  <1>5. CASE part # <<>> /\ Invalid(length)
    <2>1. rst' = "magic0"
      BY <1>5 DEF ReadLength
    <2>2. Base' = pos + 1
      BY <1>1, <2>1 DEF Base
    <2>3. Base' = Base + 4 /\ Base + 4 <= Len(line) /\ Base < Len(line) /\ pos + 1 = Base + 4
      BY <1>1, <1>3, <1>5, <2>2, SMT
    <2>4. line[Base + 1] = Magic0 /\ line[Base + 2] = Magic1 /\ line[Base + 3] = part[1]
          /\ Next1 = line[Base + 4]
      BY <1>1, <1>5, <2>3 DEF ReadInv, ReaderOK, Next1
    <2>5. length = line[Base + 3] * 256 + line[Base + 4]
      BY <2>4
    <2> HIDE DEF length
    <2>6. Base \in Z
      <3>0. rst # "ended"
        BY <1>1
      <3>1. \/ Base \in Z
            \/ Base = c /\ c < Len(line)
            \/ Len(got) + 1 \in 1..Len(S) /\ Base = S[Len(got) + 1]
        BY <3>0, <2>3, <2>4, AtItem
      <3>2. ASSUME NEW p \in Seq(Byte), length = Len(p), Len(p) > 0, Len(p) <= MaxSize PROVE FALSE
        <4>1. Len(p) \in Nat /\ MaxSize \in Nat
          BY Bytes, FrameAssumptions
        <4> QED
          BY <4>1, <3>2, <1>5, SMT DEF Invalid
      <3>3. CASE Base = c /\ c < Len(line)
        <4>1. PICK p \in Seq(Byte) : Started(c, p)
          BY <1>1, <3>3, SMT DEF Arrives, CutShort
        <4>2. length = Len(p)
          BY <2>3, <2>5, <3>3, <4>1, HeaderTells
        <4> QED
          BY <4>1, <4>2, <3>2 DEF Started
      <3>4. CASE Len(got) + 1 \in 1..Len(S) /\ Base = S[Len(got) + 1]
        <4> DEFINE p == written[Len(got) + 1]
        <4>1. Stands(Base, p) /\ p \in Seq(Byte) /\ Len(p) > 0 /\ Len(p) <= MaxSize
          BY <3>4, LayoutNumbers DEF Arrives, Layout, FramesStand
        <4> HIDE DEF p
        <4>2. length = Len(p)
          BY <2>5, <4>1 DEF Stands
        <4> QED
          BY <4>1, <4>2, <3>2
      <3> QED
        BY <3>1, <3>3, <3>4
    <2>7. Base + 4 <= c /\ line[Base + 2] = Magic1 /\ line[Base + 3] = 0 /\ line[Base + 4] = 0
      BY <2>6 DEF Arrives, Layout, ZerosStand
    <2>8. \A k \in 1..Len(got) : EndOf(S, k) <= Base + 4
      <3>1. \A k \in 1..Len(got) : EndOf(S, k) <= Base /\ k \in 1..Len(S)
        BY <1>1, ReturnedEnds
      <3>2. \A k \in 1..Len(S) : EndOf(S, k) \in Nat
        BY LayoutNumbers DEF Arrives
      <3>3. \A e \in Nat : e <= Base => e <= Base + 4
        BY <1>1, SMT
      <3> QED
        BY <3>1, <3>2, <3>3
    <2>9. ASSUME NEW k \in 1..Len(S), Len(got) < k PROVE Base + 4 <= S[k]
      <3>1. Base <= S[k] /\ S[k] \in Nat /\ Len(written[k]) \in Nat
            /\ EndOf(S, k) = S[k] + 4 + Len(written[k])
        BY <1>1, <2>9, LayoutNumbers DEF Reads, Arrives
      <3>2. Base + 4 <= S[k] \/ EndOf(S, k) <= Base
        BY <2>6 DEF Arrives, Layout, ZerosApart
      <3>3. Base \in Nat
        BY <1>1
      <3> QED
        BY <3>1, <3>2, <3>3, SMT
    <2>10. ASSUME NEW z \in Z PROVE z + 4 <= Base + 4 \/ Base + 4 <= z
      <3>1. z \in Nat /\ line[z + 1] = Magic0 /\ (z + 4 <= Base \/ Base <= z)
        BY <1>1 DEF Arrives, Reads, Layout, ZerosStand
      <3>2. z # Base + 1
        BY <3>1, <2>7, ByteNumbers, <1>1
      <3>3. z # Base + 2
        BY <3>1, <2>7, ByteNumbers, <1>1
      <3>4. z # Base + 3
        BY <3>1, <2>7, ByteNumbers, <1>1
      <3> QED
        BY <1>1, <3>1, <3>2, <3>3, <3>4, SMT
    <2> QED
      BY <1>1, <2>1, <2>3, <2>7, <2>8, <2>9, <2>10, MoveBase
  <1> QED
    BY <1>2, <1>4, <1>5

LEMMA ReadPayloadArrives ==
    ASSUME TypesInv, TypesInv', ReadInv, NEW S \in Seq(Nat), NEW Z \in SUBSET Nat, NEW c \in Nat,
           Arrives(S, Z, c), ReadPayload
    PROVE  Reads(S, Z, c)'
  <1> DEFINE p == Append(part, Next1)
  <1>1. /\ rst = "payload" /\ pos < Len(line) /\ pos' = pos + 1 /\ line' = line
        /\ written' = written /\ Base + 4 + Len(part) = pos /\ Reads(S, Z, c)
        /\ pos \in Nat /\ Len(line) \in Nat /\ Base \in Nat /\ Len(part) \in Nat
        /\ Len(part) < need /\ need \in Nat /\ Next1 = line[pos + 1]
    BY BaseFacts, Numbers DEF ReadPayload, ReadByte, writeVars, Arrives, Next1
  <1>2. /\ p \in Seq(Byte) /\ Len(p) = Len(part) + 1
        /\ \A i \in 1..Len(part) : p[i] = part[i]
        /\ p[Len(part) + 1] = Next1
    <2>1. Next1 \in Byte /\ part \in Seq(Byte)
      BY <1>1, Bytes DEF Next1, TypesInv, FrameTypeOK
    <2> QED
      BY <2>1, AppendProperties
  <1> HIDE DEF p
  <1>x. Base \in Nat /\ Len(part) \in Nat /\ Len(line) \in Nat /\ pos \in Nat /\ pos < Len(line)
        /\ Base + 4 + Len(part) = pos /\ pos' = pos + 1 /\ Len(p) = Len(part) + 1
    BY <1>1, <1>2
  <1>3. CASE ~Full(p)
    <2>1. rst' = "payload" /\ part' = p /\ got' = got
      BY <1>1, <1>3 DEF ReadPayload, p
    <2>2. Base' = pos' - 4 - Len(part')
      BY <2>1 DEF Base
    <2>3. Base' = Base
      <3>1. Base' = pos' - 4 - Len(p)
        BY <2>1, <2>2
      <3> QED
        BY <1>x, <3>1, SMT
    <2> QED
      BY <1>1, <2>1, <2>3, StayBase
  <1>4. CASE Full(p)
    <2> DEFINE f == [payload |-> p, end |-> pos + 1]
               m == Len(got) + 1
    <2>1. rst' = "magic0" /\ got' = Append(got, f) /\ Len(p) = need
      BY <1>4 DEF ReadPayload, p, Full
    <2>2. Base' = pos' /\ f.payload = p /\ f \in [payload : Seq(Byte), end : Nat]
      BY <1>1, <1>2, <2>1 DEF Base
    <2> HIDE DEF f
    <2>3. /\ Len(got') = m /\ \A i \in 1..Len(got) : got'[i] = got[i]
          /\ got'[m] = f
      BY <2>1, <2>2, AppendProperties DEF TypesInv, ReaderHolds
    <2>4. /\ line[Base + 1] = Magic0 /\ line[Base + 3] * 256 + line[Base + 4] = need
          /\ \A i \in 1..Len(part) : line[Base + 4 + i] = part[i]
      BY <1>1 DEF ReadInv, ReaderOK
    <2>5. Base < Len(line) /\ Base + 4 + Len(p) = pos + 1 /\ Base + 4 + Len(p) <= Len(line)
      BY <1>x, SMT
    <2>6. Base \notin Z
      <3> SUFFICES ASSUME Base \in Z PROVE FALSE
        OBVIOUS
      <3>1. line[Base + 3] = 0 /\ line[Base + 4] = 0
        BY DEF Arrives, Layout, ZerosStand
      <3> QED
        BY <3>1, <2>4, <1>1, SMT
    <2>7. ~(Base = c /\ c < Len(line))
      <3> SUFFICES ASSUME Base = c, c < Len(line) PROVE FALSE
        OBVIOUS
      <3>1. PICK r \in Seq(Byte) : Started(c, r)
        BY <1>1, SMT DEF Arrives, CutShort
      <3>2. c + 4 <= Len(line)
        BY <1>1, SMT
      <3>3. need = Len(r)
        BY <3>1, <3>2, <2>4, HeaderTells
      <3>4. Len(line) < c + 4 + Len(r)
        BY <3>1 DEF Started
      <3> QED
        BY <3>3, <3>4, <2>1, <2>5, <1>1, SMT
    <2>8. m \in 1..Len(S) /\ Base = S[m]
      BY <1>1, <2>4, <2>5, <2>6, <2>7, AtItem
    <2>9. Len(got) \in Nat /\ Len(S) \in Nat /\ Len(got) < m /\ Len(S) = Len(written)
          /\ m \in Nat
      <3>1. Len(got) \in Nat /\ Len(S) \in Nat /\ Len(S) = Len(written)
        BY Numbers, LayoutNumbers DEF Arrives
      <3> QED
        BY <3>1, SMT
    <2>10. \A k \in 1..m : k \in 1..Len(got) \/ k = m
      BY <2>9, SMT
    <2>11. \A k \in Nat : m < k => Len(got) < k
      BY <2>9, SMT
    <2> HIDE DEF m
    <2>12. /\ written[m] \in Seq(Byte) /\ EndOf(S, m) = Base + 4 + Len(written[m])
           /\ EndOf(S, m) <= c /\ Stands(Base, written[m])
      BY <2>8, LayoutNumbers DEF Arrives, Layout, FramesStand
    <2>13. Len(written[m]) = Len(p)
      BY <2>1, <2>4, <2>12 DEF Stands
    <2>14. p = written[m]
      <3>1. \A i \in 1..Len(p) : i \in 1..Len(part) \/ i = Len(part) + 1
        BY <1>1, <1>2, SMT
      <3>2. pos + 1 = Base + 4 + (Len(part) + 1)
        BY <1>1, SMT
      <3>3. \A i \in 1..Len(p) : line[Base + 4 + i] = p[i]
        BY <3>1, <3>2, <2>4, <1>1, <1>2
      <3>4. \A i \in 1..Len(p) : line[Base + 4 + i] = written[m][i]
        BY <2>12, <2>13 DEF Stands
      <3> QED
        <4>1. \A i \in 1..Len(p) : p[i] = written[m][i]
          BY <3>3, <3>4
        <4>2. p \in Seq(Byte) /\ written[m] \in Seq(Byte) /\ Len(p) = Len(written[m])
          BY <1>2, <2>12, <2>13
        <4> QED
          BY <4>1, <4>2, SeqEqual
    <2>15. Base' = EndOf(S, m)
      BY <1>1, <2>2, <2>5, <2>12, <2>13
    <2>16. \A k \in 1..m : got'[k].payload = written[k]
      BY <2>2, <2>3, <2>10, <2>14, <1>1 DEF Reads
    <2>17. \A k \in 1..m : EndOf(S, k) <= EndOf(S, m)
      <3> SUFFICES ASSUME NEW k \in 1..m PROVE EndOf(S, k) <= EndOf(S, m)
        OBVIOUS
      <3>1. CASE k \in 1..Len(got)
        <4>1. EndOf(S, k) <= Base /\ EndOf(S, k) \in Nat
          BY <1>1, <3>1, ReturnedEnds
        <4>2. Len(written[m]) \in Nat /\ EndOf(S, m) = Base + 4 + Len(written[m])
          BY <2>12, Bytes
        <4>3. \A e, b, l \in Nat : e <= b => e <= b + 4 + l
          BY SMT
        <4> QED
          BY <4>1, <4>2, <4>3, <1>x
      <3>2. CASE k = m
        <4>1. EndOf(S, m) \in Nat
          BY <2>8, LayoutNumbers DEF Arrives
        <4> QED
          BY <3>2, <4>1, SMT
      <3> QED
        BY <3>1, <3>2, <2>10
    <2>18. \A k \in 1..Len(S) : m < k => EndOf(S, m) <= S[k]
      BY <2>8 DEF Arrives, Layout, FramesApart
    <2>19. \A z \in Z : z + 4 <= EndOf(S, m) \/ EndOf(S, m) <= z
      <3> SUFFICES ASSUME NEW z \in Z PROVE z + 4 <= EndOf(S, m) \/ EndOf(S, m) <= z
        OBVIOUS
      <3>1. z + 4 <= S[m] \/ EndOf(S, m) <= z
        BY <2>8 DEF Arrives, Layout, ZerosApart
      <3>2. z \in Nat /\ Len(written[m]) \in Nat /\ EndOf(S, m) = Base + 4 + Len(written[m])
            /\ Base = S[m]
        BY <2>8, <2>12, Bytes
      <3>3. \A b, l \in Nat : z + 4 <= b => z + 4 <= b + 4 + l
        BY <3>2, SMT
      <3> QED
        BY <3>1, <3>2, <3>3, <1>x
    <2>20. Len(got') <= Len(written')
      BY <1>1, <2>3, <2>8, <2>9, SMT
    <2>21. /\ \A k : EndOf(S, k)' = EndOf(S, k)
           /\ rst' # "ended" /\ Base' <= c
      BY <1>1, <2>1, <2>12, <2>15 DEF EndOf
    <2>22. \A k \in 1..Len(got') : got'[k].payload = written'[k]
      BY <1>1, <2>3, <2>16
    <2>23. \A k \in 1..Len(got') : EndOf(S, k)' <= Base'
      BY <2>3, <2>15, <2>17, <2>21
    <2>24. \A k \in 1..Len(S) : Len(got') < k => Base' <= S[k]
      BY <2>3, <2>15, <2>18
    <2>25. \A z \in Z : z + 4 <= Base' \/ Base' <= z
      BY <2>15, <2>19
    <2> QED
      BY <2>20, <2>21, <2>22, <2>23, <2>24, <2>25 DEF Reads
  <1> QED
    BY <1>3, <1>4

LEMMA ReadEndsArrives ==
    ASSUME TypesInv, ReadInv, NEW S \in Seq(Nat), NEW Z \in SUBSET Nat, NEW c \in Nat,
           Arrives(S, Z, c), ReadEnds
    PROVE  Reads(S, Z, c)'
  <1>1. Len(got) = Len(written)
    BY AllRead DEF ReadEnds
  <1>2. rst' = "ended" /\ broken' /\ got' = got /\ written' = written
    BY DEF ReadEnds, writeVars
  <1> QED
    BY <1>1, <1>2 DEF Arrives, Reads

LEMMA ReadArrives ==
    ASSUME TypesInv, TypesInv', ReadInv, NEW S \in Seq(Nat), NEW Z \in SUBSET Nat, NEW c \in Nat,
           Arrives(S, Z, c), Read
    PROVE  Arrives(S, Z, c)'
  <1>1. Reads(S, Z, c)'
    BY ReadMagic0Arrives, ReadMagic1Arrives, ReadLengthArrives, ReadPayloadArrives,
       ReadEndsArrives DEF Read
  <1>2. UNCHANGED <<line, broken, writeVars>>
    BY DEF Read, ReadMagic0, ReadMagic1, ReadLength, ReadPayload, ReadEnds, ReadByte, writeVars
  <1> QED
    BY <1>1, <1>2, ReaderOnly DEF Arrives

-----------------------------------------------------------------------------
(* The writers' steps *)

\* What stood before c stands there when the line grows.
LEMMA GrowLayout ==
    ASSUME TypesInv, Grows, written' = written,
           NEW S \in Seq(Nat), NEW Z \in SUBSET Nat, NEW c \in Nat, Layout(S, Z, c)
    PROVE  Layout(S, Z, c)'
  <1>1. Len(line) \in Nat /\ Len(line') \in Nat /\ Len(line) <= Len(line') /\ c <= Len(line)
    BY Numbers DEF Grows, Layout
  <1>2. \A i \in 1..c : line'[i] = line[i]
    BY <1>1, SMT DEF Grows
  <1>3. \A k : EndOf(S, k)' = EndOf(S, k)
    BY DEF EndOf
  <1>4. FramesStand(S, c)'
    <2> SUFFICES ASSUME NEW k \in 1..Len(S)
                 PROVE  /\ Len(written'[k]) > 0 /\ Len(written'[k]) <= MaxSize
                        /\ Stands(S[k], written[k])' /\ EndOf(S, k)' <= c
      BY DEF FramesStand
    <2>1. PICK p : p = written[k]
      OBVIOUS
    <2>2. S[k] \in Nat /\ Len(p) \in Nat /\ Stands(S[k], p)
      BY <2>1, LayoutNumbers DEF Layout, FramesStand
    <2>3. Stands(S[k], p)'
      BY <1>1, <2>2, StandsGrows
    <2>4. Stands(S[k], written[k])'
      BY <2>1, <2>3 DEF Stands
    <2> QED
      BY <1>3, <2>4 DEF Layout, FramesStand
  <1>5. FramesApart(S)'
    BY <1>3 DEF Layout, FramesApart
  <1>6. ZerosStand(Z, c)'
    <2> SUFFICES ASSUME NEW z \in Z
                 PROVE  /\ z + 4 <= c /\ line'[z + 1] = Magic0 /\ line'[z + 2] = Magic1
                        /\ line'[z + 3] = 0 /\ line'[z + 4] = 0
      BY DEF ZerosStand
    <2>1. z \in Nat /\ z + 4 <= c
      BY DEF Layout, ZerosStand
    <2>2. z + 1 \in 1..c /\ z + 2 \in 1..c /\ z + 3 \in 1..c /\ z + 4 \in 1..c
      BY <2>1, SMT
    <2> QED
      BY <1>2, <2>1, <2>2 DEF Layout, ZerosStand
  <1>7. ZerosApart(S, Z)'
    BY <1>3 DEF Layout, ZerosApart
  <1>8. NoOtherMagic(S, Z, c)'
    <2>1. \A q \in Nat : q < c => q + 1 \in 1..c
      BY SMT
    <2> QED
      BY <1>2, <1>3, <2>1 DEF Layout, NoOtherMagic
  <1>9. Len(S) = Len(written') /\ c <= Len(line')
    BY <1>1, SMT DEF Layout
  <1> QED
    BY <1>4, <1>5, <1>6, <1>7, <1>8, <1>9 DEF Layout

\* The reader is where it was.
LEMMA ReadsKept ==
    ASSUME UNCHANGED readVars, written' = written, broken => broken',
           NEW S, NEW Z, NEW c, Reads(S, Z, c)
    PROVE  Reads(S, Z, c)'
  <1>1. rst' = rst /\ got' = got /\ Base' = Base /\ \A k : EndOf(S, k)' = EndOf(S, k)
    BY DEF readVars, Base, EndOf
  <1> QED
    BY <1>1 DEF Reads

LEMMA LineKept ==
    ASSUME line' = line, written' = written, UNCHANGED readVars, broken => broken',
           NEW S, NEW Z, NEW c, Arrives(S, Z, c), WriterOK(c)'
    PROVE  Arrives(S, Z, c)'
  <1>1. CutShort(c)'
    BY DEF Arrives, CutShort, Started
  <1> QED
    BY <1>1, SameLayout, ReadsKept DEF Arrives

\* What a writer has written is the same when its buffer and its payload are.
LEMMA SameWriter ==
    ASSUME line' = line, NEW u, payload'[u] = payload[u], buf'[u] = buf[u], NEW c
    PROVE  /\ InHeader(u, c) => InHeader(u, c)'
           /\ InPayload(u, c) => InPayload(u, c)'
  <1>1. ASSUME InHeader(u, c) PROVE InHeader(u, c)'
    BY <1>1 DEF InHeader, Started
  <1>2. ASSUME InPayload(u, c) PROVE InPayload(u, c)'
    BY <1>2 DEF InPayload, Started
  <1> QED
    BY <1>1, <1>2

LEMMA StartWriteArrives ==
    ASSUME TypesInv, NEW w \in Writers, NEW x \in Payloads, StartWrite(w, x),
           NEW S, NEW Z, NEW c, Arrives(S, Z, c)
    PROVE  Arrives(S, Z, c)'
  <1>1. /\ line' = line /\ written' = written /\ UNCHANGED readVars /\ broken' = broken
        /\ serialMu' = serialMu /\ buf' = buf
    BY DEF StartWrite
  <1>2. WriterOK(c)'
    <2>1. ASSUME NEW u \in Writers, wpc'[u] \in {"header", "payload"}
          PROVE  wpc'[u] = wpc[u] /\ payload'[u] = payload[u] /\ buf'[u] = buf[u]
      BY <2>1, <1>1 DEF StartWrite, TypesInv, FrameTypeOK, WritersOK
    <2> QED
      BY <1>1, <2>1, SameWriter DEF WriterOK, Arrives
  <1> QED
    BY <1>1, <1>2, LineKept

LEMMA LockArrives ==
    ASSUME TypesInv, NEW w \in Writers, Lock(w), NEW S, NEW Z, NEW c \in Nat, Arrives(S, Z, c)
    PROVE  Arrives(S, Z, c)'
  <1>1. /\ line' = line /\ written' = written /\ UNCHANGED readVars /\ broken' = broken
        /\ serialMu = Nil /\ payload' = payload
    BY DEF Lock, LockFree
  <1>2. \A u \in Writers : wpc[u] \notin {"header", "payload"}
    BY <1>1, FrameAssumptions DEF TypesInv, FrameTypeOK, Writing
  <1>3. ASSUME ~broken PROVE c = Len(line)
    BY <1>1, <1>3 DEF Arrives, WriterOK
  <1>4. CASE Len(payload[w]) > MaxSize
    <2>1. wpc' = [wpc EXCEPT ![w] = "idle"]
      <3>1. Len(payload[w]) \in Nat /\ MaxSize \in Nat
        BY Bytes, FrameAssumptions DEF TypesInv, WritersOK
      <3>2. ~(Len(payload[w]) <= MaxSize)
        BY <1>4, <3>1, SMT
      <3> QED
        BY <3>2 DEF Lock
    <2>2. \A u \in Writers : wpc'[u] \notin {"header", "payload"}
      BY <1>2, <2>1 DEF TypesInv, FrameTypeOK
    <2>3. WriterOK(c)'
      BY <1>1, <1>3, <2>2 DEF WriterOK
    <2> QED
      BY <1>1, <2>3, LineKept
  <1>5. CASE ~(Len(payload[w]) > MaxSize)
    <2>1. /\ Len(payload[w]) <= MaxSize /\ serialMu' = w
          /\ buf' = [buf EXCEPT ![w] = Header(Len(payload[w]))]
          /\ wpc' = [wpc EXCEPT ![w] = "header"]
      BY <1>5 DEF Lock
    <2>2. serialMu' # Nil /\ buf'[w] = Header(Len(payload[w]))
      BY <2>1, FrameAssumptions DEF TypesInv, WritersOK
    <2>3. \A u \in Writers : wpc'[u] \in {"header", "payload"} => u = w /\ wpc'[u] = "header"
      BY <1>2, <2>1 DEF TypesInv, FrameTypeOK
    <2>4. PICK p : p = payload[w]
      OBVIOUS
    <2>5. p \in Seq(Byte) /\ Len(p) \in Nat /\ Len(p) > 0 /\ Len(line) \in Nat
      BY <2>4, Bytes, Numbers DEF TypesInv, WritersOK, Lock
    <2>6. /\ Len(Header(Len(p))) = 4
      <3>1. Len(p) <= MaxSize /\ MaxSize \in Nat /\ MaxSize < 256 * 256
        BY <2>1, <2>4, FrameAssumptions
      <3>2. Len(p) < 256 * 256
        BY <2>5, <3>1, SMT
      <3> QED
        BY <2>5, <3>2, HeaderBytes
    <2>7. ASSUME ~broken PROVE InHeader(w, c)'
      <3>1. c = Len(line)
        BY <1>3, <2>7
      <3>2. Started(c, p)
        <4>1. Len(line) < c + 4 + Len(p)
              /\ (\A j \in 1..4 : ~(c + j <= Len(line)))
              /\ (\A i \in 1..Len(p) : ~(c + 4 + i <= Len(line)))
          BY <2>5, <3>1, SMT
        <4> QED
          BY <2>1, <2>4, <2>5, <4>1 DEF Started
      <3>3. Started(c, payload[w])'
        BY <1>1, <2>4, <3>2 DEF Started
      <3>4. /\ Len(buf'[w]) = 4 /\ c + 4 = Len(line') + Len(buf'[w])
            /\ \A i \in 1..4 : 4 - 4 + i = i
        BY <1>1, <2>2, <2>4, <2>6, <3>1
      <3> QED
        BY <1>1, <2>2, <2>4, <3>3, <3>4 DEF InHeader
    <2>8. WriterOK(c)'
      <3>1. ASSUME NEW u \in Writers
            PROVE  wpc'[u] # "payload" /\ (wpc'[u] = "header" => u = w)
        BY <2>3
      <3> QED
        BY <1>1, <2>2, <2>7, <3>1 DEF WriterOK
    <2> QED
      BY <1>1, <2>8, LineKept
  <1> QED
    BY <1>4, <1>5

LEMMA WriteNextArrives ==
    ASSUME TypesInv, NEW w \in Writers, WriteNext(w), NEW S, NEW Z, NEW c \in Nat, Arrives(S, Z, c)
    PROVE  Arrives(S, Z, c)'
  <1>1. /\ line' = line /\ written' = written /\ UNCHANGED readVars /\ broken' = broken
        /\ payload' = payload /\ buf[w] = <<>> /\ wpc[w] \in {"header", "payload"}
    BY DEF WriteNext
  <1>2. serialMu = w /\ \A u \in Writers : u # w => wpc[u] \notin {"header", "payload"}
    BY <1>1 DEF TypesInv, FrameTypeOK, Writing
  <1>3. CASE wpc[w] = "header"
    <2>1. /\ buf' = [buf EXCEPT ![w] = payload[w]] /\ wpc' = [wpc EXCEPT ![w] = "payload"]
          /\ serialMu' = w
      BY <1>2, <1>3 DEF WriteNext
    <2>2. buf'[w] = payload[w] /\ serialMu' # Nil /\ payload[w] # <<>>
      BY <1>3, <2>1, FrameAssumptions DEF TypesInv, WritersOK
    <2>3. \A u \in Writers : wpc'[u] \in {"header", "payload"} => u = w /\ wpc'[u] = "payload"
      BY <1>2, <2>1 DEF TypesInv, FrameTypeOK
    <2>4. ASSUME ~broken PROVE InPayload(w, c)'
      <3>1. InHeader(w, c)
        BY <1>3, <2>4 DEF Arrives, WriterOK
      <3>2. PICK p : p = payload[w]
        OBVIOUS
      <3>3. Len(p) \in Nat /\ Len(line) \in Nat /\ Len(buf[w]) = 0
        BY <1>1, <3>2, Bytes, Numbers, EmptySeq DEF TypesInv, WritersOK
      <3>4. c + 4 = Len(line) /\ Started(c, payload[w])
        BY <3>1, <3>3 DEF InHeader
      <3>5. Started(c, payload[w])'
        BY <1>1, <3>4 DEF Started
      <3>6. /\ Len(p) <= Len(p) /\ c + 4 + Len(p) = Len(line) + Len(p)
            /\ \A i \in 1..Len(p) : Len(p) - Len(p) + i = i
        BY <3>3, <3>4, SMT
      <3> QED
        BY <1>1, <2>2, <3>2, <3>5, <3>6 DEF InPayload
    <2>5. WriterOK(c)'
      <3>1. ASSUME NEW u \in Writers
            PROVE  wpc'[u] # "header" /\ (wpc'[u] = "payload" => u = w)
        BY <2>3
      <3> QED
        BY <1>1, <2>2, <2>4, <3>1 DEF WriterOK
    <2> QED
      BY <1>1, <2>5, LineKept
  <1>4. CASE wpc[w] = "payload"
    <2>1. wpc' = [wpc EXCEPT ![w] = "idle"]
      BY <1>4 DEF WriteNext
    <2>2. \A u \in Writers : wpc'[u] \notin {"header", "payload"}
      BY <1>2, <2>1 DEF TypesInv, FrameTypeOK
    <2>3. ASSUME ~broken PROVE c = Len(line)
      BY <1>1, <1>4, <2>3 DEF Arrives, WriterOK
    <2>4. WriterOK(c)'
      BY <1>1, <2>2, <2>3 DEF WriterOK
    <2> QED
      BY <1>1, <2>4, LineKept
  <1> QED
    BY <1>1, <1>3, <1>4

\* A line that is broken takes no more bytes: nothing is said of who still writes.
LEMMA BrokenArrives ==
    ASSUME broken', line' = line, written' = written, UNCHANGED readVars,
           NEW S, NEW Z, NEW c, Arrives(S, Z, c)
    PROVE  Arrives(S, Z, c)'
  <1>1. WriterOK(c)'
    BY DEF WriterOK
  <1> QED
    BY <1>1, LineKept

\* Harmless noise adds at most one header of length 0, and no other Magic0.
LEMMA NoiseArrivesToo ==
    ASSUME TypesInv, ReadInv, NEW b \in Noise, NoiseArrives(b), Harmless(b), Grows,
           NEW S \in Seq(Nat), NEW Z \in SUBSET Nat, NEW c \in Nat, Arrives(S, Z, c)
    PROVE  \E Z2 \in SUBSET Nat, d \in Nat : Arrives(S, Z2, d)'
  <1>1. /\ ~broken /\ serialMu = Nil /\ line' = line \o b /\ broken' = broken
        /\ written' = written /\ UNCHANGED readVars /\ wpc' = wpc /\ serialMu' = serialMu
    BY DEF NoiseArrives, writeVars
  <1>2. c = Len(line) /\ c \in Nat /\ b \in Seq(Byte) /\ Len(b) \in Nat /\ line \in Seq(Byte)
    BY <1>1, FrameAssumptions, Bytes DEF Arrives, WriterOK, TypesInv, FrameTypeOK
  <1>3. Len(line') = c + Len(b) /\ \A i \in 1..Len(b) : line'[c + i] = b[i]
    BY <1>1, <1>2, Appended
  <1>4. Layout(S, Z, c)'
    BY <1>1, GrowLayout DEF Arrives
  <1> DEFINE Z2 == IF b = Header(0) THEN Z \cup {c} ELSE Z
  <1>5. PICK d \in Nat : d = Len(line')
    BY <1>2, <1>3
  <1>6. c <= d /\ d = c + Len(b)
    BY <1>2, <1>3, <1>5, SMT
  <1>7. Z2 \in SUBSET Nat
    OBVIOUS
  <1>8. b = Header(0) => /\ Len(b) = 4 /\ b[1] = Magic0 /\ b[2] = Magic1 /\ b[3] = 0 /\ b[4] = 0
    <2>1. 0 \div 256 = 0 /\ 0 % 256 = 0
      BY SMT
    <2>2. 0 < 256 * 256
      BY SMT
    <2> QED
      BY <2>1, <2>2, HeaderBytes
  <1>9. \A k \in 1..Len(S) : EndOf(S, k) <= c /\ EndOf(S, k) \in Nat /\ EndOf(S, k)' = EndOf(S, k)
    BY <1>1, LayoutNumbers DEF Arrives, EndOf
  <1>10. FramesStand(S, d)'
    <2>1. \A e \in Nat : e <= c => e <= d
      BY <1>6, SMT
    <2> QED
      BY <1>4, <1>9, <2>1 DEF Layout, FramesStand
  <1>11. ZerosStand(Z2, d)'
    <2> SUFFICES ASSUME NEW z \in Z2
                 PROVE  /\ z + 4 <= d /\ line'[z + 1] = Magic0 /\ line'[z + 2] = Magic1
                        /\ line'[z + 3] = 0 /\ line'[z + 4] = 0
      BY DEF ZerosStand
    <2>1. CASE z \in Z
      <3>1. /\ z + 4 <= c /\ line'[z + 1] = Magic0 /\ line'[z + 2] = Magic1
            /\ line'[z + 3] = 0 /\ line'[z + 4] = 0
        BY <1>4, <2>1 DEF Layout, ZerosStand
      <3>2. z + 4 <= d
        BY <1>6, <2>1, <3>1, SMT
      <3> QED
        BY <3>1, <3>2
    <2>2. CASE b = Header(0) /\ z = c
      <3>1. 1 \in 1..4 /\ 2 \in 1..4 /\ 3 \in 1..4 /\ 4 \in 1..4
        BY SMT
      <3>2. Len(b) = 4 /\ line'[c + 1] = b[1] /\ line'[c + 2] = b[2] /\ line'[c + 3] = b[3]
            /\ line'[c + 4] = b[4]
        BY <1>3, <1>8, <2>2, <3>1
      <3> QED
        BY <1>6, <1>8, <2>2, <3>2, SMTT(30)
    <2> QED
      BY <2>1, <2>2
  <1>12. ZerosApart(S, Z2)'
    BY <1>4, <1>9 DEF Layout, ZerosApart
  <1>13. NoOtherMagic(S, Z2, d)'
    <2> SUFFICES ASSUME NEW q \in Nat, q < d, line'[q + 1] = Magic0
                 PROVE  q \in Z2 \/ \E k \in 1..Len(S) : S[k] <= q /\ q < EndOf(S, k)'
      BY DEF NoOtherMagic
    <2>1. CASE q < c
      BY <1>4, <2>1 DEF Layout, NoOtherMagic
    <2>2. CASE ~(q < c)
      <3>1. PICK i \in 1..Len(b) : q + 1 = c + i
        <4>1. q + 1 - c \in 1..Len(b) /\ q + 1 = c + (q + 1 - c)
          BY <1>2, <1>6, <2>2, SMT
        <4> QED
          BY <4>1
      <3>2. b[i] = Magic0
        BY <1>3, <3>1
      <3>3. b = Header(0)
        BY <3>2 DEF Harmless
      <3>4. i = 1
        <4>1. i \in {1, 2, 3, 4}
          <5>1. i \in 1..4
            BY <1>8, <3>3
          <5> QED
            BY <5>1, SMT
        <4>2. Magic0 # Magic1 /\ Magic0 # 0
          BY ByteNumbers
        <4> QED
          BY <1>8, <3>2, <3>3, <4>1, <4>2
      <3>5. q = c
        BY <1>2, <3>1, <3>4, SMT
      <3> QED
        BY <3>3, <3>5
    <2> QED
      BY <2>1, <2>2
  <1>14. Layout(S, Z2, d)'
    <2>1. Len(S) = Len(written') /\ FramesApart(S)' /\ d <= Len(line')
      BY <1>4, <1>5 DEF Layout
    <2> HIDE DEF Z2
    <2> QED
      BY <2>1, <1>10, <1>11, <1>12, <1>13 DEF Layout
  <1>15. Reads(S, Z2, d)'
    <2>1. Reads(S, Z, c)' /\ rst' # "ended"
      BY <1>1, ReadsKept DEF Arrives, Reads, readVars
    <2>2. Base' <= c /\ Base' = Base /\ Base \in Nat
      <3>1. Base' <= c
        BY <2>1 DEF Reads
      <3>2. Base' = Base
        BY <1>1 DEF readVars, Base
      <3>3. Base \in Nat
        BY BaseFacts
      <3> QED
        BY <3>1, <3>2, <3>3
    <2>3. Base' <= d
      BY <2>2, <1>6, SMT
    <2>4. \A z \in Z2 : z + 4 <= Base' \/ Base' <= z
      BY <2>1, <2>2 DEF Reads
    <2> HIDE DEF Z2
    <2> QED
      BY <2>1, <2>3, <2>4 DEF Reads
  <1>16. WriterOK(d)' /\ CutShort(d)'
    <2>1. \A u \in Writers : wpc[u] \notin {"header", "payload"}
      BY <1>1, FrameAssumptions DEF TypesInv, FrameTypeOK, Writing
    <2> QED
      BY <1>1, <1>5, <2>1 DEF WriterOK, CutShort
  <1>17. Arrives(S, Z2, d)'
    <2> HIDE DEF Z2
    <2> QED
      BY <1>14, <1>15, <1>16 DEF Arrives
  <1> QED
    BY <1>7, <1>17

\* The last byte of a frame: the frame that had begun at c is one of those that stand.
LEMMA FrameAdded ==
    ASSUME TypesInv, ReadInv, Grows, ~broken, UNCHANGED readVars, broken' = broken,
           NEW S \in Seq(Nat), NEW Z \in SUBSET Nat, NEW c \in Nat,
           Layout(S, Z, c), Reads(S, Z, c), NEW p \in Seq(Byte), Len(p) > 0, Len(p) <= MaxSize,
           written' = Append(written, p), Stands(c, p)',
           NEW d \in Nat, d = c + 4 + Len(p), Len(line') = d,
           NEW T \in Seq(Nat), T = Append(S, c)
    PROVE  Layout(T, Z, d)' /\ Reads(T, Z, d)'
  <1> DEFINE m == Len(S) + 1
  <1>1. /\ Len(S) \in Nat /\ Len(S) = Len(written) /\ Len(line) \in Nat /\ Len(p) \in Nat
        /\ c <= Len(line) /\ Len(line) <= Len(line')
    BY LayoutNumbers, Numbers, Bytes DEF Layout, Grows
  <1>2. /\ Len(T) = m /\ T[m] = c /\ \A k \in 1..Len(S) : T[k] = S[k]
    BY AppendProperties
  <1>3. /\ Len(written') = m /\ written'[m] = p
        /\ \A k \in 1..Len(S) : written'[k] = written[k]
    BY <1>1, AppendProperties DEF TypesInv, WritersOK
  <1>4. /\ \A k \in 1..m : k \in 1..Len(S) \/ k = m
        /\ m \in 1..m /\ (\A k \in 1..Len(S) : k < m /\ ~(m < k)) /\ ~(m < m) /\ m \in Nat
    BY <1>1, SMT
  <1> HIDE DEF m
  <1>5. /\ EndOf(T, m)' = d
        /\ \A k \in 1..Len(S) : /\ EndOf(T, k)' = EndOf(S, k) /\ EndOf(S, k) \in Nat
                                /\ EndOf(S, k) <= c /\ S[k] \in Nat
    BY <1>2, <1>3, LayoutNumbers DEF EndOf
  <1>6. c < d /\ \A e \in Nat : e <= c => e <= d
    BY <1>1, SMT
  <1>7. \A i \in 1..c : line'[i] = line[i]
    BY <1>1, SMT DEF Grows
  <1>8. FramesStand(T, d)'
    <2> SUFFICES ASSUME NEW k \in 1..m
                 PROVE  /\ Len(written'[k]) > 0 /\ Len(written'[k]) <= MaxSize
                        /\ Stands(T[k], written[k])' /\ EndOf(T, k)' <= d
      BY <1>2 DEF FramesStand
    <2>1. CASE k \in 1..Len(S)
      <3>1. PICK r : r = written[k]
        OBVIOUS
      <3>2. /\ S[k] \in Nat /\ Len(r) \in Nat /\ Stands(S[k], r) /\ Len(r) > 0
            /\ Len(r) <= MaxSize
        BY <2>1, <3>1, LayoutNumbers DEF Layout, FramesStand
      <3>3. Stands(S[k], r)'
        BY <1>1, <3>2, StandsGrows
      <3>4. Stands(T[k], written[k])'
        BY <2>1, <1>2, <1>3, <3>1, <3>3, ZenonT(30) DEF Stands
      <3> QED
        BY <2>1, <3>1, <3>2, <3>4, <1>3, <1>5, <1>6
    <2>2. CASE k = m
      <3>1. Stands(T[k], written[k])'
        BY <2>2, <1>2, <1>3 DEF Stands
      <3>2. d <= d
        BY SMT
      <3> QED
        BY <2>2, <3>1, <3>2, <1>3, <1>5
    <2> QED
      BY <2>1, <2>2, <1>4
  <1>9. FramesApart(T)'
    <2> SUFFICES ASSUME NEW j \in 1..m, NEW k \in 1..m, j < k
                 PROVE  EndOf(T, j)' <= T[k]
      BY <1>2 DEF FramesApart
    <2>1. j \in 1..Len(S)
      <3>1. CASE j = m
        BY <3>1, <1>4
      <3> QED
        BY <3>1, <1>4
    <2>2. CASE k = m
      BY <2>1, <2>2, <1>2, <1>5
    <2>3. CASE k \in 1..Len(S)
      BY <2>1, <2>3, <1>2, <1>5 DEF Layout, FramesApart
    <2> QED
      BY <2>2, <2>3, <1>4
  <1>10. ZerosStand(Z, d)'
    <2> SUFFICES ASSUME NEW z \in Z
                 PROVE  /\ z + 4 <= d /\ line'[z + 1] = Magic0 /\ line'[z + 2] = Magic1
                        /\ line'[z + 3] = 0 /\ line'[z + 4] = 0
      BY DEF ZerosStand
    <2>1. z \in Nat /\ z + 4 <= c
      BY DEF Layout, ZerosStand
    <2>2. z + 1 \in 1..c /\ z + 2 \in 1..c /\ z + 3 \in 1..c /\ z + 4 \in 1..c /\ z + 4 <= d
      BY <1>6, <2>1, SMT
    <2> QED
      BY <1>7, <2>2 DEF Layout, ZerosStand
  <1>11. ZerosApart(T, Z)'
    <2> SUFFICES ASSUME NEW z \in Z, NEW k \in 1..m
                 PROVE  z + 4 <= T[k] \/ EndOf(T, k)' <= z
      BY <1>2 DEF ZerosApart
    <2>1. CASE k = m
      BY <2>1, <1>2 DEF Layout, ZerosStand
    <2>2. CASE k \in 1..Len(S)
      BY <2>2, <1>2, <1>5 DEF Layout, ZerosApart
    <2> QED
      BY <2>1, <2>2, <1>4
  <1>12. NoOtherMagic(T, Z, d)'
    <2> SUFFICES ASSUME NEW q \in Nat, q < d, line'[q + 1] = Magic0
                 PROVE  q \in Z \/ \E k \in 1..m : T[k] <= q /\ q < EndOf(T, k)'
      BY <1>2 DEF NoOtherMagic
    <2>1. CASE q < c
      <3>1. q + 1 \in 1..c
        BY <2>1, SMT
      <3>2. q \in Z \/ \E k \in 1..Len(S) : S[k] <= q /\ q < EndOf(S, k)
        BY <2>1, <3>1, <1>7 DEF Layout, NoOtherMagic
      <3>3. \A k \in 1..Len(S) : k \in 1..m
        BY <1>1, SMT DEF m
      <3> QED
        BY <3>2, <3>3, <1>2, <1>5
    <2>2. CASE ~(q < c)
      <3>1. c <= q
        BY <2>2, SMT
      <3> QED
        BY <3>1, <1>2, <1>4, <1>5
    <2> QED
      BY <2>1, <2>2
  <1>13. Layout(T, Z, d)'
    <2>1. d <= Len(line')
      BY SMT
    <2> QED
      BY <2>1, <1>2, <1>3, <1>8, <1>9, <1>10, <1>11, <1>12 DEF Layout
  <1>14. /\ rst # "ended" /\ rst' = rst /\ got' = got /\ Base' = Base /\ Base \in Nat /\ Base <= c
    BY BaseFacts DEF readVars, Base, Reads
  <1>15. Base <= d /\ Len(got) <= m /\ Len(got) \in Nat /\ \A k \in 1..Len(got) : k \in 1..Len(S)
    <2>1. Len(got) \in Nat /\ Len(got) <= Len(S)
      BY <1>1, Numbers DEF Reads
    <2> QED
      BY <2>1, <1>1, <1>6, <1>14, SMT DEF m
  <1>16. \A k \in 1..m : Len(got) < k => Base <= T[k]
    <2> SUFFICES ASSUME NEW k \in 1..m, Len(got) < k PROVE Base <= T[k]
      OBVIOUS
    <2>1. CASE k = m
      BY <2>1, <1>2, <1>14
    <2>2. CASE k \in 1..Len(S)
      BY <2>2, <1>2, <1>14 DEF Reads
    <2> QED
      BY <2>1, <2>2, <1>4
  <1>17. Reads(T, Z, d)'
    BY <1>2, <1>3, <1>5, <1>14, <1>15, <1>16 DEF Reads
  <1> QED
    BY <1>13, <1>17

LEMMA WriteSomeArrives ==
    ASSUME TypesInv, ReadInv, Grows, NEW w \in Writers, WriteSome(w),
           NEW S \in Seq(Nat), NEW Z \in SUBSET Nat, NEW c \in Nat, Arrives(S, Z, c)
    PROVE  \E T \in Seq(Nat), d \in Nat : Arrives(T, Z, d)'
  <1>1. /\ ~broken /\ broken' = broken /\ UNCHANGED readVars /\ wpc' = wpc /\ payload' = payload
        /\ serialMu' = serialMu /\ wpc[w] \in {"header", "payload"} /\ buf[w] # <<>>
    BY DEF WriteSome, Writing
  <1>2. serialMu = w /\ serialMu # Nil
        /\ \A u \in Writers : u # w => wpc[u] \notin {"header", "payload"}
    BY <1>1, FrameAssumptions DEF TypesInv, FrameTypeOK, Writing
  <1>3. PICK n \in 1..Len(buf[w]) :
            /\ line' = line \o SubSeq(buf[w], 1, n)
            /\ buf' = [buf EXCEPT ![w] = SubSeq(@, n + 1, Len(@))]
            /\ written' = IF wpc[w] = "payload" /\ n = Len(buf[w])
                            THEN Append(written, payload[w]) ELSE written
    BY DEF WriteSome
  <1>4. PICK p : p = payload[w]
    OBVIOUS
  <1>5. PICK b : b = buf[w]
    OBVIOUS
  <1>6. PICK H : H = Header(Len(p))
    OBVIOUS
  <1>7. PICK r : r = SubSeq(b, n + 1, Len(b))
    OBVIOUS
  <1>8. p \in Seq(Byte) /\ b \in Seq(Byte) /\ line \in Seq(Byte) /\ n \in 1..Len(b)
    BY <1>3, <1>4, <1>5 DEF TypesInv, FrameTypeOK, WritersOK
  <1>9. Len(p) \in Nat /\ Len(b) \in Nat /\ Len(line) \in Nat /\ n \in Nat /\ n > 0 /\ n <= Len(b)
    BY <1>8, Bytes, SMT
  <1>10. /\ Len(r) = Len(b) - n /\ (\A i \in 1..(Len(b) - n) : r[i] = b[n + i])
         /\ r \in Seq(Byte)
    BY <1>7, <1>8, Cut
  <1>11. /\ Len(line') = Len(line) + n /\ \A i \in 1..n : line'[Len(line) + i] = b[i]
    <2> DEFINE x == SubSeq(b, 1, n)
    <2>1. x \in Seq(Byte) /\ Len(x) = n /\ \A i \in 1..n : x[i] = b[i]
      BY <1>8, Cut
    <2>2. line' = line \o x
      BY <1>3, <1>5
    <2> HIDE DEF x
    <2> QED
      BY <1>8, <2>1, <2>2, Appended
  <1>12. \A i \in 1..Len(line) : line'[i] = line[i]
    BY DEF Grows
  <1>13. buf'[w] = r
    BY <1>3, <1>5, <1>7 DEF TypesInv, WritersOK
  <1>14. ASSUME NEW i \in Nat, Len(line) < i, i <= Len(line')
         PROVE  i - Len(line) \in 1..n /\ line'[i] = b[i - Len(line)]
    <2>1. i - Len(line) \in 1..n /\ Len(line) + (i - Len(line)) = i
      BY <1>9, <1>11, <1>14, SMT
    <2> QED
      BY <2>1, <1>11
  <1>15. CASE wpc[w] = "header"
    <2>1. InHeader(w, c)
      BY <1>1, <1>15 DEF Arrives, WriterOK
    <2>2. /\ Started(c, p) /\ Len(b) <= 4 /\ c + 4 = Len(line) + Len(b)
          /\ \A i \in 1..Len(b) : b[i] = H[4 - Len(b) + i]
      BY <2>1, <1>4, <1>5, <1>6 DEF InHeader
    <2>3. written' = written
      BY <1>3, <1>15
    <2>4. Started(c, p)'
      <3>1. Len(p) > 0 /\ Len(p) <= MaxSize
        BY <2>2 DEF Started
      <3>2. Len(line') <= c + 4 /\ Len(line') \in Nat
        BY <1>9, <1>11, <2>2, SMT
      <3>3. Len(line') < c + 4 + Len(p) /\ \A i \in 1..Len(p) : ~(c + 4 + i <= Len(line'))
        BY <1>9, <3>1, <3>2, SMT
      <3>4. ASSUME NEW j \in 1..4, c + j <= Len(line') PROVE line'[c + j] = H[j]
        <4>1. CASE c + j <= Len(line)
          <5>1. c + j \in 1..Len(line)
            BY <4>1, <1>9, SMT
          <5> QED
            BY <4>1, <5>1, <1>6, <1>12, <2>2 DEF Started
        <4>2. CASE ~(c + j <= Len(line))
          <5>1. c + j \in Nat /\ Len(line) < c + j
            BY <4>2, <1>9, SMT
          <5>2. c + j - Len(line) \in 1..n /\ line'[c + j] = b[c + j - Len(line)]
            BY <5>1, <3>4, <1>14
          <5>3. c + j - Len(line) \in 1..Len(b) /\ 4 - Len(b) + (c + j - Len(line)) = j
            <6>1. c + 4 = Len(line) + Len(b) /\ c + j - Len(line) \in 1..n
              BY <2>2, <5>2
            <6> QED
              BY <6>1, <1>9, SMT
          <5> QED
            BY <5>2, <5>3, <2>2
        <4> QED
          BY <4>1, <4>2
      <3> QED
        BY <1>6, <3>1, <3>3, <3>4 DEF Started
    <2>5. InHeader(w, c)'
      <3>1. Started(c, payload[w])'
        BY <1>1, <1>4, <2>4 DEF Started
      <3>2. Len(r) <= 4 /\ c + 4 = Len(line') + Len(r)
        BY <1>9, <1>10, <1>11, <2>2, SMT
      <3>3. \A i \in 1..Len(r) : r[i] = H[4 - Len(r) + i]
        <4> SUFFICES ASSUME NEW i \in 1..Len(r) PROVE r[i] = H[4 - Len(r) + i]
          OBVIOUS
        <4>1. n + i \in 1..Len(b) /\ i \in 1..(Len(b) - n) /\ 4 - Len(b) + (n + i) = 4 - Len(r) + i
          BY <1>9, <1>10, SMT
        <4>2. r[i] = b[n + i] /\ b[n + i] = H[4 - Len(b) + (n + i)]
          BY <4>1, <1>10, <2>2
        <4> QED
          BY <4>1, <4>2
      <3> QED
        BY <1>1, <1>4, <1>6, <1>13, <3>1, <3>2, <3>3 DEF InHeader
    <2>6. Layout(S, Z, c)' /\ Reads(S, Z, c)'
      BY <1>1, <2>3, GrowLayout, ReadsKept DEF Arrives
    <2>7. CutShort(c)'
      BY <2>4, <1>8 DEF CutShort
    <2>8. WriterOK(c)'
      <3>1. ASSUME NEW u \in Writers
            PROVE  wpc[u] # "payload" /\ (wpc[u] = "header" => u = w)
        BY <1>2, <1>15
      <3> QED
        BY <1>1, <1>2, <2>5, <3>1 DEF WriterOK
    <2> QED
      BY <2>6, <2>7, <2>8 DEF Arrives
  <1>16. CASE wpc[w] = "payload"
    <2>1. InPayload(w, c)
      BY <1>1, <1>16 DEF Arrives, WriterOK
    <2>2. /\ Started(c, p) /\ Len(b) <= Len(p) /\ c + 4 + Len(p) = Len(line) + Len(b)
          /\ \A i \in 1..Len(b) : b[i] = p[Len(p) - Len(b) + i]
      BY <2>1, <1>4, <1>5 DEF InPayload
    <2>3. /\ Len(p) > 0 /\ Len(p) <= MaxSize
          /\ \A j \in 1..4 : c + j <= Len(line) => line[c + j] = H[j]
          /\ \A i \in 1..Len(p) : c + 4 + i <= Len(line) => line[c + 4 + i] = p[i]
      BY <1>6, <2>2 DEF Started
    <2>4. \A j \in 1..4 : line'[c + j] = H[j] /\ c + j <= Len(line)
      <3>1. \A j \in 1..4 : c + j <= Len(line) /\ c + j \in 1..Len(line)
        BY <1>9, <2>2, SMT
      <3> QED
        BY <3>1, <2>3, <1>12
    <2>5. ASSUME NEW i \in 1..Len(p), c + 4 + i <= Len(line') PROVE line'[c + 4 + i] = p[i]
      <3>1. CASE c + 4 + i <= Len(line)
        <4>1. c + 4 + i \in 1..Len(line)
          BY <3>1, <1>9, SMT
        <4> QED
          BY <3>1, <4>1, <1>12, <2>3
      <3>2. CASE ~(c + 4 + i <= Len(line))
        <4>1. c + 4 + i \in Nat /\ Len(line) < c + 4 + i
          BY <3>2, <1>9, SMT
        <4>2. c + 4 + i - Len(line) \in 1..n /\ line'[c + 4 + i] = b[c + 4 + i - Len(line)]
          BY <4>1, <2>5, <1>14
        <4>3. c + 4 + i - Len(line) \in 1..Len(b)
              /\ Len(p) - Len(b) + (c + 4 + i - Len(line)) = i
          <5>1. c + 4 + Len(p) = Len(line) + Len(b) /\ c + 4 + i - Len(line) \in 1..n /\ i \in Nat
            BY <2>2, <4>2
          <5>2. \A x \in 1..n : x \in 1..Len(b)
            BY <1>9, SMT
          <5>3. \A l, q, k, i0 \in Nat : c + 4 + q = l + k => q - k + (c + 4 + i0 - l) = i0
            BY SMT
          <5> QED
            BY <5>1, <5>2, <5>3, <1>9
        <4> QED
          BY <4>2, <4>3, <2>2
      <3> QED
        BY <3>1, <3>2
    <2>6. CASE n = Len(b)
      <3>1. written' = Append(written, p)
        BY <1>3, <1>4, <1>5, <1>16, <2>6
      <3>2. Len(line') = c + 4 + Len(p)
        BY <1>9, <1>11, <2>2, <2>6, SMT
      <3>3. PICK d \in Nat : d = Len(line')
        BY <1>9, <3>2
      <3>4. \A i \in 1..Len(p) : line'[c + 4 + i] = p[i]
        <4>1. \A i \in 1..Len(p) : c + 4 + i <= Len(line')
          BY <1>9, <3>2, SMT
        <4> QED
          BY <4>1, <2>5
      <3>5. line'[c + 3] * 256 + line'[c + 4] = Len(p) /\ line'[c + 1] = Magic0
            /\ line'[c + 2] = Magic1
        <4>1. Len(p) < 256 * 256
          <5>1. MaxSize \in Nat /\ MaxSize < 256 * 256
            BY FrameAssumptions
          <5> QED
            BY <5>1, <1>9, <2>3, SMT
        <4>2. H[1] = Magic0 /\ H[2] = Magic1 /\ H[3] = Len(p) \div 256 /\ H[4] = Len(p) % 256
          BY <4>1, <1>6, <1>9, HeaderBytes
        <4>3. (Len(p) \div 256) * 256 + (Len(p) % 256) = Len(p)
          BY <1>9, BigEndian
        <4>4. 1 \in 1..4 /\ 2 \in 1..4 /\ 3 \in 1..4 /\ 4 \in 1..4
          BY SMT
        <4>5. /\ line'[c + 1] = H[1] /\ line'[c + 2] = H[2] /\ line'[c + 3] = H[3]
              /\ line'[c + 4] = H[4]
          BY <2>4, <4>4
        <4> QED
          BY <4>2, <4>3, <4>5
      <3>6. Stands(c, p)'
        <4>1. c + 4 + Len(p) <= Len(line')
          BY <1>9, <3>2, SMT
        <4> QED
          BY <4>1, <3>4, <3>5 DEF Stands
      <3>7. PICK T \in Seq(Nat) : T = Append(S, c)
        BY AppendProperties
      <3>8. Layout(T, Z, d)' /\ Reads(T, Z, d)'
        BY <1>1, <1>8, <2>3, <3>1, <3>2, <3>3, <3>6, <3>7, FrameAdded DEF Arrives
      <3>9. buf'[w] = <<>>
        <4>1. Len(r) = 0
          BY <1>9, <1>10, <2>6, SMT
        <4>2. r = <<>>
          BY <4>1, <1>10, Bytes
        <4> QED
          BY <4>2, <1>13
      <3>10. WriterOK(d)' /\ CutShort(d)'
        <4>1. ASSUME NEW u \in Writers
              PROVE  wpc[u] # "header" /\ (wpc[u] = "payload" => u = w)
          BY <1>2, <1>16
        <4> QED
          BY <1>1, <1>2, <3>3, <3>9, <4>1 DEF WriterOK, CutShort
      <3>11. Arrives(T, Z, d)'
        BY <3>8, <3>10 DEF Arrives
      <3> QED
        BY <3>11
    <2>7. CASE n # Len(b)
      <3>1. written' = written
        BY <1>3, <1>5, <2>7
      <3>2. Len(line') < c + 4 + Len(p)
        BY <1>9, <1>11, <2>2, <2>7, SMT
      <3>3. Started(c, p)'
        BY <1>6, <2>3, <2>4, <2>5, <3>2 DEF Started
      <3>4. InPayload(w, c)'
        <4>1. Started(c, payload[w])'
          BY <1>1, <1>4, <3>3 DEF Started
        <4>2. Len(r) <= Len(p) /\ c + 4 + Len(p) = Len(line') + Len(r)
          <5>1. /\ Len(b) <= Len(p) /\ c + 4 + Len(p) = Len(line) + Len(b)
                /\ Len(r) = Len(b) - n /\ Len(line') = Len(line) + n
            BY <1>10, <1>11, <2>2
          <5>2. PICK l, q, k \in Nat : l = Len(line) /\ q = Len(p) /\ k = Len(b)
            BY <1>9
          <5>3. k <= q /\ c + 4 + q = l + k /\ Len(r) = k - n /\ Len(line') = l + n
            BY <5>1, <5>2
          <5>4. n \in Nat /\ n <= k
            BY <1>9, <5>2
          <5>5. k - n <= q /\ c + 4 + q = (l + n) + (k - n)
            <6>1. k <= q /\ c + 4 + q = l + k
              BY <5>3
            <6> QED
              BY <6>1, <5>4, SMT
          <5> QED
            BY <5>2, <5>3, <5>5
        <4>3. \A i \in 1..Len(r) : r[i] = p[Len(p) - Len(r) + i]
          <5> SUFFICES ASSUME NEW i \in 1..Len(r) PROVE r[i] = p[Len(p) - Len(r) + i]
            OBVIOUS
          <5>1. /\ n + i \in 1..Len(b) /\ i \in 1..(Len(b) - n)
                /\ Len(p) - Len(b) + (n + i) = Len(p) - Len(r) + i
            BY <1>9, <1>10, SMT
          <5>2. r[i] = b[n + i] /\ b[n + i] = p[Len(p) - Len(b) + (n + i)]
            BY <5>1, <1>10, <2>2
          <5> QED
            BY <5>1, <5>2
        <4> QED
          BY <1>1, <1>4, <1>13, <4>1, <4>2, <4>3 DEF InPayload
      <3>5. Layout(S, Z, c)' /\ Reads(S, Z, c)'
        BY <1>1, <3>1, GrowLayout, ReadsKept DEF Arrives
      <3>6. CutShort(c)'
        BY <3>3, <1>8 DEF CutShort
      <3>7. buf'[w] # <<>>
        <4>1. Len(r) > 0
          BY <1>9, <1>10, <2>7, SMT
        <4> QED
          BY <4>1, <1>10, <1>13, Bytes
      <3>8. WriterOK(c)'
        <4>1. ASSUME NEW u \in Writers
              PROVE  wpc[u] # "header" /\ (wpc[u] = "payload" => u = w)
          BY <1>2, <1>16
        <4> QED
          BY <1>1, <1>2, <3>4, <3>7, <4>1 DEF WriterOK
      <3> QED
        BY <3>5, <3>6, <3>8 DEF Arrives
    <2> QED
      BY <2>6, <2>7
  <1> QED
    BY <1>1, <1>15, <1>16

LEMMA ArriveStep ==
    ASSUME TypesInv, TypesInv', Grows, ReadInv, ArriveInv, [Next]_vars
    PROVE  ArriveInv'
  <1> SUFFICES ASSUME HarmlessNoise'
               PROVE  \E S \in Seq(Nat), Z \in SUBSET Nat, c \in Nat : Arrives(S, Z, c)'
    BY DEF ArriveInv
  <1>1. ASSUME NEW b \in Noise, NoiseArrives(b)
        PROVE  HarmlessNoise /\ Harmless(b)
    <2>1. noise' = Append(noise, b) /\ noise \in Seq(Seq(Byte)) /\ b \in Seq(Byte)
      BY <1>1, FrameAssumptions DEF NoiseArrives, TypesInv, WritersOK
    <2>2. /\ Len(noise') = Len(noise) + 1 /\ noise'[Len(noise) + 1] = b /\ Len(noise) \in Nat
          /\ \A i \in 1..Len(noise) : noise'[i] = noise[i]
      BY <2>1, AppendProperties, LenProperties
    <2>3. /\ Len(noise) + 1 \in 1..Len(noise')
          /\ \A i \in 1..Len(noise) : i \in 1..Len(noise')
      BY <2>2, SMT
    <2>4. \A i \in 1..Len(noise') : Harmless(noise'[i])
      BY DEF HarmlessNoise, Harmless
    <2> QED
      BY <2>2, <2>3, <2>4 DEF HarmlessNoise
  <1>2. HarmlessNoise
    <2>1. (\E b \in Noise : NoiseArrives(b)) \/ noise' = noise
      BY DEF Next, Write, Read, StartWrite, Lock, WriteSome, WriteNext, WriteFails, ReadMagic0,
         ReadMagic1, ReadLength, ReadPayload, ReadEnds, ReadByte, LineBreaks, vars
    <2> QED
      BY <1>1, <2>1 DEF HarmlessNoise, Harmless
  <1>3. PICK S \in Seq(Nat), Z \in SUBSET Nat, c \in Nat : Arrives(S, Z, c)
    BY <1>2 DEF ArriveInv
  <1>4. CASE \E w \in Writers : Write(w)
    <2>1. PICK w \in Writers : Write(w)
      BY <1>4
    <2>2. CASE \E p \in Payloads : StartWrite(w, p)
      BY <1>3, <2>2, StartWriteArrives
    <2>3. CASE Lock(w)
      BY <1>3, <2>3, LockArrives
    <2>4. CASE WriteSome(w)
      BY <1>3, <2>4, WriteSomeArrives
    <2>5. CASE WriteNext(w)
      BY <1>3, <2>5, WriteNextArrives
    <2>6. CASE WriteFails(w)
      BY <1>3, <2>6, BrokenArrives DEF WriteFails
    <2> QED
      BY <2>1, <2>2, <2>3, <2>4, <2>5, <2>6 DEF Write
  <1>5. CASE Read
    BY <1>3, <1>5, ReadArrives
  <1>6. CASE LineBreaks
    <2>1. broken' /\ line' = line /\ written' = written /\ UNCHANGED readVars
      BY <1>6 DEF LineBreaks, writeVars
    <2> QED
      BY <1>3, <2>1, BrokenArrives
  <1>7. CASE \E b \in Noise : NoiseArrives(b)
    BY <1>1, <1>3, <1>7, NoiseArrivesToo
  <1>8. CASE UNCHANGED vars
    <2>1. /\ UNCHANGED <<line, broken, writeVars>> /\ UNCHANGED readVars
          /\ line' = line /\ written' = written /\ broken' = broken
      BY <1>8 DEF vars, writeVars
    <2>2. WriterOK(c)'
      BY <1>3, <2>1, ReaderOnly DEF Arrives
    <2> QED
      BY <1>3, <2>1, <2>2, LineKept
  <1> QED
    BY <1>4, <1>5, <1>6, <1>7, <1>8 DEF Next

LEMMA InitArrive == Init => ArriveInv
  <1> SUFFICES ASSUME Init PROVE Arrives(<<>>, {}, 0)
    BY EmptySeq DEF ArriveInv
  <1>1. Len(<<>>) = 0 /\ line = <<>> /\ written = <<>> /\ got = <<>> /\ pos = 0 /\ rst = "magic0"
    BY EmptySeq DEF Init
  <1>2. \A w \in Writers : wpc[w] = "idle"
    BY DEF Init
  <1>3. Layout(<<>>, {}, 0)
    <2>1. 1..0 = {} /\ 0 <= 0 /\ \A q \in Nat : ~(q < 0)
      BY SMT
    <2> QED
      BY <1>1, <2>1 DEF Layout, FramesStand, FramesApart, ZerosStand, ZerosApart, NoOtherMagic
  <1>4. Reads(<<>>, {}, 0)
    <2>1. Base = 0 /\ 0 <= 0 /\ 1..0 = {}
      BY <1>1 DEF Base
    <2> QED
      BY <1>1, <2>1 DEF Reads
  <1>5. CutShort(0) /\ WriterOK(0)
    BY <1>1, <1>2 DEF CutShort, WriterOK
  <1> QED
    BY <1>3, <1>4, <1>5 DEF Arrives

\* Spec keeps FramesArrive: with several writers, partial writes, a line that breaks at
\* any byte and noise that begins no frame, ReadFrame returns exactly the payloads that
\* WriteFrame wrote whole, in order, and has returned them all once it has read every byte.
THEOREM FramesArriveCorrect == Spec => []FramesArrive
  <1>1. Init => TypesInv /\ ReadInv /\ ArriveInv
    BY InitTypes, InitRead, InitArrive
  <1>2. TypesInv /\ ReadInv /\ ArriveInv /\ [Next]_vars => TypesInv' /\ ReadInv' /\ ArriveInv'
    BY TypesStep, ReadStep, ArriveStep
  <1>3. TypesInv /\ ReadInv /\ ArriveInv => FramesArrive
    BY ArriveFrames
  <1> QED
    BY <1>1, <1>2, <1>3, PTL DEF Spec
=============================================================================
