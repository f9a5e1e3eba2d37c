------------------------------- MODULE Frame -------------------------------
(***************************************************************************)
(* The framing of internal/frame over one serial line.  Goroutines of the  *)
(* broker write frames with WriteFrame under serialMu, the line may carry  *)
(* bytes nobody framed and may break at any byte, and the other end reads  *)
(* with ReadFrame the way readSerial does, byte by byte.  Bytes are the    *)
(* numbers they are in the code.                                           *)
(***************************************************************************)
EXTENDS Naturals, Sequences, FiniteSets, SequencesExt

CONSTANTS
    Writers,    \* goroutines calling writeSerial
    Payloads,   \* what they may write, sequences of bytes
    Noise,      \* what the line may carry between two frames
    MaxSize,    \* frame.MaxSize
    Nil,        \* nobody
    MaxFrames,  \* bound: how many frames are written
    MaxNoise    \* bound: how often there is noise

Magic0 == 148   \* 0x94
Magic1 == 195   \* 0xC3
Byte   == 0..255

ASSUME FrameAssumptions ==
    /\ Nil \notin Writers
    /\ Payloads \subseteq Seq(Byte) \ {<<>>}
    /\ Noise \subseteq Seq(Byte)
    /\ MaxSize \in Nat \ {0} /\ MaxSize < 256 * 256
    /\ MaxFrames \in Nat /\ MaxNoise \in Nat

VARIABLES
    line,       \* every byte the line has accepted
    broken,     \* the device is gone: what was accepted can still be read
    done,       \* Broker.done, closed after a failed write
    serialMu,   \* who holds it
    wpc,        \* where each writer is
    payload,    \* the payload it writes
    buf,        \* what writeAll still has to write of header or payload
    written,    \* payloads the line has taken to the last byte, in order
    rst,        \* where ReadFrame is
    pos,        \* how many bytes it has read
    part,       \* the bytes of the length or of the payload it has so far
    need,       \* how many payload bytes it reads
    got,        \* the frames returned, and where in the line each ended
    refused,    \* how often it has returned ErrInvalidFrame
    noise       \* the noise so far, in order

writeVars == <<done, serialMu, wpc, payload, buf, written>>
readVars  == <<rst, pos, part, need, got, refused>>
vars == <<line, broken, writeVars, readVars, noise>>

-----------------------------------------------------------------------------
(* WriteFrame and writeAll *)

Header(n) == <<Magic0, Magic1, n \div 256, n % 256>>
Encode(p) == Header(Len(p)) \o p

\* writeSerial looks at done, then waits for the lock.
StartWrite(w, p) ==
    /\ wpc[w] = "idle" /\ ~done
    /\ payload' = [payload EXCEPT ![w] = p]
    /\ wpc' = [wpc EXCEPT ![w] = "lock"]
    /\ UNCHANGED <<line, broken, done, serialMu, buf, written, readVars, noise>>

\* After an error forward fails the broker; SendTextMessage only returns it.
Failed == done' \in {TRUE, done}

LockFreeMutant == TRUE
LockFree == serialMu = Nil

\* With the lock held WriteFrame refuses what is too large before it writes a byte.
Lock(w) ==
    /\ wpc[w] = "lock" /\ LockFree /\ Len(written) < MaxFrames
    /\ \/ /\ Len(payload[w]) > MaxSize
          /\ Failed
          /\ wpc' = [wpc EXCEPT ![w] = "idle"]
          /\ UNCHANGED <<serialMu, buf>>
       \/ /\ Len(payload[w]) <= MaxSize
          /\ serialMu' = w
          /\ buf' = [buf EXCEPT ![w] = Header(Len(payload[w]))]
          /\ wpc' = [wpc EXCEPT ![w] = "header"]
          /\ UNCHANGED done
    /\ UNCHANGED <<line, broken, payload, written, readVars, noise>>

Writing(w) == wpc[w] \in {"header", "payload"}

\* The device takes some of the bytes; writeAll goes on with the rest.
WriteSome(w) ==
    /\ Writing(w) /\ buf[w] # <<>> /\ ~broken
    /\ \E n \in 1..Len(buf[w]) :
          /\ line' = line \o SubSeq(buf[w], 1, n)
          /\ buf' = [buf EXCEPT ![w] = SubSeq(@, n + 1, Len(@))]
          /\ written' = IF wpc[w] = "payload" /\ n = Len(buf[w])
                          THEN Append(written, payload[w]) ELSE written
    /\ UNCHANGED <<broken, done, serialMu, wpc, payload, readVars, noise>>

\* After the header comes the payload, after the payload the lock is released.
WriteNext(w) ==
    /\ buf[w] = <<>>
    /\ \/ /\ wpc[w] = "header"
          /\ buf' = [buf EXCEPT ![w] = payload[w]]
          /\ wpc' = [wpc EXCEPT ![w] = "payload"]
          /\ UNCHANGED serialMu
       \/ /\ wpc[w] = "payload"
          /\ wpc' = [wpc EXCEPT ![w] = "idle"]
          /\ serialMu' = Nil
          /\ UNCHANGED buf
    /\ UNCHANGED <<line, broken, done, payload, written, readVars, noise>>

\* Write returns an error, or no byte written: the frame stays cut short.
WriteFails(w) ==
    /\ Writing(w) /\ buf[w] # <<>> /\ broken
    /\ wpc' = [wpc EXCEPT ![w] = "idle"]
    /\ serialMu' = Nil
    /\ buf' = [buf EXCEPT ![w] = <<>>]
    /\ Failed
    /\ UNCHANGED <<line, broken, payload, written, readVars, noise>>

-----------------------------------------------------------------------------
(* ReadFrame, called again and again by readSerial *)

\* One more byte has been read; what ReadFrame does with it.
ReadByte == /\ pos < Len(line)
            /\ pos' = pos + 1
            /\ UNCHANGED <<line, broken, writeVars, noise>>
Next1 == line[pos + 1]

ReadMagic0 ==
    /\ rst = "magic0" /\ ReadByte
    /\ rst' = IF Next1 = Magic0 THEN "magic1" ELSE "magic0"
    /\ UNCHANGED <<part, need, got, refused>>

\* Anything but Magic1 starts the search anew, with the byte after it.
ReadMagic1 ==
    /\ rst = "magic1" /\ ReadByte
    /\ rst' = IF Next1 = Magic1 THEN "length" ELSE "magic0"
    /\ UNCHANGED <<part, need, got, refused>>

InvalidMutant(n) == n = 0 \/ n >= MaxSize
InvalidMutantLarge(n) == n = 0 \/ n > MaxSize + 1
Invalid(n) == n = 0 \/ n > MaxSize

\* Two bytes, big-endian; an invalid length ends this call with ErrInvalidFrame and
\* readSerial calls again.
ReadLength ==
    /\ rst = "length" /\ ReadByte
    /\ LET length == part[1] * 256 + Next1 IN
       \/ /\ part = <<>>
          /\ part' = <<Next1>>
          /\ UNCHANGED <<rst, need, refused>>
       \/ /\ part # <<>> /\ Invalid(length)
          /\ part' = <<>> /\ rst' = "magic0" /\ refused' = refused + 1
          /\ UNCHANGED need
       \/ /\ part # <<>> /\ ~Invalid(length)
          /\ part' = <<>> /\ rst' = "payload" /\ need' = length
          /\ UNCHANGED refused
    /\ UNCHANGED got

FullMutant(p) == Len(p) >= need - 1
Full(p) == Len(p) = need

ReadPayload ==
    /\ rst = "payload" /\ ReadByte
    /\ LET p == Append(part, Next1) IN
       \/ /\ ~Full(p)
          /\ part' = p
          /\ UNCHANGED <<rst, need, got>>
       \/ /\ Full(p)
          /\ got' = Append(got, [payload |-> p, end |-> pos + 1])
          /\ part' = <<>> /\ need' = 0 /\ rst' = "magic0"
    /\ UNCHANGED refused

\* The end of the input, wherever it is met, is an error and no frame.
ReadEnds ==
    /\ rst # "ended" /\ broken /\ pos = Len(line)
    /\ rst' = "ended" /\ part' = <<>>
    /\ UNCHANGED <<line, broken, writeVars, pos, need, got, refused, noise>>

-----------------------------------------------------------------------------
(* The line (external) *)

NoiseArrives(b) ==
    /\ ~broken /\ serialMu = Nil /\ Len(noise) < MaxNoise
    /\ line' = line \o b
    /\ noise' = Append(noise, b)
    /\ UNCHANGED <<broken, writeVars, readVars>>

LineBreaks ==
    /\ ~broken
    /\ broken' = TRUE
    /\ UNCHANGED <<line, writeVars, readVars, noise>>

Init ==
    /\ line = <<>> /\ broken = FALSE /\ done = FALSE /\ serialMu = Nil
    /\ wpc = [w \in Writers |-> "idle"] /\ payload = [w \in Writers |-> <<>>]
    /\ buf = [w \in Writers |-> <<>>] /\ written = <<>>
    /\ rst = "magic0" /\ pos = 0 /\ part = <<>> /\ need = 0 /\ got = <<>> /\ refused = 0
    /\ noise = <<>>

Write(w) == \/ \E p \in Payloads : StartWrite(w, p)
            \/ Lock(w) \/ WriteSome(w) \/ WriteNext(w) \/ WriteFails(w)
Read == ReadMagic0 \/ ReadMagic1 \/ ReadLength \/ ReadPayload \/ ReadEnds

Next == \/ \E w \in Writers : Write(w)
        \/ Read \/ LineBreaks
        \/ \E b \in Noise : NoiseArrives(b)

Spec == Init /\ [][Next]_vars

-----------------------------------------------------------------------------
(* Properties *)

\* Type correctness.  The reader never collects more than the length it was told
\* and a length it accepts is within 1..MaxSize; the lock is held by the one writer
\* that is writing.
FrameTypeOK ==
    /\ line \in Seq(Byte) /\ pos \in 0..Len(line) /\ refused \in Nat
    /\ rst \in {"magic0", "magic1", "length", "payload", "ended"}
    /\ part \in Seq(Byte) /\ need \in 0..MaxSize
    /\ rst = "length" => Len(part) < 2
    /\ rst = "payload" => Len(part) < need
    /\ wpc \in [Writers -> {"idle", "lock", "header", "payload"}]
    /\ \A w \in Writers : Writing(w) <=> serialMu = w
    /\ broken \in BOOLEAN /\ done \in BOOLEAN

StartOf(f) == f.end - Len(f.payload) - 3

\* Whatever bytes the line carries, each frame ReadFrame returns stands in the line
\* exactly as WriteFrame would have written it, and no byte belongs to two frames:
\* reading is the inverse of writing wherever it happens to start.
Framed == \A k \in 1..Len(got) :
    /\ StartOf(got[k]) > IF k = 1 THEN 0 ELSE got[k - 1].end
    /\ SubSeq(line, StartOf(got[k]), got[k].end) = Encode(got[k].payload)

\* Noise that leaves ReadFrame where it was: without Magic0, or a header of length 0.
Harmless(b) == b = Header(0) \/ \A i \in 1..Len(b) : b[i] # Magic0

GotPayloads == [k \in 1..Len(got) |-> got[k].payload]

\* With several writers, partial writes, a line that breaks at any byte and noise
\* without Magic0 between frames, the other end returns exactly the payloads that
\* were written whole, in order; one that was cut short is never returned, and once
\* everything is read none is missing.
FramesArrive == (\A i \in 1..Len(noise) : Harmless(noise[i])) =>
    /\ IsPrefix(GotPayloads, written)
    /\ pos = Len(line) => GotPayloads = written
=============================================================================
