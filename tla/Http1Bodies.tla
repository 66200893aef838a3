---------------------------- MODULE Http1Bodies ----------------------------
(***************************************************************************)
(* How the HTTP/1.1 proxy relays a body                                    *)
(* (crates/runtime/src/http1_proxy/body_relay.rs): byte by byte, however   *)
(* the bytes arrive.  A byte is a string; "CR" and "LF" end the lines of   *)
(* chunked framing, "0" to "f" are hexadecimal digits.  A relay has a      *)
(* mode:                                                                   *)
(*   "length"   relay_content_length (and its collecting variant)          *)
(*   "framed"   relay_chunked: chunked framing is checked and passed on    *)
(*   "payload"  the same for an HTTP/1.0 client: only payload is written   *)
(*   "close"    relay_close_delimited_as_chunked                           *)
(*   "raw"      a body that ends with the connection, for HTTP/1.0         *)
(* The sender closes or falls silent after its last byte; the connection   *)
(* may break at any time.                                                  *)
(***************************************************************************)
EXTENDS Integers, Sequences, FiniteSets, SequencesExt

CONSTANTS
    MaxBodyBytes,       \* config.limits.max_body_bytes
    MaxChunkLine,       \* MAX_CHUNK_LINE_BYTES
    MaxChunkTrailer,    \* MAX_CHUNK_TRAILER_BYTES
    MaxSizeDigits,      \* the 16 digits a chunk size may have
    MaxRead             \* the bytes one read returns at most

VARIABLES
    incoming,   \* bytes the proxy has not read yet
    relay       \* the state of the relay: see RelayInit

bodyVars == <<incoming, relay>>

(* A message: its mode, the bytes of its body as sent, the payload they    *)
(* stand for ("valid" says whether they are well formed), what follows on  *)
(* the connection, and whether the sender closes at the end.  The first    *)
(* bytes of the body were read together with the head.                     *)
RelayInit(sent, read) ==
    LET all == sent.body \o sent.next
    IN  /\ incoming = SubSeq(all, read + 1, Len(all))
        /\ relay = [sent |-> sent, buffer |-> SubSeq(all, 1, read), scanned |-> 0, written |-> <<>>,
                    pc |-> CASE sent.mode = "length" -> IF sent.length > MaxBodyBytes THEN "limit" ELSE "data"
                             [] sent.mode \in {"framed", "payload"} -> "size"
                             [] sent.mode \in {"close", "raw"} -> "until_close",
                    remaining |-> IF sent.mode = "length" THEN sent.length ELSE 0,
                    total |-> 0, trailer |-> 0]

Outcomes == {"ok", "limit", "incomplete", "invalid", "too_large", "timeout", "io"}

Forwards == relay.sent.mode /= "payload"

Prefix(s, n) == SubSeq(s, 1, n)

Suffix(s, n) == SubSeq(s, n + 1, Len(s))

CRLF == <<"CR", "LF">>

(* The length of the first line of s that ends at or after byte from, 0 if *)
(* none does.                                                              *)
LineEnd(s, from) ==
    LET ends == {i \in (from + 1)..(Len(s) - 1) : s[i] = "CR" /\ s[i + 1] = "LF"}
    IN  IF ends = {} THEN 0 ELSE 1 + CHOOSE i \in ends : \A j \in ends : i <= j

Digits ==
    [d \in {"0", "1", "2", "3", "f"} |->
        CASE d = "0" -> 0 [] d = "1" -> 1 [] d = "2" -> 2 [] d = "3" -> 3 [] d = "f" -> 15]

(* The size a chunk's line announces, -1 when the line is malformed: only  *)
(* digits, then nothing or an extension.                                   *)
parse_chunk_size_line(line) ==
    LET others == {i \in DOMAIN line : line[i] \notin DOMAIN Digits}
        count == IF others = {} THEN Len(line) ELSE (CHOOSE i \in others : \A j \in others : i <= j) - 1
        inked == {i \in others : line[i] /= "blank" /\ \A j \in (count + 1)..(i - 1) : line[j] = "blank"}
        value[i \in 0..count] == IF i = 0 THEN 0 ELSE 16 * value[i - 1] + Digits[line[i]]
    IN  IF count \notin 1..MaxSizeDigits \/ \E i \in inked : line[i] /= ";"
           \/ ToSet(line) \cap {"CR", "LF"} /= {}
        THEN -1 ELSE value[count]

MutantScanOn(buffer) == Len(buffer)

(* A line end may be split between two reads: the last byte is looked at   *)
(* again.                                                                  *)
Rescanned(buffer) == IF buffer = <<>> THEN 0 ELSE Len(buffer) - 1

Ending(outcome) == relay' = [relay EXCEPT !.pc = outcome] /\ UNCHANGED incoming

Reading == relay.pc \in {"size", "trailer", "chunk_end", "data", "until_close"}

AtLine == relay.pc \in {"size", "trailer", "chunk_end"}

Line == LineEnd(relay.buffer, relay.scanned)

----------------------------------------------------------------------------
(* read_crlf_line                                                          *)
ReadLine(n) ==
    /\ AtLine
    /\ Line = 0 /\ Len(relay.buffer) <= MaxChunkLine
    /\ n \in 1..Len(incoming)
    /\ relay' = [relay EXCEPT !.buffer = @ \o Prefix(incoming, n), !.scanned = Rescanned(relay.buffer)]
    /\ incoming' = Suffix(incoming, n)

LineTooLong ==
    /\ AtLine
    /\ Line = 0 /\ Len(relay.buffer) > MaxChunkLine
    /\ Ending("too_large")

(* The size of a chunk: counted against the limit before anything of the   *)
(* chunk is written.                                                       *)
SizeLine(line, rest) ==
    LET size == parse_chunk_size_line(Prefix(line, Len(line) - 2))
    IN  IF size < 0 THEN [relay EXCEPT !.pc = "invalid"]
        ELSE IF relay.total + size > MaxBodyBytes THEN [relay EXCEPT !.pc = "limit"]
        ELSE [relay EXCEPT !.pc = IF size = 0 THEN "trailer" ELSE "data", !.buffer = rest, !.scanned = 0,
                           !.total = @ + size, !.remaining = size,
                           !.written = IF Forwards THEN @ \o line ELSE @]

(* Trailer fields go on until an empty line.                               *)
TrailerLine(line, rest) ==
    IF relay.trailer + Len(line) > MaxChunkTrailer THEN [relay EXCEPT !.pc = "too_large"]
    ELSE [relay EXCEPT !.pc = IF line = CRLF THEN "ok" ELSE "trailer", !.buffer = rest, !.scanned = 0,
                       !.trailer = @ + Len(line), !.written = IF Forwards THEN @ \o line ELSE @]

(* The data of a chunk is followed by exactly an end of line.              *)
ChunkEndLine(line, rest) ==
    IF line /= CRLF THEN [relay EXCEPT !.pc = "invalid"]
    ELSE [relay EXCEPT !.pc = "size", !.buffer = rest, !.scanned = 0,
                       !.written = IF Forwards THEN @ \o line ELSE @]

TakeLine ==
    /\ AtLine
    /\ Line > 0
    /\ LET line == Prefix(relay.buffer, Line)
           rest == Suffix(relay.buffer, Line)
       IN  relay' = CASE relay.pc = "size" -> SizeLine(line, rest)
                      [] relay.pc = "trailer" -> TrailerLine(line, rest)
                      [] relay.pc = "chunk_end" -> ChunkEndLine(line, rest)
    /\ UNCHANGED incoming

(* relay_exact_bytes and relay_content_length: what was read before, then  *)
(* no more than is missing.                                                *)
DataWritten(bytes) ==
    [relay EXCEPT !.written = @ \o bytes, !.remaining = @ - Len(bytes),
                  !.pc = IF relay.remaining > Len(bytes) THEN "data"
                         ELSE IF relay.sent.mode = "length" THEN "ok" ELSE "chunk_end"]

WriteBuffered ==
    /\ relay.pc = "data" /\ relay.buffer /= <<>>
    /\ LET n == IF relay.remaining < Len(relay.buffer) THEN relay.remaining ELSE Len(relay.buffer)
       IN  relay' = [DataWritten(Prefix(relay.buffer, n)) EXCEPT !.buffer = Suffix(@, n)]
    /\ UNCHANGED incoming

ReadData(n) ==
    /\ relay.pc = "data" /\ relay.buffer = <<>>
    /\ n \in 1..Len(incoming) /\ n <= relay.remaining
    /\ relay' = DataWritten(Prefix(incoming, n))
    /\ incoming' = Suffix(incoming, n)

----------------------------------------------------------------------------
(* Bodies that end with the connection                                     *)
Digit(n) == CHOOSE d \in DOMAIN Digits : Digits[d] = n

Framed(bytes) == <<Digit(Len(bytes))>> \o CRLF \o bytes \o CRLF

UntilClose(bytes) ==
    IF relay.total + Len(bytes) > MaxBodyBytes THEN [relay EXCEPT !.pc = "limit"]
    ELSE [relay EXCEPT !.total = @ + Len(bytes),
                       !.written = @ \o (IF relay.sent.mode = "close" THEN Framed(bytes) ELSE bytes)]

ReadUntilClose(n) ==
    /\ relay.pc = "until_close"
    /\ \/ /\ relay.buffer /= <<>>
          /\ n = IF Len(relay.buffer) < MaxRead THEN Len(relay.buffer) ELSE MaxRead
          /\ relay' = [UntilClose(Prefix(relay.buffer, n)) EXCEPT !.buffer = Suffix(@, n)]
          /\ UNCHANGED incoming
       \/ /\ relay.buffer = <<>>
          /\ n \in 1..Len(incoming)
          /\ relay' = UntilClose(Prefix(incoming, n))
          /\ incoming' = Suffix(incoming, n)

----------------------------------------------------------------------------
(* A read that returns nothing: the end of the connection, or silence      *)
Starved ==
    /\ Reading /\ incoming = <<>>
    /\ CASE AtLine -> Line = 0 /\ Len(relay.buffer) <= MaxChunkLine
         [] OTHER -> relay.buffer = <<>>

EndOfStream ==
    /\ Starved /\ relay.sent.closes
    /\ IF relay.pc /= "until_close" THEN Ending("incomplete")
       ELSE /\ relay' = [relay EXCEPT !.pc = "ok",
                                      !.written = IF relay.sent.mode = "close" THEN @ \o <<"0">> \o CRLF \o CRLF ELSE @]
            /\ UNCHANGED incoming

IdleTimeout == Starved /\ ~relay.sent.closes /\ Ending("timeout")

(* The reader or the writer fails.                                         *)
BodyIoError == Reading /\ Ending("io")

BodyProgress ==
    \/ \E n \in 1..MaxRead : ReadLine(n) \/ ReadData(n) \/ ReadUntilClose(n)
    \/ LineTooLong \/ TakeLine \/ WriteBuffered \/ EndOfStream \/ IdleTimeout

----------------------------------------------------------------------------
(* decode_chunked_body: the payload of a framed body, or <<"broken">>.     *)
decode_chunked_body(bytes) ==
    LET decoded[at \in 0..Len(bytes)] ==
            LET line == LineEnd(bytes, at) - at
                size == parse_chunk_size_line(SubSeq(bytes, at + 1, at + line - 2))
                end == at + line + size
            IN  IF LineEnd(bytes, at) = 0 \/ size < 0 THEN <<"broken">>
                ELSE IF size = 0 THEN <<>>
                ELSE IF end + 2 > Len(bytes) \/ SubSeq(bytes, end + 1, end + 2) /= CRLF THEN <<"broken">>
                ELSE SubSeq(bytes, at + line + 1, end) \o decoded[end + 2]
    IN  decoded[0]

----------------------------------------------------------------------------
(* Properties                                                              *)

(* A relay is reading or has one of its outcomes.                          *)
BodyTypeOK ==
    /\ relay.pc \in Outcomes \cup {"size", "trailer", "chunk_end", "data", "until_close"}
    /\ relay.remaining \in Nat /\ relay.total \in Nat /\ relay.trailer \in 0..MaxChunkTrailer
    /\ relay.scanned \in 0..Len(relay.buffer)

(* A relayed body is whole: the relay succeeds only on a well-formed body  *)
(* that arrived to its last byte, however the reads cut it, and then what  *)
(* was written stands for the payload that was sent, framed or not         *)
(* (relay_body; collect_decoded_body takes the payload from it).           *)
RelayedWhole ==
    relay.pc = "ok" =>
        /\ relay.sent.valid
        /\ relay.sent.payload = IF relay.sent.mode \in {"framed", "close"}
                                THEN decode_chunked_body(relay.written) ELSE relay.written

(* How the bytes are cut into reads does not decide over a body: one that  *)
(* is well formed and arrives whole is never taken for an incomplete or    *)
(* malformed one, nor waited for (read_crlf_line looks again at the last   *)
(* byte of the read before).                                               *)
CutsDoNotMatter ==
    relay.pc \in {"incomplete", "invalid", "timeout"} => ~relay.sent.valid

(* A body ends where its framing says: the bytes of the next message on    *)
(* the connection are left for the next head, none taken and none added    *)
(* (read_crlf_line reads ahead into the shared buffer).                    *)
NextMessageIntact ==
    relay.pc = "ok" => relay.buffer \o incoming = relay.sent.next

(* What was written before a relay ends is a prefix of the payload, or of  *)
(* the framing that was received: a failed relay never invents a byte, and *)
(* no more than max_body_bytes of payload are ever written.                *)
WrittenInOrder ==
    /\ CASE relay.sent.mode \in {"length", "raw"} ->
                IsPrefix(relay.written, relay.sent.payload) /\ Len(relay.written) <= MaxBodyBytes
         [] relay.sent.mode = "framed" -> IsPrefix(relay.written, relay.sent.body)
         [] relay.sent.mode = "payload" ->
                Len(relay.written) <= MaxBodyBytes /\ (relay.sent.valid => IsPrefix(relay.written, relay.sent.payload))
         [] relay.sent.mode = "close" -> TRUE
    /\ relay.total <= MaxBodyBytes
=============================================================================
