--------------------------- MODULE AnalyzerProtocol ---------------------------
(* The response of the analyzer, from the bytes of its output to the symbols   *)
(* of the batch: the incremental decoder (_JsonlStreamDecoder), the order of    *)
(* the records (_analyze_stream), the texts of symbols sent in pieces           *)
(* (_SymbolTextChunks), one spool per kind of fact (_FactRegistry), and the     *)
(* assembly of the texts from the spools (_FactBatchBuilder.build).             *)
(* A byte is the place of its record in the response, or 0 for a newline.       *)
EXTENDS Naturals, Sequences, SequencesExt

CONSTANTS
  Deliveries,  \* triples of a response, its output and limits: a response is a sequence
               \* of records (kind, key, and the parts of its kind), an output a sequence
               \* of bytes, limits a record of wire, decoded and record
  FieldOrder   \* _SYMBOL_TEXT_FIELDS

Fields == {FieldOrder[i] : i \in DOMAIN FieldOrder}

\* A symbol declares the texts that come in pieces, by their fields.
ASSUME DeliveryAssumption ==
  /\ FieldOrder \in Seq(Fields)
  /\ \A d \in Deliveries :
       /\ d[2] \in Seq({0} \cup DOMAIN d[1])
       /\ d[3].decoded \in Nat
       /\ \A i \in DOMAIN d[1] :
            d[1][i].kind = "symbol" => d[1][i].pieces \in [DOMAIN d[1][i].pieces -> Seq(Nat)]

VARIABLES
  response,    \* the records the analyzer writes
  output,      \* the bytes that arrive; a record may lack its newline, or some of its bytes
  bounds,      \* the byte limits
  gzip,        \* whether the output is compressed
  wireBytes,   \* bytes received so far
  decodedBytes,
  reader,      \* the unfinished record, the records read, and what they led to
  texts        \* the symbols of the batch, once it is built

protocolVars == <<response, output, bounds, gzip, wireBytes, decodedBytes, reader, texts>>
-----------------------------------------------------------------------------
(* Symbols whose texts come in pieces.                                       *)

\* A symbol that waits for the first piece of a field: the texts it declared, the fields
\* that have still to come, and the texts that came.
Awaiting(symbol, pieces, fields, text) ==
  [symbol |-> symbol, pieces |-> pieces, fields |-> fields, index |-> 0, received |-> <<>>,
   text |-> text]

\* No symbol is waiting for pieces.
NoPieces == Awaiting("none", <<>>, {}, <<>>)

Pending(c) == c.fields # {}

\* The fields that have still to come do so in their fixed order.
Due(c) ==
  LET first == CHOOSE i \in DOMAIN FieldOrder :
                 FieldOrder[i] \in c.fields /\ \A j \in 1 .. i - 1 : FieldOrder[j] \notin c.fields
  IN  FieldOrder[first]

\* The text the field that is due has by the symbol's declaration: its size and digest.
Declared(c) == c.pieces[Due(c)]

\* Mutant: a field of the declared size is taken for the declared one.
OfDeclaredSize(text, declared) == Len(text) = Len(declared)

OfDeclaredDigest(text, declared) == text = declared

\* Mutant: the last piece of a field finds no room.
FitsWithRoomLeft(c, r) ==
  /\ r.key = c.symbol /\ r.field = Due(c) /\ r.index = c.index
  /\ Len(r.text) > 0 /\ Len(c.received) + Len(r.text) < Len(Declared(c))

\* The piece is the next one of the field that is due.
Fits(c, r) ==
  /\ r.key = c.symbol /\ r.field = Due(c) /\ r.index = c.index
  /\ Len(r.text) > 0 /\ Len(c.received) + Len(r.text) <= Len(Declared(c))

\* Only a symbol announces pieces, of known fields that are not empty.
Announces(r) ==
  r.kind = "symbol" /\ DOMAIN r.pieces \subseteq Fields
    /\ \A f \in DOMAIN r.pieces : Len(r.pieces[f]) > 0

\* The texts of a symbol with that of the field that is due.
WithText(c, received) ==
  [f \in DOMAIN c.text \cup {Due(c)} |-> IF f = Due(c) THEN received ELSE c.text[f]]

\* A record in the course of the pieces: [c, the pieces after it; ok; done and text,
\* whether a symbol is finished and its texts].  The declared size ends a field.
AcceptPiece(c, r) ==
  IF r.kind # "piece"
  THEN [ok |-> ~Pending(c) /\ (r.pieces # <<>> => Announces(r)),
        done |-> r.pieces = <<>>, text |-> <<>>,
        c |-> IF r.pieces = <<>> THEN NoPieces
              ELSE Awaiting(r.key, r.pieces, DOMAIN r.pieces, <<>>)]
  ELSE IF ~Pending(c) \/ ~Fits(c, r)
  THEN [ok |-> FALSE, done |-> FALSE, text |-> <<>>, c |-> c]
  ELSE LET received == c.received \o r.text
           ends == Len(received) = Len(Declared(c))
           text == WithText(c, received)
           left == c.fields \ {Due(c)}
       IN  [ok |-> ends => OfDeclaredDigest(received, Declared(c)),
            done |-> ends /\ left = {}, text |-> text,
            c |-> IF ~ends THEN [c EXCEPT !.received = received, !.index = @ + 1]
                  ELSE IF left # {} THEN Awaiting(c.symbol, c.pieces, left, text)
                  ELSE NoPieces]
-----------------------------------------------------------------------------
(* Reading.                                                                  *)

Failed(s, why) == [s EXCEPT !.failure = why]

\* One record of the response, in the order hello, begin, facts, complete.
Accept(s, r) ==
  CASE s.phase = "hello" ->
         IF r.kind = "hello" THEN [s EXCEPT !.phase = "begin"] ELSE Failed(s, "protocol")
    [] s.phase = "begin" ->
         IF r.kind = "begin" THEN [s EXCEPT !.phase = "facts"] ELSE Failed(s, "protocol")
    [] s.phase = "facts" /\ r.kind \in {"fact", "symbol", "piece"} ->
         LET next == AcceptPiece(s.pieces, r)
         IN  IF next.ok
             THEN [s EXCEPT !.pieces = next.c, !.spools[r.kind] = Append(@, r)]
             ELSE Failed(s, "protocol")
    [] s.phase = "facts" /\ r.kind = "complete" /\ r.success /\ ~Pending(s.pieces) ->
         [s EXCEPT !.phase = "complete"]
    [] OTHER -> Failed(s, "protocol")

\* A newline ends a record, which is malformed if it has bytes of two.
EndRecord(s) ==
  IF s.record = <<>> THEN Failed(s, "protocol")
  ELSE IF Len(s.record) > bounds.record THEN Failed(s, "limit")
  ELSE IF \E k \in DOMAIN s.record : s.record[k] # s.record[1] THEN Failed(s, "protocol")
  ELSE Accept([s EXCEPT !.record = <<>>, !.lines = Append(@, s.record)], response[s.record[1]])

Byte(s, b) ==
  IF s.failure # "none" THEN s
  ELSE IF b = 0 THEN EndRecord(s)
  ELSE [s EXCEPT !.record = Append(@, b)]

\* Mutant: a chunk of output starts a record.
AnewEachTime(s) == [s EXCEPT !.record = <<>>]

\* A record may continue from one chunk of output to the next.
Continued(s) == s

ReadBytes(s, bytes) ==
  LET read[i \in 0 .. Len(bytes)] ==
        IF i = 0 THEN Continued(s) ELSE Byte(read[i - 1], bytes[i])
      end == read[Len(bytes)]
  IN  IF end.failure = "none" /\ Len(end.record) > bounds.record
      THEN Failed(end, "limit") ELSE end

Left == bounds.decoded - decodedBytes

\* The decompressor is asked for one byte more than the limit leaves.
Asked(n) == IF n < Left + 1 THEN n ELSE Left + 1

ProtocolInit ==
  /\ \E d \in Deliveries : response = d[1] /\ output = d[2] /\ bounds = d[3]
  /\ gzip \in BOOLEAN
  /\ wireBytes = 0 /\ decodedBytes = 0 /\ texts = <<>>
  /\ reader = [phase |-> "hello", failure |-> "none", record |-> <<>>, lines |-> <<>>,
               pieces |-> NoPieces, spools |-> [k \in {"fact", "symbol", "piece"} |-> <<>>]]

\* A chunk of output arrives: n bytes of it once decoded, any number if compressed.
Feed ==
  /\ reader.failure = "none" /\ reader.phase # "built"
  /\ \E n \in 1 .. Len(output) - decodedBytes :
       LET wire == wireBytes + (IF gzip THEN 1 ELSE n)
           taken == IF gzip THEN Asked(n) ELSE n
       IN  /\ wireBytes' = wire
           /\ IF wire > bounds.wire
              THEN reader' = Failed(reader, "limit") /\ UNCHANGED decodedBytes
              ELSE /\ decodedBytes' = decodedBytes + taken
                   /\ reader' = IF taken > Left THEN Failed(reader, "limit")
                                ELSE ReadBytes(reader, SubSeq(output, decodedBytes + 1,
                                                              decodedBytes + taken))
  /\ UNCHANGED <<response, output, bounds, gzip, texts>>

\* The output has ended: the response must be complete and whole.
Finish ==
  /\ decodedBytes = Len(output) /\ reader.failure = "none"
  /\ reader.phase \notin {"read", "built"}
  /\ reader' = IF reader.record = <<>> /\ reader.phase = "complete"
               THEN [reader EXCEPT !.phase = "read"] ELSE Failed(reader, "protocol")
  /\ UNCHANGED <<response, output, bounds, gzip, wireBytes, decodedBytes, texts>>

\* A symbol that is not finished takes one piece more.
TakePiece(s, r) ==
  IF s.done \/ ~s.ok THEN s
  ELSE LET next == AcceptPiece(s.c, r)
       IN  [c |-> next.c, ok |-> next.ok, done |-> next.done, text |-> next.text,
            used |-> s.used + 1]

\* What a symbol takes from the pieces that are left.
Taken(symbol, left) ==
  LET first == AcceptPiece(NoPieces, symbol)
      taken[i \in 0 .. Len(left)] ==
        IF i = 0 THEN [c |-> first.c, ok |-> first.ok, done |-> first.done, text |-> first.text,
                       used |-> 0]
        ELSE TakePiece(taken[i - 1], left[i])
  IN  taken[Len(left)]

\* A symbol of the spool takes its pieces from the spool of pieces.
TakePieces(b, symbol) ==
  LET end == Taken(symbol, b.left)
  IN  IF ~b.ok \/ ~end.ok \/ ~end.done THEN [b EXCEPT !.ok = FALSE]
      ELSE [ok |-> TRUE, left |-> SubSeq(b.left, end.used + 1, Len(b.left)),
            texts |-> Append(b.texts, <<symbol.key, end.text>>)]

Assembled(symbols, pieces) ==
  LET assembled[i \in 0 .. Len(symbols)] ==
        IF i = 0 THEN [ok |-> TRUE, left |-> pieces, texts |-> <<>>]
        ELSE TakePieces(assembled[i - 1], symbols[i])
  IN  assembled[Len(symbols)]

Build ==
  /\ reader.phase = "read" /\ reader.failure = "none"
  /\ LET built == Assembled(reader.spools["symbol"], reader.spools["piece"])
     IN IF built.ok /\ built.left = <<>>
         THEN texts' = built.texts /\ reader' = [reader EXCEPT !.phase = "built"]
         ELSE reader' = Failed(reader, "protocol") /\ UNCHANGED texts
  /\ UNCHANGED <<response, output, bounds, gzip, wireBytes, decodedBytes>>

ProtocolNext == Feed \/ Finish \/ Build

ProtocolSpec == ProtocolInit /\ [][ProtocolNext]_protocolVars
-----------------------------------------------------------------------------
\* The lines of the output, with no chunks and no limits: those that are whole after
\* each of its bytes, and the one that has begun.
LineStep(s, b) ==
  IF b = 0 THEN [all |-> Append(s.all, s.line), line |-> <<>>]
  ELSE [all |-> s.all, line |-> Append(s.line, b)]

Split(bytes) ==
  LET split[i \in 0 .. Len(bytes)] ==
        IF i = 0 THEN [all |-> <<>>, line |-> <<>>] ELSE LineStep(split[i - 1], bytes[i])
  IN  split

Lines(bytes) == Split(bytes)[Len(bytes)].all

\* Every record has a line of its own, and no limit is exceeded.
WithinLimits ==
  /\ wireBytes <= bounds.wire /\ Len(output) <= bounds.decoded
  /\ \A line \in Range(Lines(output)) : Len(line) <= bounds.record
OutputIsIntact ==
  /\ Split(output)[Len(output)].line = <<>> /\ Len(Lines(output)) = Len(response)
  /\ \A i \in DOMAIN response : Range(Lines(output)[i]) = {i}

\* The pieces behind a record are the texts it declares, in order and numbered.
PiecesBehind(i) ==
  LET ends == {j \in i .. Len(response) : \A k \in i + 1 .. j : response[k].kind = "piece"}
  IN  SubSeq(response, i + 1, i + Cardinality(ends) - 1)
PlaceOf(f) == CHOOSE n \in DOMAIN FieldOrder : FieldOrder[n] = f
DeclaresItsPieces(i) ==
  LET pieces == PiecesBehind(i)
      declared == response[i].pieces
      Own(f) == SelectSeq(pieces, LAMBDA r : r.field = f)
  IN  /\ DOMAIN declared \subseteq (IF response[i].kind = "symbol" THEN Fields ELSE {})
      /\ \A r \in Range(pieces) :
           r.key = response[i].key /\ r.field \in DOMAIN declared /\ r.text # <<>>
      /\ \A j, k \in DOMAIN pieces : j < k => PlaceOf(pieces[j].field) <= PlaceOf(pieces[k].field)
      /\ \A f \in DOMAIN declared :
           /\ declared[f] # <<>>
           /\ declared[f] = FlattenSeq([k \in DOMAIN Own(f) |-> Own(f)[k].text])
           /\ \A k \in DOMAIN Own(f) : Own(f)[k].index = k - 1

ResponseIsWhole ==
  LET last == Len(response)
  IN  /\ last > 2 /\ response[1].kind = "hello" /\ response[2].kind = "begin"
      /\ response[last].kind = "complete" /\ response[last].success
      /\ \A i \in 3 .. last - 1 :
           \/ response[i].kind \in {"fact", "symbol"} /\ DeclaresItsPieces(i)
           \/ response[i].kind = "piece" /\ i > 3

\* What is whole and within the limits is never refused, wherever its output is cut and
\* even if it has exactly the size of a limit (the decoder asks for one byte more than
\* the limit leaves; a text ends when its declared size is reached); and nothing else is
\* accepted.
ExactlyWholeIsAccepted ==
  LET whole == ResponseIsWhole /\ OutputIsIntact /\ WithinLimits
  IN  /\ whole => reader.failure = "none"
      /\ reader.phase = "built" => whole

\* However the output is cut into chunks, the records read are its lines, in order;
\* an accepted response is read to its end, unfinished lines included; and at most one
\* byte past the limit is ever decoded (_JsonlStreamDecoder).
DecodingIsExact ==
  /\ IsPrefix(reader.lines, Lines(output))
  /\ reader.phase \in {"read", "built"} =>
       reader.lines = Lines(output) /\ Split(output)[Len(output)].line = <<>>
  /\ gzip => decodedBytes <= bounds.decoded + 1

\* A symbol of the batch has the text its analyzer split, whatever was lost, repeated
\* or exchanged on the way, and no piece is left over ("without trusting declared
\* sizes", _SymbolTextChunks).
SymbolTextIsWhole ==
  reader.phase = "built" =>
    /\ Len(texts) = Len(reader.spools["symbol"])
    /\ \A i \in DOMAIN texts :
         LET r == reader.spools["symbol"][i] IN texts[i] = <<r.key, r.pieces>>

\* Whether a response is refused depends on the response and its limits alone, never on
\* how it is cut, and what is accepted has the texts its symbols declare.
ResponsesAreExact == SymbolTextIsWhole /\ ExactlyWholeIsAccepted
=============================================================================
