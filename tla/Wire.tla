-------------------------------- MODULE Wire --------------------------------
(***************************************************************************)
(* The MySQL protocol as far as the agent and the daemon read and write    *)
(* it (src/common/mysql/protocol.cpp, src/common/mysql/resultset.cpp):     *)
(* length-encoded integers, messages cut into packets, responses told      *)
(* apart by their first byte, result sets parsed and written under the     *)
(* two framings.                                                           *)
(*                                                                         *)
(* A message is what the code can tell about its payload: the first byte,  *)
(* the length, how many length-encoded strings can be read from its start, *)
(* and what it says.  A framing is dep, TRUE where CLIENT_DEPRECATE_EOF    *)
(* was negotiated.                                                         *)
(***************************************************************************)
EXTENDS Integers, Sequences, FiniteSets, SequencesExt, FiniteSetsExt

-----------------------------------------------------------------------------
(* Length-encoded integers.                                                *)

\* w bytes of x, low byte first; x is below 2^31 here.
LittleEndian(x, w) ==
  [i \in 1 .. w |-> IF i <= 4 THEN (x \div 256 ^ (i - 1)) % 256 ELSE 0]

FromLittleEndian(bytes) ==
  FoldLeftDomain(LAMBDA sum, i : IF bytes[i] = 0 THEN sum ELSE sum + bytes[i] * 256 ^ (i - 1),
                 0, bytes)

\* Mutant of putLenEnc: the widest one-byte value is off by one.
putLenEncLate(x) ==
  IF x <= 251 THEN <<x>>
  ELSE IF x <= 65535 THEN <<252>> \o LittleEndian(x, 2)
  ELSE IF x <= 16777215 THEN <<253>> \o LittleEndian(x, 3)
  ELSE <<254>> \o LittleEndian(x, 8)

putLenEnc(x) ==
  IF x < 251 THEN <<x>>
  ELSE IF x <= 65535 THEN <<252>> \o LittleEndian(x, 2)
  ELSE IF x <= 16777215 THEN <<253>> \o LittleEndian(x, 3)
  ELSE <<254>> \o LittleEndian(x, 8)

\* The bytes after the first one; 0xFB and 0xFF begin no number.
Width(first) ==
  CASE first < 251 -> 0
    [] first = 252 -> 2
    [] first = 253 -> 3
    [] first = 254 -> 8
    [] OTHER -> -1

\* The value at the start of bytes and where it ends, or -1 when it is cut short.
readLenEnc(bytes) ==
  LET w == IF bytes = << >> THEN -1 ELSE Width(Head(bytes))
  IN  IF w = -1 \/ Len(bytes) < 1 + w THEN [value |-> -1, pos |-> 0]
      ELSE IF w = 0 THEN [value |-> Head(bytes), pos |-> 1]
      ELSE [value |-> FromLittleEndian(SubSeq(bytes, 2, 1 + w)), pos |-> 1 + w]
-----------------------------------------------------------------------------
(* Messages and packets.  max is kMaxPayload.                              *)

\* encodeMessage(): full packets, then a shorter one, which is empty when the
\* length is a multiple of max.
encodeMessage(len, seq, max) ==
  LET full == len \div max
  IN  [i \in 1 .. full + 1 |-> [plen |-> IF i <= full THEN max ELSE len % max,
                                seq  |-> (seq + i - 1) % 256]]

\* MessageReader::next(): the packets up to the first that is not full, or nothing
\* while they have not all arrived.
ReadMessage(packets, max) ==
  LET ends == {i \in 1 .. Len(packets) : packets[i].plen # max}
  IN  IF ends = {} THEN [whole |-> FALSE, len |-> 0, last_seq |-> 0, rest |-> packets]
      ELSE LET last == Min(ends)
           IN  [whole |-> TRUE,
                len |-> (last - 1) * max + packets[last].plen,
                last_seq |-> packets[last].seq,
                rest |-> SubSeq(packets, last + 1, Len(packets))]

\* renumber(): one id per packet.
renumber(packets, seq) ==
  [i \in 1 .. Len(packets) |-> [packets[i] EXCEPT !.seq = (seq + i - 1) % 256]]

\* emit() for one message after the other: one id per message, however many packets
\* it takes.
emit(lens, seq, max) ==
  FlattenSeq([i \in 1 .. Len(lens) |-> encodeMessage(lens[i], (seq + i - 1) % 256, max)])
-----------------------------------------------------------------------------
(* What a server sends.                                                    *)

\* The status flags SERVER_STATUS_IN_TRANS and SERVER_MORE_RESULTS_EXISTS.
Statuses == [txn : BOOLEAN, more : BOOLEAN]
NoStatus == [txn |-> FALSE, more |-> FALSE]

Message(byte, size, fields, val) ==
  [byte |-> byte, size |-> size, fields |-> fields, val |-> val]

\* A column count; a column definition, which begins with six strings.
CountMessage(n) == Message(n, 1, 0, [cols |-> n])
ColumnMessage(c) == Message(3, 22, 6, c)

\* A row begins with its first value: NULL, an empty string, a short one, or one of
\* at least 2^24 bytes, whose length takes the 0xFE form.
Leads == {"null", "empty", "short", "huge"}
RowMessage(r) ==
  Message(CASE r.lead = "null" -> 251 [] r.lead = "empty" -> 0
            [] r.lead = "short" -> 1  [] r.lead = "huge" -> 254,
          IF r.lead = "huge" THEN 9 ELSE IF r.lead = "short" THEN 2 ELSE 1,
          1, r)

\* Five bytes with the warnings first; and an OK packet, seven bytes, whose header
\* is 0xFE at the end of a result set and 0x00 anywhere else.
EofMessage(status, warnings) == Message(254, 5, 0, [status |-> status, warnings |-> warnings])
OkMessage(byte, status, warnings) ==
  Message(byte, 7, IF byte = 0 THEN 3 ELSE 0, [status |-> status, warnings |-> warnings])
ErrMessage == Message(255, 9, 0, [err |-> TRUE])
InfileMessage == Message(251, 5, 0, [infile |-> TRUE])
-----------------------------------------------------------------------------
(* Telling responses apart.                                                *)

\* classifyResponse().
classifyResponse(m, dep) ==
  CASE m.size = 0 -> "Unknown"
    [] m.byte = 255 -> "Err"
    [] m.byte = 251 -> "LocalInfile"
    [] m.byte = 0 -> "Ok"
    [] m.byte = 254 /\ m.size < 9 -> IF dep THEN "Ok" ELSE "Eof"
    [] OTHER -> "ResultSet"

\* A short packet that begins with 0xFE ends the rows; a long one is a row.
IsTerminator(m) == m.byte = 254 /\ m.size < 9

\* parseOk() fails on a five-byte EOF; parseEof() finds the status of both.
parseOk(m) == m.byte \in {0, 254} /\ m.size >= 7
parseEof(m) == m.byte = 254 /\ m.size >= 5
-----------------------------------------------------------------------------
(* Result sets.                                                            *)

ResultSet(cols, rows, status, warnings) ==
  [cols |-> cols, rows |-> rows, status |-> status, warnings |-> warnings]

\* terminator().
terminator(rs, dep) ==
  IF dep THEN OkMessage(254, rs.status, rs.warnings)
         ELSE EofMessage(rs.status, rs.warnings)

\* encodeResultSet(): without DEPRECATE_EOF an EOF stands before the rows too.
encodeResultSet(rs, dep) ==
  <<CountMessage(Len(rs.cols))>>
    \o [i \in 1 .. Len(rs.cols) |-> ColumnMessage(rs.cols[i])]
    \o (IF dep THEN << >> ELSE <<EofMessage(rs.status, rs.warnings)>>)
    \o [i \in 1 .. Len(rs.rows) |-> RowMessage(rs.rows[i])]
    \o <<terminator(rs, dep)>>

\* parseColumn(): a message that begins with six strings is a column definition.
parseColumn(m) == m.fields >= 6

\* parseRow(): whatever begins with enough strings is a row, an OK packet among them.
parseRow(m) ==
  [of |-> IF "of" \in DOMAIN m.val THEN m.val.of ELSE "OK",
   lead |-> CASE m.byte = 251 -> "null" [] m.byte = 0 -> "empty"
              [] m.byte = 254 -> "huge" [] OTHER -> "short"]

NotParsed == [ok |-> FALSE, rs |-> ResultSet(<< >>, << >>, NoStatus, 0)]

\* parseResultSet(): the count, the columns, without DEPRECATE_EOF one packet of
\* whatever kind, and the rows up to the terminator.  Bytes after it are not looked
\* at.  Under DEPRECATE_EOF the status of a five-byte terminator is not found; the
\* other way round it is, and the warnings are not.
parseResultSet(msgs, dep) ==
  LET n == Head(msgs).byte
      first == n + 2 + (IF dep THEN 0 ELSE 1)
      stops == {j \in first .. Len(msgs) :
                  \/ msgs[j].byte = 255 \/ IsTerminator(msgs[j])
                  \/ msgs[j].fields < n}
      last == Min(stops)
      t == msgs[last]
  IN  IF \/ msgs = << >>
         \/ classifyResponse(Head(msgs), dep) # "ResultSet"
         \/ Width(n) # 0
         \/ Len(msgs) < first - 1
         \/ \E i \in 2 .. n + 1 : ~parseColumn(msgs[i])
         \/ stops = {}
         \/ ~IsTerminator(t)
        THEN NotParsed
        ELSE [ok |-> TRUE,
              rs |-> ResultSet([i \in 1 .. n |-> msgs[i + 1].val],
                               [i \in 1 .. last - first |-> parseRow(msgs[first + i - 1])],
                               IF dep /\ ~parseOk(t) THEN NoStatus ELSE t.val.status,
                               IF dep = parseOk(t) THEN t.val.warnings ELSE 0)]
-----------------------------------------------------------------------------
(* inferCaps() (src/uclient/agent.cpp): a captured response is read under  *)
(* both framings, and the one that finds more rows is believed.            *)

Framings == {"unknown", "plain", "dep"}

\* Mutant of inferCaps: a tie is settled the other way.
inferCapsTie(msgs) ==
  LET plain == parseResultSet(msgs, FALSE)
      dep == parseResultSet(msgs, TRUE)
  IN  CASE plain.ok /\ dep.ok -> IF Len(plain.rs.rows) > Len(dep.rs.rows) THEN "plain" ELSE "dep"
        [] plain.ok /\ ~dep.ok -> "plain"
        [] ~plain.ok /\ dep.ok -> "dep"
        [] OTHER -> "unknown"

inferCaps(msgs) ==
  LET plain == parseResultSet(msgs, FALSE)
      dep == parseResultSet(msgs, TRUE)
  IN  CASE plain.ok /\ dep.ok -> IF Len(plain.rs.rows) >= Len(dep.rs.rows) THEN "plain" ELSE "dep"
        [] plain.ok /\ ~dep.ok -> "plain"
        [] ~plain.ok /\ dep.ok -> "dep"
        [] OTHER -> "unknown"
=============================================================================
