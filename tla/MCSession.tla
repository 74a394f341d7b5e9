----------------------------- MODULE MCSession ------------------------------
(***************************************************************************)
(* An instance of Session: a listed statement without rows, one with two   *)
(* rows, and an unlisted query whose first row begins like a terminator;   *)
(* and the operators of Wire checked against what they are for, over the   *)
(* boundaries of the encoding.                                             *)
(***************************************************************************)
EXTENDS Session

MCStmts == {"none", "two"}
MCLeadsOf == [q \in Selects |-> CASE q = "none" -> << >>
                                  [] q = "two" -> <<"short", "null">>
                                  [] OTHER -> <<"huge">>]

\* Both sides of every change of width, and the largest number TLC has.
Numbers == {0, 250, 251, 252, 255, 256, 65535, 65536, 16777215, 16777216, 2147483647}
\* Packets of up to three bytes, and ids that wrap.
Max3 == 3
Ids == {0, 1, 254, 255}
\* Every result of up to two rows, with one column.
SmallSets ==
  {ResultSet(Columns("SELECT"), [i \in 1 .. Len(l) |-> [of |-> "SELECT", lead |-> l[i]]], s, w) :
     l \in UNION {[1 .. n -> Leads] : n \in 0 .. 2}, s \in Statuses, w \in 0 .. 1}

\* readLenEnc() finds the number putLenEnc() wrote, and none in anything shorter.
NumbersRoundTrip ==
  \A x \in Numbers :
    LET bytes == putLenEnc(x)
    IN  /\ readLenEnc(bytes \o <<7>>) = [value |-> x, pos |-> Len(bytes)]
        /\ \A n \in 0 .. Len(bytes) - 1 : readLenEnc(SubSeq(bytes, 1, n)).value = -1

\* A message comes back whole, with the id of its last packet and what follows it
\* untouched; no part of it is taken for a message; and renumber() gives it the ids it
\* would have been sent with.
MessagesRoundTrip ==
  \A len \in 0 .. 3 * Max3 + 1, seq \in Ids :
    LET packets == encodeMessage(len, seq, Max3)
        next == encodeMessage(1, 0, Max3)
        m == ReadMessage(packets \o next, Max3)
    IN  /\ m = [whole |-> TRUE, len |-> len, last_seq |-> Last(packets).seq, rest |-> next]
        /\ \A n \in 0 .. Len(packets) - 1 : ~ReadMessage(SubSeq(packets, 1, n), Max3).whole
        /\ \A to \in Ids : renumber(packets, to) = encodeMessage(len, to, Max3)

\* emit() numbers the packets of a result set without a gap while no message of it
\* fills a packet, which BNCL_STORE_MAX sees to.
IdsAreConsecutive ==
  \A a \in 0 .. Max3 - 1, b \in 0 .. Max3 - 1, seq \in Ids :
    LET packets == emit(<<a, b, a>>, seq, Max3)
    IN  \A i \in 1 .. Len(packets) : packets[i].seq = (seq + i - 1) % 256

\* parseResultSet() finds what encodeResultSet() wrote, under either framing, and one
\* whole response is enough for inferCaps() to tell which it is.
ResultSetsRoundTrip ==
  \A rs \in SmallSets, framing \in BOOLEAN :
    LET msgs == encodeResultSet(rs, framing)
    IN  /\ parseResultSet(msgs, framing) = [ok |-> TRUE, rs |-> rs]
        /\ inferCaps(msgs) = IF framing THEN "dep" ELSE "plain"
        /\ \A n \in 0 .. Len(msgs) - 1 : ~parseResultSet(SubSeq(msgs, 1, n), framing).ok

\* The codec undoes itself.  This says nothing of the state, and is looked at in the
\* first states only.
CodecRoundTrips ==
  cmds = 0 => NumbersRoundTrip /\ MessagesRoundTrip /\ IdsAreConsecutive /\ ResultSetsRoundTrip
=============================================================================
