---------------------------- MODULE PacketBuffer ----------------------------
(***************************************************************************)
(* The arithmetic of sequence numbers and the list ReliablePacketBuffer of *)
(* the engine's network layer, src/engine/luanti/src/network/mtp.          *)
(* A packet is a record with a field seq; the list is a sequence.          *)
(***************************************************************************)
EXTENDS Integers, Sequences, SequencesExt

CONSTANTS
  SEQNUM_MAX,               \* 65535 in the source
  MAX_RELIABLE_WINDOW_SIZE  \* how far ahead a receiver accepts: 0x8000

ASSUME SeqnumAssumption ==
  /\ MAX_RELIABLE_WINDOW_SIZE \in Nat \ {0}
  /\ SEQNUM_MAX + 1 = 2 * MAX_RELIABLE_WINDOW_SIZE
  /\ SEQNUM_MAX \in Nat

Modulus == SEQNUM_MAX + 1
Seqnums == 0..SEQNUM_MAX

\* a + n of a u16.
Plus(s, n) == (s + n) % Modulus

seqnum_higher(totest, base) ==
  IF totest > base THEN totest - base <= SEQNUM_MAX \div 2
                   ELSE base - totest > SEQNUM_MAX \div 2

seqnum_in_window(seqnum, next) ==
  LET end == Plus(next, MAX_RELIABLE_WINDOW_SIZE)
  IN  IF next < end THEN seqnum >= next /\ seqnum < end
                    ELSE seqnum < end \/ seqnum >= next

\* insert's loops step over a packet numbered s: the numbers up to the
\* wrap come first, those after it behind them.
Precedes(s, seqnum, next_expected) ==
  IF seqnum < next_expected THEN s < seqnum \/ s >= next_expected
                            ELSE s < seqnum /\ s >= next_expected

\* How many packets at the front of the list the loops step over.
Skipped(list, seqnum, next_expected) ==
  CHOOSE k \in 0..Len(list) :
    /\ \A i \in 1..k : Precedes(list[i].seq, seqnum, next_expected)
    /\ k < Len(list) => ~Precedes(list[k + 1].seq, seqnum, next_expected)

\* A number outside the window, the next one and a resent packet change nothing.
Insert(list, p, next_expected) ==
  LET k == Skipped(list, p.seq, next_expected)
  IN  IF \/ ~seqnum_in_window(p.seq, next_expected)
         \/ p.seq = next_expected
         \/ k < Len(list) /\ list[k + 1].seq = p.seq
      THEN list
      ELSE InsertAt(list, k + 1, p)

Numbered(list, seqnum) == {i \in DOMAIN list : list[i].seq = seqnum}

\* popSeqnum of a number the list holds.
Pop(list, seqnum) == RemoveAt(list, CHOOSE i \in Numbered(list, seqnum) : TRUE)
=============================================================================
