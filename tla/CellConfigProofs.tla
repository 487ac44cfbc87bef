---------- MODULE CellConfigProofs ----------
(***************************************************************************)
(* Proofs about the cell and frequency configuration, for tables of any    *)
(* size and any sets of cells, beams and bands.                            *)
(***************************************************************************)
EXTENDS CellConfig, TxGuardProofs, FiniteSetTheorems, WellFoundedInduction

--------------------
(* The inductive invariant.                                                 *)

(* The frequency of the IE in hand is stored as effective.                  *)
Stored == \E i \in SlotsOf(ie.cell) : \E j \in FreqSlots :
              /\ freqs[i][j].active /\ freqs[i][j].sent_to_antenna
              /\ freqs[i][j].beam = ie.beam /\ freqs[i][j].band = ie.band

(* During the unlocked wait the IE is an establish whose band the antenna   *)
(* was given and whose record is in the table.                              *)
WaitInv ==
    worker_pc = "wait" =>
        /\ ie.type = "freq" /\ ie.flag = "establish" /\ ie.band \in delivered
        /\ KnownCell
        /\ \E j \in Relocated : ~freqs[TheCell][j].sent_to_antenna

(* A handler that gets as far as the transmit switch has succeeded.         *)
ApplyInv ==
    worker_pc = "apply" =>
        /\ result = "SUCCESS"
        /\ ie.type = "freq" /\ ie.flag = "establish" => Stored

TablesInv == /\ cells \in [CellSlots -> CellRec \cup {NoCell}]
             /\ freqs \in [CellSlots -> [FreqSlots -> FreqRec \cup {NoFreq}]]
             /\ TablesConsistent

CellInv == CellTypeOK /\ TablesConsistent /\ SentWasDelivered
           /\ ReplyTruthful /\ WaitInv /\ ApplyInv

--------------------
(* The loops of cell_config.c that look for a slot find one when there is   *)
(* one.                                                                     *)
LEMMA FirstIn == ASSUME NEW S \in SUBSET Nat, S # {} PROVE First(S) \in S
<1> DEFINE R == OpToRel(<, Nat)
<1>1. IsWellFoundedOn(R, Nat)
    BY NatLessThanWellFounded, Zenon
<1> HIDE DEF R
<1>2. \E x \in S : \A y \in S : ~(<<y, x>> \in R)
    BY <1>1, WFMin
<1>3. PICK x \in S : \A y \in S : ~(<<y, x>> \in R)
    BY <1>2
<1>4. \A y \in S : x <= y
    <2> TAKE y \in S
    <2>1. ~(y < x)
        BY <1>3 DEF R, OpToRel
    <2>2. QED
        BY <2>1
<1>5. QED
    BY <1>3, <1>4 DEF First

(* The slot cell_config.c stores a frequency in is a slot of the table: the *)
(* beam's own one, or a free one when the beam is new; no other record has  *)
(* this beam.                                                               *)
LEMMA SlotForIn ==
    ASSUME UniqueBeams, NEW i \in CellSlots, NEW b, HasRoom(i, b)
    PROVE  /\ SlotFor(i, b) \in FreqSlots
           /\ freqs[i][SlotFor(i, b)].active => freqs[i][SlotFor(i, b)].beam = b
           /\ \A k \in FreqSlots \ {SlotFor(i, b)} : freqs[i][k].active => freqs[i][k].beam # b
<1>1. BeamsOf(i, b) \in SUBSET Nat /\ FreeFreqs(i) \in SUBSET Nat
    BY CellAssumption DEF BeamsOf, FreeFreqs, FreqSlots
<1>2. CASE BeamsOf(i, b) # {}
    <2>1. SlotFor(i, b) \in BeamsOf(i, b)
        BY <1>1, <1>2, FirstIn DEF SlotFor
    <2>2. QED
        BY <2>1 DEF BeamsOf, UniqueBeams
<1>3. CASE BeamsOf(i, b) = {}
    <2>1. SlotFor(i, b) \in FreeFreqs(i)
        BY <1>1, <1>3, FirstIn DEF SlotFor, HasRoom
    <2>2. QED
        BY <1>3, <2>1 DEF BeamsOf, FreeFreqs
<1>4. QED
    BY <1>2, <1>3

(* Changing one slot of a cell's frequencies changes the number of active   *)
(* records by what that slot gains or loses (freq_count++ and --).          *)
ActiveFreqs(row) == {j \in FreqSlots : row[j].active}

(* A row of the frequency table has at most MAX_FREQS_PER_CELL frequencies. *)
LEMMA ActiveFinite ==
    ASSUME NEW row
    PROVE  /\ IsFiniteSet(ActiveFreqs(row))
           /\ Cardinality(ActiveFreqs(row)) \in 0..MAX_FREQS_PER_CELL
<1>1. IsFiniteSet(FreqSlots) /\ Cardinality(FreqSlots) = MAX_FREQS_PER_CELL
    BY FS_Interval, CellAssumption DEF FreqSlots
<1>2. ActiveFreqs(row) \in SUBSET FreqSlots
    BY DEF ActiveFreqs
<1>3. IsFiniteSet(ActiveFreqs(row)) /\ Cardinality(ActiveFreqs(row)) <= MAX_FREQS_PER_CELL
    BY <1>1, <1>2, FS_Subset
<1>4. Cardinality(ActiveFreqs(row)) \in Nat
    BY <1>3, FS_CardinalityType
<1>5. QED
    BY <1>3, <1>4, CellAssumption

(* store_freq_info keeps the tables consistent and leaves exactly one       *)
(* record with the IE's beam: the new one.                                  *)
LEMMA StoreFreqTables ==
    ASSUME TablesInv, ie \in FreqIEs, NEW i \in CellSlots, cells[i].active,
           NEW sent \in BOOLEAN, HasRoom(i, ie.beam), StoreFreq(i, sent)
    PROVE  /\ TablesInv'
           /\ \A k \in CellSlots : /\ cells'[k].active <=> cells[k].active
                                   /\ cells[k].active => cells'[k].id = cells[k].id
           /\ \E j \in FreqSlots :
                /\ freqs' = [freqs EXCEPT ![i][j] =
                                [active |-> TRUE, beam |-> ie.beam, band |-> ie.band,
                                 sent_to_antenna |-> sent]]
                /\ freqs[i][j].active => freqs[i][j].beam = ie.beam
                /\ \A k \in FreqSlots \ {j} : freqs[i][k].active => freqs[i][k].beam # ie.beam
<1> DEFINE j == SlotFor(i, ie.beam)
           f == [active |-> TRUE, beam |-> ie.beam, band |-> ie.band, sent_to_antenna |-> sent]
<1>1. /\ j \in FreqSlots
      /\ freqs[i][j].active => freqs[i][j].beam = ie.beam
      /\ \A k \in FreqSlots \ {j} : freqs[i][k].active => freqs[i][k].beam # ie.beam
    BY SlotForIn DEF TablesInv, TablesConsistent
<1>2. /\ freqs' = [freqs EXCEPT ![i][j] = f]
      /\ cells' = IF freqs[i][j].active THEN cells ELSE [cells EXCEPT ![i].freq_count = @ + 1]
    BY DEF StoreFreq
<1> HIDE DEF j
<1>3. f \in FreqRec /\ f.active /\ f.beam = ie.beam
    BY DEF FreqRec, FreqIEs
<1> HIDE DEF f
<1>4. /\ freqs' \in [CellSlots -> [FreqSlots -> FreqRec \cup {NoFreq}]]
      /\ freqs'[i][j] = f
      /\ \A k \in FreqSlots \ {j} : freqs'[i][k] = freqs[i][k]
      /\ \A k \in CellSlots \ {i} : freqs'[k] = freqs[k]
    BY <1>1, <1>2, <1>3 DEF TablesInv
<1>5. /\ cells[i] \in CellRec
      /\ cells[i].freq_count = Cardinality(ActiveFreqs(freqs[i]))
    BY DEF TablesInv, NoCell, TablesConsistent, CountExact, ActiveFreqs
<1>6. /\ IsFiniteSet(ActiveFreqs(freqs[i])) /\ Cardinality(ActiveFreqs(freqs[i])) \in 0..MAX_FREQS_PER_CELL
      /\ Cardinality(ActiveFreqs(freqs'[i])) \in 0..MAX_FREQS_PER_CELL
    BY ActiveFinite
<1>7. ActiveFreqs(freqs'[i]) = ActiveFreqs(freqs[i]) \cup {j}
    BY <1>1, <1>3, <1>4 DEF ActiveFreqs
<1>8. Cardinality(ActiveFreqs(freqs'[i])) = IF freqs[i][j].active THEN Cardinality(ActiveFreqs(freqs[i]))
                                     ELSE Cardinality(ActiveFreqs(freqs[i])) + 1
    BY <1>1, <1>6, <1>7, FS_AddElement DEF ActiveFreqs
<1>9. /\ cells' \in [CellSlots -> CellRec \cup {NoCell}]
      /\ cells'[i].freq_count = Cardinality(ActiveFreqs(freqs'[i]))
      /\ \A k \in CellSlots \ {i} : cells'[k] = cells[k]
      /\ cells'[i].active /\ cells'[i].id = cells[i].id
    <2>1. CASE freqs[i][j].active
        BY <1>2, <1>5, <1>8, <2>1 DEF TablesInv
    <2>2. CASE ~freqs[i][j].active
        <3>1. cells[i].freq_count + 1 \in 0..MAX_FREQS_PER_CELL
            BY <1>5, <1>6, <1>8, <2>2
        <3>2. cells' = [cells EXCEPT ![i] = [cells[i] EXCEPT !.freq_count = @ + 1]]
            BY <1>2, <2>2
        <3>3. [cells[i] EXCEPT !.freq_count = @ + 1] \in CellRec
            BY <1>5, <3>1 DEF CellRec
        <3>4. QED
            BY <1>5, <1>8, <2>2, <3>2, <3>3 DEF TablesInv, CellRec
    <2>3. QED
        BY <2>1, <2>2
<1>10. \A k \in CellSlots : /\ cells'[k].active <=> cells[k].active
                            /\ cells[k].active => cells'[k].id = cells[k].id
    BY <1>9
<1>11. UniqueCells'
    <2>1. UniqueCells
        BY DEF TablesInv, TablesConsistent
    <2> SUFFICES ASSUME NEW p \in CellSlots, NEW q \in CellSlots,
                        cells'[p].active, cells'[q].active, cells'[p].id = cells'[q].id
                 PROVE  p = q
        BY DEF UniqueCells
    <2>2. cells[p].active /\ cells[q].active /\ cells[p].id = cells[q].id
        BY <1>10
    <2>3. QED
        BY <2>1, <2>2 DEF UniqueCells
<1>12. UniqueBeams'
    <2>1. UniqueBeams
        BY DEF TablesInv, TablesConsistent
    <2> SUFFICES ASSUME NEW p \in CellSlots, NEW q \in FreqSlots, NEW r \in FreqSlots,
                        freqs'[p][q].active, freqs'[p][r].active,
                        freqs'[p][q].beam = freqs'[p][r].beam
                 PROVE  q = r
        BY DEF UniqueBeams
    <2>2. CASE p # i
        BY <1>4, <2>1, <2>2 DEF UniqueBeams
    <2>3. CASE p = i
        <3>1. q = j <=> r = j
            BY <1>1, <1>3, <1>4, <2>3
        <3>2. QED
            BY <1>4, <2>1, <2>3, <3>1 DEF UniqueBeams
    <2>4. QED
        BY <2>2, <2>3
<1>13. CountExact'
    BY <1>4, <1>9 DEF TablesInv, TablesConsistent, CountExact, ActiveFreqs
<1>14. NoOrphans'
    BY <1>4, <1>9 DEF TablesInv, TablesConsistent, NoOrphans
<1>15. QED
    BY <1>1, <1>2, <1>4, <1>9, <1>10, <1>11, <1>12, <1>13, <1>14
       DEF TablesInv, TablesConsistent, f

(* find_cell finds the one slot of a known cell.                            *)
LEMMA TheCellIs ==
    ASSUME UniqueCells, KnownCell
    PROVE  /\ TheCell \in CellSlots /\ cells[TheCell].active /\ cells[TheCell].id = ie.cell
           /\ SlotsOf(ie.cell) = {TheCell}
<1>1. SlotsOf(ie.cell) \in SUBSET Nat
    BY CellAssumption DEF SlotsOf, CellSlots
<1>2. TheCell \in SlotsOf(ie.cell)
    BY <1>1, FirstIn DEF TheCell, KnownCell
<1>3. QED
    BY <1>2 DEF SlotsOf, UniqueCells

(* What store_freq_info means for the IE in hand: its record is there       *)
(* afterwards, effective exactly when it was stored as sent.                *)
LEMMA StoreFreqEffect ==
    ASSUME TablesInv, SentWasDelivered, ie \in FreqIEs, ie' = ie, KnownCell,
           NEW sent \in BOOLEAN, HasRoom(TheCell, ie.beam), StoreFreq(TheCell, sent),
           delivered \subseteq delivered', sent => ie.band \in delivered'
    PROVE  /\ TablesInv' /\ SentWasDelivered'
           /\ Stored' <=> sent
           /\ KnownCell'
           /\ \E j \in Relocated' : freqs'[TheCell'][j].sent_to_antenna = sent
<1> DEFINE i == TheCell
           f == [active |-> TRUE, beam |-> ie.beam, band |-> ie.band, sent_to_antenna |-> sent]
<1>1. i \in CellSlots /\ cells[i].active /\ cells[i].id = ie.cell /\ SlotsOf(ie.cell) = {i}
    BY TheCellIs DEF TablesInv, TablesConsistent
<1> HIDE DEF i
<1>2. /\ TablesInv'
      /\ \A k \in CellSlots : /\ cells'[k].active <=> cells[k].active
                              /\ cells[k].active => cells'[k].id = cells[k].id
      /\ \E j \in FreqSlots :
            /\ freqs' = [freqs EXCEPT ![i][j] = f]
            /\ \A k \in FreqSlots \ {j} : freqs[i][k].active => freqs[i][k].beam # ie.beam
    <2>1. HasRoom(i, ie.beam) /\ StoreFreq(i, sent)
        BY DEF i
    <2>2. QED
        BY <1>1, <2>1, StoreFreqTables
<1>3. PICK j \in FreqSlots :
            /\ freqs' = [freqs EXCEPT ![i][j] = f]
            /\ \A k \in FreqSlots \ {j} : freqs[i][k].active => freqs[i][k].beam # ie.beam
    BY <1>2
<1>4. f.active = TRUE /\ f.beam = ie.beam /\ f.band = ie.band /\ f.sent_to_antenna = sent
    OBVIOUS
<1> HIDE DEF f
<1>5. /\ freqs'[i][j] = f
      /\ \A k \in FreqSlots \ {j} : freqs'[i][k] = freqs[i][k]
      /\ \A k \in CellSlots \ {i} : freqs'[k] = freqs[k]
    BY <1>1, <1>3 DEF TablesInv
<1>6. SlotsOf(ie.cell)' = {i}
    BY <1>1, <1>2 DEF SlotsOf
<1>7. KnownCell' /\ TheCell' = i
    BY <1>1, <1>6 DEF KnownCell, TheCell, i
<1>8. j \in Relocated' /\ freqs'[TheCell'][j].sent_to_antenna = sent
    BY <1>4, <1>5, <1>7 DEF Relocated
<1>9. SentWasDelivered'
    <2> SUFFICES ASSUME NEW p \in CellSlots, NEW q \in FreqSlots,
                        freqs'[p][q].active, freqs'[p][q].sent_to_antenna
                 PROVE  freqs'[p][q].band \in delivered'
        BY DEF SentWasDelivered
    <2>1. CASE p = i /\ q = j
        BY <1>4, <1>5, <2>1
    <2>2. CASE ~(p = i /\ q = j)
        BY <1>5, <2>2 DEF SentWasDelivered
    <2>3. QED
        BY <2>1, <2>2
<1>10. Stored' <=> sent
    <2>1. ASSUME sent PROVE Stored'
        BY <1>4, <1>5, <1>6, <2>1 DEF Stored
    <2>2. ASSUME Stored' PROVE sent
        <3>1. PICK k \in FreqSlots : /\ freqs'[i][k].active /\ freqs'[i][k].sent_to_antenna
                                     /\ freqs'[i][k].beam = ie.beam
            BY <1>6, <2>2 DEF Stored
        <3>2. k = j
            BY <1>3, <1>5, <3>1
        <3>3. QED
            BY <1>4, <1>5, <3>1, <3>2
    <2>3. QED
        BY <2>1, <2>2
<1>11. QED
    BY <1>2, <1>7, <1>8, <1>9, <1>10

(* CELL_CFG_ESTABLISH of a new cell, in a slot that was free.               *)
LEMMA NewCellTables ==
    ASSUME TablesInv, ie \in CellIEs, SlotsOf(ie.cell) = {}, NEW i \in FreeCells,
           cells' = [cells EXCEPT ![i] = [active |-> TRUE, id |-> ie.cell, power |-> ie.power,
                                          ctype |-> ie.ctype, freq_count |-> 0]],
           freqs' = freqs
    PROVE  TablesInv'
<1> DEFINE c == [active |-> TRUE, id |-> ie.cell, power |-> ie.power,
                 ctype |-> ie.ctype, freq_count |-> 0]
<1>1. c \in CellRec /\ c.active = TRUE /\ c.id = ie.cell /\ c.freq_count = 0
    BY CellAssumption DEF CellRec, CellIEs
<1>2. cells' = [cells EXCEPT ![i] = c]
    OBVIOUS
<1> HIDE DEF c
<1>3. i \in CellSlots /\ ~cells[i].active
    BY DEF FreeCells
<1>4. /\ cells' \in [CellSlots -> CellRec \cup {NoCell}]
      /\ cells'[i] = c
      /\ \A k \in CellSlots \ {i} : cells'[k] = cells[k]
    BY <1>1, <1>2, <1>3 DEF TablesInv
<1>5. UniqueCells'
    <2>1. UniqueCells /\ \A k \in CellSlots : cells[k].active => cells[k].id # ie.cell
        BY DEF TablesInv, TablesConsistent, SlotsOf
    <2>2. QED
        BY <1>1, <1>4, <2>1 DEF UniqueCells
<1>6. UniqueBeams'
    BY DEF TablesInv, TablesConsistent, UniqueBeams
<1>7. CountExact'
    <2>1. {j \in FreqSlots : freqs[i][j].active} = {}
        BY <1>3 DEF TablesInv, TablesConsistent, NoOrphans, NoFreq
    <2>2. Cardinality({j \in FreqSlots : freqs[i][j].active}) = 0
        BY <2>1, FS_EmptySet
    <2>3. CountExact
        BY DEF TablesInv, TablesConsistent
    <2>4. QED
        BY <1>1, <1>4, <2>2, <2>3 DEF CountExact
<1>8. NoOrphans'
    BY <1>1, <1>4 DEF TablesInv, TablesConsistent, NoOrphans
<1>9. QED
    BY <1>4, <1>5, <1>6, <1>7, <1>8 DEF TablesInv, TablesConsistent

(* CELL_CFG_RECONFIG changes the power of a cell and nothing else.          *)
LEMMA ReconfigTables ==
    ASSUME TablesInv, ie \in CellIEs, NEW i \in SlotsOf(ie.cell),
           cells' = [cells EXCEPT ![i].power = ie.power], freqs' = freqs
    PROVE  TablesInv'
<1>1. i \in CellSlots /\ cells[i].active /\ cells[i] \in CellRec
    BY DEF SlotsOf, TablesInv, NoCell
<1> DEFINE c == [cells[i] EXCEPT !.power = ie.power]
<1>2. c \in CellRec /\ c.active /\ c.id = cells[i].id /\ c.freq_count = cells[i].freq_count
    BY <1>1 DEF CellRec, CellIEs
<1>3. cells' = [cells EXCEPT ![i] = c]
    BY <1>1 DEF TablesInv
<1> HIDE DEF c
<1>4. /\ cells' \in [CellSlots -> CellRec \cup {NoCell}]
      /\ cells'[i] = c
      /\ \A k \in CellSlots \ {i} : cells'[k] = cells[k]
    BY <1>1, <1>2, <1>3 DEF TablesInv
<1>5. \A k \in CellSlots : /\ cells'[k].active <=> cells[k].active
                           /\ cells[k].active => /\ cells'[k].id = cells[k].id
                                                 /\ cells'[k].freq_count = cells[k].freq_count
    BY <1>1, <1>2, <1>4
<1>6. UniqueCells /\ UniqueBeams /\ CountExact /\ NoOrphans
    BY DEF TablesInv, TablesConsistent
<1>7. UniqueCells'
    BY <1>5, <1>6 DEF UniqueCells
<1>8. UniqueBeams' /\ NoOrphans'
    BY <1>5, <1>6 DEF UniqueBeams, NoOrphans
<1>9. CountExact'
    BY <1>5, <1>6 DEF CountExact
<1>10. QED
    BY <1>4, <1>7, <1>8, <1>9 DEF TablesInv, TablesConsistent

(* CELL_CFG_DELETE empties the slot and its frequencies together.           *)
LEMMA DeleteCellTables ==
    ASSUME TablesInv, NEW i \in CellSlots,
           cells' = [cells EXCEPT ![i] = NoCell],
           freqs' = [freqs EXCEPT ![i] = [j \in FreqSlots |-> NoFreq]]
    PROVE  TablesInv'
<1>1. /\ cells' \in [CellSlots -> CellRec \cup {NoCell}]
      /\ cells'[i] = NoCell
      /\ \A k \in CellSlots \ {i} : cells'[k] = cells[k]
    BY DEF TablesInv
<1>2. /\ freqs' \in [CellSlots -> [FreqSlots -> FreqRec \cup {NoFreq}]]
      /\ freqs'[i] = [j \in FreqSlots |-> NoFreq]
      /\ \A k \in CellSlots \ {i} : freqs'[k] = freqs[k]
    BY DEF TablesInv
<1>3. ~cells'[i].active /\ \A j \in FreqSlots : freqs'[i][j] = NoFreq /\ ~freqs'[i][j].active
    BY <1>1, <1>2 DEF NoCell, NoFreq
<1>4. UniqueCells /\ UniqueBeams /\ CountExact /\ NoOrphans
    BY DEF TablesInv, TablesConsistent
<1>5. UniqueCells'
    BY <1>1, <1>3, <1>4 DEF UniqueCells
<1>6. UniqueBeams'
    BY <1>2, <1>3, <1>4 DEF UniqueBeams
<1>7. CountExact'
    BY <1>1, <1>2, <1>3, <1>4 DEF CountExact
<1>8. NoOrphans'
    BY <1>1, <1>2, <1>3, <1>4 DEF NoOrphans
<1>9. QED
    BY <1>1, <1>2, <1>5, <1>6, <1>7, <1>8 DEF TablesInv, TablesConsistent

(* The record found again after the wait is marked as sent.                 *)
LEMMA MarkSentTables ==
    ASSUME TablesInv, NEW i \in CellSlots, NEW j \in FreqSlots, freqs[i][j].active,
           freqs' = [freqs EXCEPT ![i][j].sent_to_antenna = TRUE], cells' = cells
    PROVE  /\ TablesInv'
           /\ \A p \in CellSlots, q \in FreqSlots :
                /\ freqs'[p][q].active <=> freqs[p][q].active
                /\ freqs[p][q].active => /\ freqs'[p][q].beam = freqs[p][q].beam
                                         /\ freqs'[p][q].band = freqs[p][q].band
                /\ ~(p = i /\ q = j) => freqs'[p][q] = freqs[p][q]
           /\ freqs'[i][j].sent_to_antenna
<1> DEFINE f == [freqs[i][j] EXCEPT !.sent_to_antenna = TRUE]
<1>1. freqs[i] \in [FreqSlots -> FreqRec \cup {NoFreq}] /\ freqs[i][j] \in FreqRec
    BY DEF TablesInv, NoFreq
<1>2. /\ f \in FreqRec /\ f.active /\ f.sent_to_antenna
      /\ f.beam = freqs[i][j].beam /\ f.band = freqs[i][j].band
    BY <1>1 DEF FreqRec
<1>3. freqs' = [freqs EXCEPT ![i] = [freqs[i] EXCEPT ![j] = f]]
    BY <1>1 DEF TablesInv
<1> HIDE DEF f
<1>4. /\ freqs' \in [CellSlots -> [FreqSlots -> FreqRec \cup {NoFreq}]]
      /\ freqs'[i][j] = f
      /\ \A k \in FreqSlots \ {j} : freqs'[i][k] = freqs[i][k]
      /\ \A k \in CellSlots \ {i} : freqs'[k] = freqs[k]
    <2> DEFINE row == [freqs[i] EXCEPT ![j] = f]
    <2>1. /\ row \in [FreqSlots -> FreqRec \cup {NoFreq}]
          /\ row[j] = f /\ \A k \in FreqSlots \ {j} : row[k] = freqs[i][k]
        BY <1>1, <1>2
    <2>2. freqs' = [freqs EXCEPT ![i] = row]
        BY <1>3
    <2> HIDE DEF row
    <2>3. QED
        BY <2>1, <2>2 DEF TablesInv
<1>5. \A p \in CellSlots, q \in FreqSlots :
        /\ freqs'[p][q].active <=> freqs[p][q].active
        /\ freqs[p][q].active => /\ freqs'[p][q].beam = freqs[p][q].beam
                                 /\ freqs'[p][q].band = freqs[p][q].band
        /\ ~(p = i /\ q = j) => freqs'[p][q] = freqs[p][q]
    BY <1>2, <1>4
<1>6. UniqueCells /\ UniqueBeams /\ CountExact /\ NoOrphans
    BY DEF TablesInv, TablesConsistent
<1>7. UniqueCells'
    BY <1>6 DEF UniqueCells
<1>8. UniqueBeams'
    BY <1>5, <1>6 DEF UniqueBeams
<1>9. CountExact'
    <2>1. \A p \in CellSlots :
            {q \in FreqSlots : freqs'[p][q].active} = {q \in FreqSlots : freqs[p][q].active}
        BY <1>5
    <2>2. QED
        BY <1>6, <2>1 DEF CountExact
<1>10. NoOrphans'
    BY <1>4, <1>6 DEF NoOrphans, NoFreq
<1>11. QED
    BY <1>2, <1>4, <1>5, <1>7, <1>8, <1>9, <1>10 DEF TablesInv, TablesConsistent

(* FREQ_CFG_DELETE frees the slot and counts it off.                        *)
LEMMA DeleteFreqTables ==
    ASSUME TablesInv, NEW i \in CellSlots, cells[i].active,
           NEW j \in FreqSlots, freqs[i][j].active,
           freqs' = [freqs EXCEPT ![i][j] = NoFreq],
           cells' = [cells EXCEPT ![i].freq_count = @ - 1]
    PROVE  TablesInv'
<1>1. /\ freqs' \in [CellSlots -> [FreqSlots -> FreqRec \cup {NoFreq}]]
      /\ freqs'[i][j] = NoFreq
      /\ \A k \in FreqSlots \ {j} : freqs'[i][k] = freqs[i][k]
      /\ \A k \in CellSlots \ {i} : freqs'[k] = freqs[k]
    BY DEF TablesInv
<1>2. UniqueCells /\ UniqueBeams /\ CountExact /\ NoOrphans
    BY DEF TablesInv, TablesConsistent
<1>3. ~freqs'[i][j].active
    BY <1>1 DEF NoFreq
<1>4. cells[i] \in CellRec /\ cells[i].freq_count = Cardinality(ActiveFreqs(freqs[i]))
    BY <1>2 DEF TablesInv, NoCell, CountExact, ActiveFreqs
<1>5. /\ IsFiniteSet(ActiveFreqs(freqs[i])) /\ Cardinality(ActiveFreqs(freqs[i])) \in 0..MAX_FREQS_PER_CELL
      /\ Cardinality(ActiveFreqs(freqs'[i])) \in 0..MAX_FREQS_PER_CELL
    BY ActiveFinite
<1>6. ActiveFreqs(freqs'[i]) = ActiveFreqs(freqs[i]) \ {j} /\ j \in ActiveFreqs(freqs[i])
    BY <1>1, <1>3 DEF ActiveFreqs
<1>7. Cardinality(ActiveFreqs(freqs'[i])) = Cardinality(ActiveFreqs(freqs[i])) - 1
    BY <1>5, <1>6, FS_RemoveElement
<1> DEFINE c == [cells[i] EXCEPT !.freq_count = @ - 1]
<1>8. /\ c \in CellRec /\ c.active /\ c.id = cells[i].id
      /\ c.freq_count = Cardinality(ActiveFreqs(freqs'[i]))
    <2>1. cells[i].freq_count - 1 \in 0..MAX_FREQS_PER_CELL
        BY <1>4, <1>5, <1>7
    <2>2. QED
        BY <1>4, <1>7, <2>1 DEF CellRec
<1>9. cells' = [cells EXCEPT ![i] = c]
    BY DEF TablesInv
<1> HIDE DEF c
<1>10. /\ cells' \in [CellSlots -> CellRec \cup {NoCell}]
       /\ cells'[i] = c
       /\ \A k \in CellSlots \ {i} : cells'[k] = cells[k]
    BY <1>8, <1>9 DEF TablesInv
<1>11. UniqueCells'
    <2>1. \A k \in CellSlots : /\ cells'[k].active <=> cells[k].active
                               /\ cells[k].active => cells'[k].id = cells[k].id
        BY <1>8, <1>10
    <2>2. QED
        BY <1>2, <2>1 DEF UniqueCells
<1>12. UniqueBeams'
    BY <1>1, <1>2, <1>3 DEF UniqueBeams
<1>13. CountExact'
    <2> SUFFICES ASSUME NEW k \in CellSlots, cells'[k].active
                 PROVE  cells'[k].freq_count = Cardinality(ActiveFreqs(freqs'[k]))
        BY DEF CountExact, ActiveFreqs
    <2>1. CASE k = i
        BY <1>8, <1>10, <2>1
    <2>2. CASE k # i
        BY <1>1, <1>2, <1>10, <2>2 DEF CountExact, ActiveFreqs
    <2>3. QED
        BY <2>1, <2>2
<1>14. NoOrphans'
    BY <1>1, <1>2, <1>8, <1>10 DEF NoOrphans
<1>15. QED
    BY <1>1, <1>10, <1>11, <1>12, <1>13, <1>14 DEF TablesInv, TablesConsistent

--------------------
(* The handlers move the transmit guard by its own steps only.              *)
LEMMA CellGuardStep == [Next]_vars => [GuardNext]_guardVars
<1> SUFFICES ASSUME [Next]_vars PROVE [GuardNext]_guardVars
    OBVIOUS
<1>1. CASE UNCHANGED vars
    BY <1>1 DEF vars
<1>2. CASE TakeIE
    BY <1>2 DEF TakeIE, guardVars
<1>3. ASSUME FinishWithTx PROVE GuardNext
    <2>1. has_any_freq(cells', freqs') \in BOOLEAN
        BY DEF has_any_freq
    <2>2. QED
        BY <1>3, <2>1 DEF FinishWithTx, GuardNext
<1>4. ASSUME NEW r, Finish(r) \/ Answer(r) PROVE UNCHANGED guardVars
    BY <1>4 DEF Finish, Answer
<1>5. CASE EstablishCell
    BY <1>4, <1>5 DEF EstablishCell
<1>6. CASE ReconfigCell
    BY <1>4, <1>6 DEF ReconfigCell
<1>7. CASE DeleteCell
    BY <1>3, <1>4, <1>7 DEF DeleteCell
<1>8. CASE InvalidCell
    BY <1>4, <1>8 DEF InvalidCell
<1>9. CASE FreqUnknownCell \/ FreqModeRejected \/ FreqNoSlot \/ FreqUnverified \/ FreqInvalid
    BY <1>4, <1>9 DEF FreqUnknownCell, FreqModeRejected, FreqNoSlot, FreqUnverified, FreqInvalid
<1>10. CASE FreqDuplicate
    BY <1>3, <1>10 DEF FreqDuplicate
<1>11. CASE FreqSend
    BY <1>4, <1>11 DEF FreqSend
<1>12. CASE FreqVerified
    BY <1>3, <1>4, <1>12 DEF FreqVerified
<1>13. CASE FreqDelete
    BY <1>3, <1>4, <1>13 DEF FreqDelete
<1>14. CASE ApplyTx
    BY <1>14 DEF ApplyTx, GuardNext, Threads
<1>15. CASE Reply
    BY <1>15 DEF Reply
<1>16. ASSUME NEW t \in Notifiers, LinkUp(t) \/ LinkDown(t) \/ LinkApply(t) PROVE GuardNext
    BY <1>16 DEF LinkUp, LinkDown, LinkApply, GuardNext, Threads
<1>17. QED
    BY <1>1, <1>2, <1>5, <1>6, <1>7, <1>8, <1>9, <1>10, <1>11, <1>12, <1>13, <1>14,
       <1>15, <1>16 DEF Next, Work

--------------------
(* A handler that ends without touching the transmit switch keeps the       *)
(* invariant if the tables are right and the answer is the truth.           *)
LEMMA EndsInReply ==
    ASSUME CellInv, GuardTypeOK', TablesInv', SentWasDelivered',
           UNCHANGED <<ie, antenna_band, delivered, job_fresh>>,
           NEW r \in {"SUCCESS", "FAILURE"}, Answer(r), demoted' \in BOOLEAN,
           ie.type = "freq" /\ ie.flag = "establish" => (r = "SUCCESS" <=> Stored')
    PROVE  CellInv'
<1>1. worker_pc' = "reply" /\ result' = r
    BY DEF Answer
<1>2. CellTypeOK' /\ TablesConsistent'
    BY <1>1 DEF CellInv, CellTypeOK, TablesInv
<1>3. ReplyTruthful'
    BY <1>1 DEF ReplyTruthful, Stored
<1>4. WaitInv' /\ ApplyInv'
    BY <1>1 DEF WaitInv, ApplyInv
<1>5. QED
    BY <1>2, <1>3, <1>4 DEF CellInv

(* Most of them do not touch an effective record either.                    *)
LEMMA FinishIs ==
    ASSUME CellInv, NEW r, Finish(r) PROVE Answer(r) /\ demoted' = demoted /\ demoted' \in BOOLEAN
BY DEF Finish, CellInv, CellTypeOK

(* The same for a handler that ends with update_tx_control.                 *)
LEMMA EndsInApply ==
    ASSUME CellInv, GuardTypeOK', TablesInv', SentWasDelivered',
           UNCHANGED <<ie, antenna_band, delivered, job_fresh>>, FinishWithTx,
           ie.type = "freq" /\ ie.flag = "establish" => Stored'
    PROVE  CellInv'
<1>1. worker_pc' = "apply" /\ result' = "SUCCESS" /\ demoted' = FALSE
    BY DEF FinishWithTx
<1>2. CellTypeOK' /\ TablesConsistent'
    BY <1>1 DEF CellInv, CellTypeOK, TablesInv
<1>3. ReplyTruthful' /\ WaitInv'
    BY <1>1 DEF ReplyTruthful, WaitInv
<1>4. ApplyInv'
    BY <1>1 DEF ApplyInv
<1>5. QED
    BY <1>2, <1>3, <1>4 DEF CellInv

(* A step that leaves the tables and the IE alone leaves alone what the     *)
(* other conjuncts say about them.                                          *)
LEMMA SameTables ==
    ASSUME CellInv, UNCHANGED <<cells, freqs>>, delivered \subseteq delivered'
    PROVE  /\ TablesInv /\ TablesInv' /\ SentWasDelivered'
           /\ ie' = ie => /\ Stored' <=> Stored
                          /\ KnownCell' <=> KnownCell
                          /\ TheCell' = TheCell
                          /\ Relocated' = Relocated
<1>1. TablesInv
    BY DEF CellInv, CellTypeOK, TablesInv
<1>2. TablesInv'
    BY <1>1 DEF TablesInv, TablesConsistent, UniqueCells, UniqueBeams, CountExact, NoOrphans
<1>3. SentWasDelivered'
    BY DEF CellInv, SentWasDelivered
<1>4. ASSUME ie' = ie
      PROVE  /\ Stored' <=> Stored
             /\ KnownCell' <=> KnownCell
             /\ TheCell' = TheCell
             /\ Relocated' = Relocated
    BY <1>4 DEF Stored, KnownCell, TheCell, Relocated, SlotsOf
<1>5. QED
    BY <1>1, <1>2, <1>3, <1>4

(* The cell IEs: CELL_CFG_ESTABLISH, _RECONFIG, _DELETE and an unknown flag *)
LEMMA CellHandlers ==
    ASSUME CellInv, GuardTypeOK', EstablishCell \/ ReconfigCell \/ DeleteCell \/ InvalidCell
    PROVE  CellInv'
<1>1. /\ ie \in CellIEs /\ ie.type = "cell" /\ delivered' = delivered
      /\ UNCHANGED <<ie, antenna_band, delivered, job_fresh>>
    BY DEF EstablishCell, ReconfigCell, DeleteCell, InvalidCell, HandleCell,
           CellInv, CellTypeOK, FreqIEs, NoIE
<1>2. TablesInv /\ SentWasDelivered
    BY DEF CellInv, CellTypeOK, TablesInv
<1>3. SlotsOf(ie.cell) \in SUBSET Nat /\ FreeCells \in SUBSET Nat
    BY CellAssumption DEF SlotsOf, FreeCells, CellSlots
<1>4. ASSUME NEW r \in {"SUCCESS", "FAILURE"}, Finish(r), UNCHANGED <<cells, freqs>> PROVE CellInv'
    BY <1>1, <1>4, SameTables, FinishIs, EndsInReply
<1>5. ASSUME NEW r \in {"SUCCESS", "FAILURE"}, Finish(r), TablesInv', freqs' = freqs PROVE CellInv'
    <2>1. SentWasDelivered'
        BY <1>1, <1>2, <1>5 DEF SentWasDelivered
    <2>2. QED
        BY <1>1, <1>5, <2>1, FinishIs, EndsInReply
<1>6. CASE EstablishCell
    <2>1. CASE SlotsOf(ie.cell) # {} \/ FreeCells = {}
        BY <1>4, <1>6, <2>1 DEF EstablishCell
    <2>2. CASE SlotsOf(ie.cell) = {} /\ FreeCells # {}
        <3>1. First(FreeCells) \in FreeCells
            BY <1>3, <2>2, FirstIn
        <3>2. TablesInv'
            BY <1>1, <1>2, <1>6, <2>2, <3>1, NewCellTables DEF EstablishCell
        <3>3. QED
            BY <1>5, <1>6, <2>2, <3>2 DEF EstablishCell
    <2>3. QED
        BY <2>1, <2>2
<1>7. CASE ReconfigCell
    <2>1. CASE SlotsOf(ie.cell) = {}
        BY <1>4, <1>7, <2>1 DEF ReconfigCell
    <2>2. CASE SlotsOf(ie.cell) # {}
        <3>1. First(SlotsOf(ie.cell)) \in SlotsOf(ie.cell)
            BY <1>3, <2>2, FirstIn
        <3>2. TablesInv'
            BY <1>1, <1>2, <1>7, <2>2, <3>1, ReconfigTables DEF ReconfigCell
        <3>3. QED
            BY <1>5, <1>7, <2>2, <3>2 DEF ReconfigCell
    <2>3. QED
        BY <2>1, <2>2
<1>8. CASE DeleteCell
    <2>1. CASE SlotsOf(ie.cell) = {}
        BY <1>4, <1>8, <2>1 DEF DeleteCell
    <2>2. CASE SlotsOf(ie.cell) # {}
        <3> DEFINE i == First(SlotsOf(ie.cell))
        <3>1. i \in CellSlots
            BY <1>3, <2>2, FirstIn DEF SlotsOf
        <3>2. /\ freqs' = [freqs EXCEPT ![i] = [j \in FreqSlots |-> NoFreq]]
              /\ cells' = [cells EXCEPT ![i] = NoCell]
              /\ FinishWithTx
            BY <1>8, <2>2 DEF DeleteCell
        <3> HIDE DEF i
        <3>3. TablesInv'
            BY <1>2, <3>1, <3>2, DeleteCellTables
        <3>4. /\ freqs'[i] = [j \in FreqSlots |-> NoFreq]
              /\ \A k \in CellSlots \ {i} : freqs'[k] = freqs[k]
            BY <1>2, <3>1, <3>2 DEF TablesInv
        <3>5. SentWasDelivered'
            BY <1>1, <1>2, <3>4 DEF SentWasDelivered, NoFreq
        <3>6. QED
            BY <1>1, <3>2, <3>3, <3>5, EndsInApply
    <2>3. QED
        BY <2>1, <2>2
<1>9. CASE InvalidCell
    BY <1>4, <1>9 DEF InvalidCell
<1>10. QED
    BY <1>6, <1>7, <1>8, <1>9

(* In cell_config_apply_freq the IE is a frequency IE.                      *)
LEMMA FreqIEType == ASSUME CellInv, HandleFreq PROVE ie \in FreqIEs
BY DEF CellInv, CellTypeOK, HandleFreq, CellIEs, NoIE

(* The frequency IEs that answer without a command to the antenna.          *)
LEMMA FreqRefusals ==
    ASSUME CellInv, GuardTypeOK',
           FreqUnknownCell \/ FreqModeRejected \/ FreqNoSlot \/ FreqUnverified \/ FreqInvalid
    PROVE  CellInv'
<1>1. /\ UNCHANGED <<ie, antenna_band, delivered, job_fresh>> /\ delivered' = delivered
      /\ Answer("FAILURE") /\ demoted' \in BOOLEAN
    <2>1. CASE FreqModeRejected
        BY <2>1 DEF FreqModeRejected, Demote
    <2>2. CASE FreqUnknownCell \/ FreqNoSlot \/ FreqUnverified \/ FreqInvalid
        BY <2>2, FinishIs DEF FreqUnknownCell, FreqNoSlot, FreqUnverified, FreqInvalid
    <2>3. QED
        BY <2>1, <2>2
<1>2. TablesInv /\ SentWasDelivered
    BY DEF CellInv, CellTypeOK, TablesInv
<1>3. ASSUME UNCHANGED <<cells, freqs>>, ie.type = "freq" /\ ie.flag = "establish" => ~Stored
      PROVE  CellInv'
    BY <1>1, <1>3, SameTables, EndsInReply
<1>4. CASE FreqUnknownCell
    <2>1. ~Stored
        BY <1>4 DEF FreqUnknownCell, KnownCell, Stored
    <2>2. QED
        BY <1>3, <1>4, <2>1 DEF FreqUnknownCell
<1>5. ASSUME HandleFreq, KnownCell, ~HasRoom(TheCell, ie.beam) PROVE ~Stored
    <2>1. SlotsOf(ie.cell) = {TheCell}
        BY <1>2, <1>5, TheCellIs DEF TablesInv, TablesConsistent
    <2>2. QED
        BY <1>5, <2>1 DEF Stored, HasRoom, BeamsOf
<1>6. CASE FreqModeRejected
    <2>1. CASE ~HasRoom(TheCell, ie.beam)
        BY <1>3, <1>5, <1>6, <2>1 DEF FreqModeRejected
    <2>2. CASE HasRoom(TheCell, ie.beam)
        <3>1. ie \in FreqIEs /\ KnownCell /\ StoreFreq(TheCell, FALSE)
            BY <1>6, <2>2, FreqIEType DEF FreqModeRejected
        <3>2. TablesInv' /\ SentWasDelivered' /\ ~Stored'
            BY <1>1, <1>2, <2>2, <3>1, StoreFreqEffect
        <3>3. QED
            BY <1>1, <3>2, EndsInReply
    <2>3. QED
        BY <2>1, <2>2
<1>7. CASE FreqNoSlot
    BY <1>3, <1>5, <1>7 DEF FreqNoSlot
<1>8. CASE FreqUnverified
    <2>1. PICK j \in Relocated : ~freqs[TheCell][j].sent_to_antenna
        BY <1>8 DEF FreqUnverified, CellInv, WaitInv
    <2>2. KnownCell
        BY <1>8 DEF FreqUnverified, CellInv, WaitInv
    <2>3. TheCell \in CellSlots /\ SlotsOf(ie.cell) = {TheCell}
        BY <1>2, <2>2, TheCellIs DEF TablesInv, TablesConsistent
    <2>4. j \in FreqSlots /\ freqs[TheCell][j].active /\ freqs[TheCell][j].beam = ie.beam
        BY <2>1, <2>2 DEF Relocated
    <2>5. \A k \in FreqSlots : freqs[TheCell][k].active /\ freqs[TheCell][k].beam = ie.beam => k = j
        BY <1>2, <2>3, <2>4 DEF TablesInv, TablesConsistent, UniqueBeams
    <2>6. ~Stored
        BY <2>1, <2>3, <2>5 DEF Stored
    <2>7. QED
        BY <1>3, <1>8, <2>6 DEF FreqUnverified
<1>9. CASE FreqInvalid
    BY <1>3, <1>9 DEF FreqInvalid
<1>10. QED
    BY <1>4, <1>6, <1>7, <1>8, <1>9

(* An establish whose band the antenna already has is stored as effective.  *)
LEMMA DuplicateStep == ASSUME CellInv, GuardTypeOK', FreqDuplicate PROVE CellInv'
<1>1. /\ HandleFreq /\ KnownCell /\ HasRoom(TheCell, ie.beam) /\ StoreFreq(TheCell, TRUE)
      /\ Duplicates(TheCell, ie.band) # {} /\ FinishWithTx
      /\ UNCHANGED <<ie, antenna_band, delivered, job_fresh>>
      /\ delivered' = delivered /\ ie' = ie
    BY DEF FreqDuplicate
<1>2. TablesInv /\ SentWasDelivered
    BY DEF CellInv, CellTypeOK, TablesInv
<1>3. ie.band \in delivered
    <2>1. TheCell \in CellSlots
        BY <1>1, <1>2, TheCellIs DEF TablesInv, TablesConsistent
    <2>2. QED
        BY <1>1, <1>2, <2>1 DEF SentWasDelivered, Duplicates
<1>4. TablesInv' /\ SentWasDelivered' /\ Stored'
    BY <1>1, <1>2, <1>3, FreqIEType, StoreFreqEffect
<1>5. QED
    BY <1>1, <1>4, EndsInApply

(* fpga_send_freq_band: the record is stored as not sent before the wait.   *)
LEMMA SendStep == ASSUME CellInv, GuardTypeOK', FreqSend PROVE CellInv'
<1>1. /\ HandleFreq /\ KnownCell /\ HasRoom(TheCell, ie.beam) /\ StoreFreq(TheCell, FALSE)
      /\ ie.flag = "establish" /\ UNCHANGED <<ie, job_fresh>> /\ ie' = ie
      /\ demoted' \in BOOLEAN
    BY DEF FreqSend, Demote
<1>2. TablesInv /\ SentWasDelivered /\ ie \in FreqIEs /\ ie.type = "freq"
    BY <1>1, FreqIEType DEF CellInv, CellTypeOK, TablesInv, HandleFreq
<1>3. delivered \subseteq delivered'
    BY DEF FreqSend
<1>4. /\ TablesInv' /\ SentWasDelivered' /\ ~Stored' /\ KnownCell'
      /\ \E j \in Relocated' : freqs'[TheCell'][j].sent_to_antenna = FALSE
    BY <1>1, <1>2, <1>3, StoreFreqEffect
<1>5. CASE /\ antenna_band' = ie.band /\ delivered' = delivered \cup {ie.band}
           /\ worker_pc' = "wait"
           /\ UNCHANGED <<result, guardVars>>
    <2>1. ie.band \in Bands
        BY <1>2 DEF FreqIEs
    <2>2. CellTypeOK' /\ TablesConsistent'
        BY <1>1, <1>4, <1>5, <2>1 DEF CellInv, CellTypeOK, TablesInv
    <2>3. WaitInv'
        BY <1>1, <1>2, <1>4, <1>5 DEF WaitInv
    <2>4. ReplyTruthful' /\ ApplyInv'
        BY <1>5 DEF ReplyTruthful, ApplyInv
    <2>5. QED
        BY <1>4, <2>2, <2>3, <2>4 DEF CellInv
<1>6. CASE Answer("FAILURE") /\ UNCHANGED <<antenna_band, delivered>>
    BY <1>1, <1>4, <1>6, EndsInReply
<1>7. QED
    BY <1>5, <1>6 DEF FreqSend

(* The mode verification succeeded: the record of the wait is still there   *)
(* and becomes effective.                                                   *)
LEMMA VerifiedStep == ASSUME CellInv, GuardTypeOK', FreqVerified PROVE CellInv'
<1>1. /\ ie.type = "freq" /\ ie.flag = "establish" /\ ie.band \in delivered /\ KnownCell
      /\ Relocated # {}
    BY DEF FreqVerified, CellInv, WaitInv
<1>2. TablesInv /\ SentWasDelivered
    BY DEF CellInv, CellTypeOK, TablesInv
<1>3. Relocated \in SUBSET Nat
    BY CellAssumption DEF Relocated, FreqSlots
<1> DEFINE i == TheCell
           j == First(Relocated)
<1>4. i \in CellSlots /\ SlotsOf(ie.cell) = {i}
    BY <1>1, <1>2, TheCellIs DEF TablesInv, TablesConsistent
<1>5. /\ j \in FreqSlots /\ freqs[i][j].active
      /\ freqs[i][j].beam = ie.beam /\ freqs[i][j].band = ie.band
    BY <1>1, <1>3, FirstIn DEF Relocated
<1>6. /\ freqs' = [freqs EXCEPT ![i][j].sent_to_antenna = TRUE] /\ cells' = cells /\ FinishWithTx
      /\ UNCHANGED <<ie, antenna_band, delivered, job_fresh>> /\ ie' = ie /\ delivered' = delivered
    BY <1>1 DEF FreqVerified
<1> HIDE DEF i, j
<1>7. /\ TablesInv'
      /\ \A p \in CellSlots, q \in FreqSlots :
            /\ freqs'[p][q].active <=> freqs[p][q].active
            /\ freqs[p][q].active => /\ freqs'[p][q].beam = freqs[p][q].beam
                                     /\ freqs'[p][q].band = freqs[p][q].band
            /\ ~(p = i /\ q = j) => freqs'[p][q] = freqs[p][q]
      /\ freqs'[i][j].sent_to_antenna
    BY <1>2, <1>4, <1>5, <1>6, MarkSentTables
<1>8. SentWasDelivered'
    <2> SUFFICES ASSUME NEW p \in CellSlots, NEW q \in FreqSlots,
                        freqs'[p][q].active, freqs'[p][q].sent_to_antenna
                 PROVE  freqs'[p][q].band \in delivered'
        BY DEF SentWasDelivered
    <2>1. CASE p = i /\ q = j
        BY <1>1, <1>5, <1>6, <1>7, <2>1
    <2>2. CASE ~(p = i /\ q = j)
        BY <1>2, <1>6, <1>7, <2>2 DEF SentWasDelivered
    <2>3. QED
        BY <2>1, <2>2
<1>9. Stored'
    <2>1. i \in SlotsOf(ie.cell)'
        BY <1>4, <1>6 DEF SlotsOf
    <2>2. QED
        BY <1>4, <1>5, <1>6, <1>7, <2>1 DEF Stored
<1>10. QED
    BY <1>6, <1>7, <1>8, <1>9, EndsInApply

(* FREQ_CFG_DELETE                                                          *)
LEMMA FreqDeleteStep == ASSUME CellInv, GuardTypeOK', FreqDelete PROVE CellInv'
<1>1. /\ HandleFreq /\ KnownCell /\ ie.flag = "delete"
      /\ UNCHANGED <<ie, antenna_band, delivered, job_fresh>> /\ delivered' = delivered
    BY DEF FreqDelete
<1>2. TablesInv /\ SentWasDelivered
    BY DEF CellInv, CellTypeOK, TablesInv
<1> DEFINE i == TheCell
           j == First(BeamsOf(TheCell, ie.beam))
<1>3. CASE BeamsOf(i, ie.beam) = {}
    <2>1. Finish("SUCCESS") /\ UNCHANGED <<cells, freqs>>
        BY <1>3 DEF FreqDelete
    <2>2. QED
        BY <1>1, <2>1, SameTables, FinishIs, EndsInReply
<1>4. CASE BeamsOf(i, ie.beam) # {}
    <2>1. i \in CellSlots /\ cells[i].active
        BY <1>1, <1>2, TheCellIs DEF TablesInv, TablesConsistent
    <2>2. BeamsOf(i, ie.beam) \in SUBSET Nat
        BY CellAssumption DEF BeamsOf, FreqSlots
    <2>3. j \in FreqSlots /\ freqs[i][j].active
        BY <1>4, <2>2, FirstIn DEF BeamsOf
    <2>4. /\ freqs' = [freqs EXCEPT ![i][j] = NoFreq]
          /\ cells' = [cells EXCEPT ![i].freq_count = @ - 1]
          /\ FinishWithTx
        BY <1>4 DEF FreqDelete
    <2> HIDE DEF i, j
    <2>5. TablesInv'
        BY <1>2, <2>1, <2>3, <2>4, DeleteFreqTables
    <2>6. \A p \in CellSlots, q \in FreqSlots : freqs'[p][q] = freqs[p][q] \/ ~freqs'[p][q].active
        BY <1>2, <2>1, <2>3, <2>4 DEF TablesInv, NoFreq
    <2>7. SentWasDelivered'
        BY <1>1, <1>2, <2>6 DEF SentWasDelivered
    <2>8. QED
        BY <1>1, <2>4, <2>5, <2>7, EndsInApply
<1>5. QED
    BY <1>3, <1>4

(* Every step keeps the invariant.                                          *)
LEMMA CellStepInv == CellInv /\ [Next]_vars /\ GuardTypeOK' => CellInv'
<1> SUFFICES ASSUME CellInv, [Next]_vars, GuardTypeOK' PROVE CellInv'
    OBVIOUS
<1>1. ASSUME UNCHANGED <<cells, freqs, delivered>>,
             ie' \in CellIEs \cup FreqIEs \cup {NoIE}, worker_pc' \in {"idle", "handle"},
             result' \in {"SUCCESS", "FAILURE"}, antenna_band' = antenna_band, job_fresh' \in BOOLEAN,
             demoted' = demoted
      PROVE  CellInv'
    <2>1. TablesInv' /\ SentWasDelivered'
        BY <1>1, SameTables
    <2>2. CellTypeOK' /\ TablesConsistent'
        BY <1>1, <2>1 DEF CellInv, CellTypeOK, TablesInv
    <2>3. ReplyTruthful' /\ WaitInv' /\ ApplyInv'
        BY <1>1 DEF ReplyTruthful, WaitInv, ApplyInv
    <2>4. QED
        BY <2>1, <2>2, <2>3 DEF CellInv
<1>2. ASSUME UNCHANGED <<cells, freqs, ie, result, antenna_band, delivered>>,
             \/ worker_pc' = worker_pc
             \/ worker_pc = "apply" /\ worker_pc' = "reply",
             job_fresh' \in BOOLEAN, demoted' = demoted
      PROVE  CellInv'
    <2>1. /\ TablesInv' /\ SentWasDelivered'
          /\ Stored' <=> Stored
          /\ KnownCell' <=> KnownCell
          /\ TheCell' = TheCell
          /\ Relocated' = Relocated
        BY <1>2, SameTables
    <2>2. CellTypeOK' /\ TablesConsistent'
        BY <1>2, <2>1 DEF CellInv, CellTypeOK, TablesInv
    <2>3. WaitInv'
        BY <1>2, <2>1 DEF CellInv, WaitInv
    <2>4. ApplyInv'
        BY <1>2, <2>1 DEF CellInv, ApplyInv
    <2>5. worker_pc = "reply" /\ ie.type = "freq" /\ ie.flag = "establish" =>
              (result = "SUCCESS" <=> Stored)
        BY DEF CellInv, ReplyTruthful, Stored
    <2>6. worker_pc' = "reply" /\ ie'.type = "freq" /\ ie'.flag = "establish" =>
              (result' = "SUCCESS" <=> Stored')
        BY <1>2, <2>1, <2>5 DEF CellInv, ApplyInv
    <2>7. ReplyTruthful'
        BY <2>6 DEF ReplyTruthful, Stored
    <2>8. QED
        BY <2>1, <2>2, <2>3, <2>4, <2>7 DEF CellInv
<1>3. CASE UNCHANGED vars
    BY <1>2, <1>3 DEF vars, cellVars, CellInv, CellTypeOK
<1>4. CASE TakeIE
    BY <1>1, <1>4 DEF TakeIE, CellInv, CellTypeOK
<1>5. CASE ApplyTx
    BY <1>2, <1>5 DEF ApplyTx, CellInv, CellTypeOK
<1>6. CASE Reply
    BY <1>1, <1>6 DEF Reply
<1>7. ASSUME NEW t \in Notifiers, LinkUp(t) \/ LinkApply(t) PROVE CellInv'
    BY <1>2, <1>7 DEF LinkUp, LinkApply, cellVars, CellInv, CellTypeOK
<1>8. ASSUME NEW t \in Notifiers, LinkDown(t) PROVE CellInv'
    BY <1>2, <1>8 DEF LinkDown, CellInv, CellTypeOK, GuardTypeOK
<1>9. QED
    BY <1>3, <1>4, <1>5, <1>6, <1>7, <1>8, CellHandlers, FreqRefusals, DuplicateStep,
       SendStep, VerifiedStep, FreqDeleteStep DEF Next, Work

(* The empty tables at start.                                               *)
LEMMA CellInitInv == Init => CellInv /\ GuardInv
<1> SUFFICES ASSUME Init PROVE CellInv /\ GuardInv
    OBVIOUS
<1>1. GuardInv
    BY GuardInitInv DEF Init
<1>2. \A i \in CellSlots : ~cells[i].active /\ \A j \in FreqSlots : freqs[i][j] = NoFreq /\ ~freqs[i][j].active
    BY DEF Init, NoCell, NoFreq
<1>3. CellTypeOK
    BY <1>1 DEF Init, CellTypeOK, GuardInv
<1>4. TablesConsistent
    BY <1>2 DEF TablesConsistent, UniqueCells, UniqueBeams, CountExact, NoOrphans
<1>5. SentWasDelivered
    BY <1>2 DEF SentWasDelivered
<1>6. ReplyTruthful /\ WaitInv /\ ApplyInv
    BY DEF Init, ReplyTruthful, WaitInv, ApplyInv
<1>7. QED
    BY <1>1, <1>3, <1>4, <1>5, <1>6 DEF CellInv

--------------------
(* The cell configuration implements the transmit guard: whatever the       *)
(* handlers do between their waits, g_bbu_link_ok, g_tx_on and the antenna  *)
(* move by the steps of TxGuard only.                                       *)
THEOREM CellRefinesGuard == Spec => GuardSpec
<1>1. Init => GuardInit
    BY DEF Init
<1>2. QED
    BY <1>1, CellGuardStep, PTL DEF Spec, GuardSpec

(* Hence the antenna is silent after a handled link loss whatever job the   *)
(* worker is in the middle of (cell_config.c, lines 262-381).               *)
THEOREM CellTxOffTheorem == Spec => []TxOffWhenLinkDown
BY CellRefinesGuard, TxOffTheorem, PTL

(* The inductive invariant of the handlers, type correctness included.      *)
THEOREM CellInvTheorem == Spec => []CellInv
<1>1. GuardInv => GuardTypeOK
    BY DEF GuardInv
<1>2. QED
    BY <1>1, CellInitInv, CellGuardStep, GuardStepInv, CellStepInv, PTL DEF Spec

(* No sequence of cell and frequency IEs, interrupted by link events at any *)
(* point, makes the tables inconsistent: unique cells and beams, an exact   *)
(* freq_count, no frequency in a free cell slot.                            *)
THEOREM TablesTheorem == Spec => []TablesConsistent
<1>1. CellInv => TablesConsistent
    BY DEF CellInv
<1>2. QED
    BY <1>1, CellInvTheorem, PTL

(* A record counts as effective only if the antenna was given its band.     *)
THEOREM SentWasDeliveredTheorem == Spec => []SentWasDelivered
<1>1. CellInv => SentWasDelivered
    BY DEF CellInv
<1>2. QED
    BY <1>1, CellInvTheorem, PTL

(* The answer to an establish is a success exactly when the frequency is    *)
(* stored as effective.                                                     *)
THEOREM ReplyTruthfulTheorem == Spec => []ReplyTruthful
<1>1. CellInv => ReplyTruthful
    BY DEF CellInv
<1>2. QED
    BY <1>1, CellInvTheorem, PTL

--------------------
(* The transmitter and the frequencies.                                     *)
HasFreq   == has_any_freq(cells, freqs)
OffComing == \E t \in Threads : apply[t].step = "send" /\ ~apply[t].on

(* An antenna that transmits without an effective frequency has an OFF on   *)
(* its way, or lost the frequency to a failed establish; the worker sends   *)
(* ON only with an effective frequency, and only at the end of a handler.   *)
TxInv ==
    /\ Applying(Worker) => worker_pc = "apply"
    /\ apply[Worker].step = "send" /\ apply[Worker].on => HasFreq
    /\ ~raced /\ ~off_failed /\ antenna_tx => HasFreq \/ demoted \/ OffComing

(* A step of the tables that leaves the transmit guard alone keeps this, if *)
(* every effective frequency it takes away is accounted for.                *)
LEMMA TxKept ==
    ASSUME TxInv, worker_pc # "apply", UNCHANGED guardVars,
           HasFreq \/ demoted => HasFreq' \/ demoted'
    PROVE  TxInv'
<1>1. ~Applying(Worker)
    BY DEF TxInv
<1>2. ~Applying(Worker)' /\ apply'[Worker].step # "send"
    BY <1>1 DEF Applying, guardVars
<1>3. OffComing' <=> OffComing
    BY DEF OffComing, guardVars
<1>4. ~raced' /\ ~off_failed' /\ antenna_tx' => HasFreq' \/ demoted' \/ OffComing'
    BY <1>3 DEF TxInv, guardVars
<1>5. QED
    BY <1>2, <1>4 DEF TxInv

(* update_tx_control sends ON or OFF by the new tables; with the gate       *)
(* closed it sends nothing, and then an antenna that is on has its OFF from *)
(* the link event on the way.                                               *)
LEMMA TxUpdated ==
    ASSUME TxInv, GuardInv, worker_pc # "apply", FinishWithTx
    PROVE  TxInv'
<1> DEFINE f == HasFreq'
<1>1. /\ ~Applying(Worker) /\ f \in BOOLEAN /\ worker_pc' = "apply"
      /\ apply' = IF g_bbu_link_ok THEN [apply EXCEPT ![Worker] = [step |-> "send", on |-> f]] ELSE apply
      /\ raced => raced'
      /\ antenna_tx' = antenna_tx /\ off_failed' = off_failed
    BY DEF FinishWithTx, UpdateTxControl, HasFreq, has_any_freq
<1> HIDE DEF f
<1>2. apply \in [Threads -> ApplyRec] /\ Worker \in Threads /\ Notifiers \subseteq Threads
    BY DEF GuardInv, GuardTypeOK, Threads
<1>3. CASE g_bbu_link_ok
    <2>1. apply'[Worker].step = "send" /\ apply'[Worker].on = f
        BY <1>1, <1>2, <1>3
    <2>2. f \/ OffComing'
        BY <1>1, <1>2, <2>1 DEF OffComing
    <2>3. QED
        BY <1>1, <2>1, <2>2 DEF TxInv, f
<1>4. CASE ~g_bbu_link_ok
    <2>1. apply' = apply /\ apply[Worker].step = "none"
        BY <1>1, <1>4 DEF Applying
    <2>2. ASSUME ~raced', ~off_failed', antenna_tx' PROVE OffComing'
        <3>1. PICK n \in Notifiers : apply[n].step = "send"
            BY <1>1, <1>4, <2>2 DEF GuardInv, OffUnderWay
        <3>2. apply[n].on = FALSE
            BY DEF GuardInv, OnlyOffFromNotifiers
        <3>3. QED
            BY <1>2, <2>1, <3>1, <3>2 DEF OffComing
    <2>3. QED
        BY <1>1, <2>1, <2>2 DEF TxInv
<1>5. QED
    BY <1>3, <1>4

(* The steps of the guard itself: the tables stay as they are, and what the *)
(* worker still sends it sends within its handler.                          *)
LEMMA TxGuardStep ==
    ASSUME TxInv, GuardInv, UNCHANGED <<cells, freqs, demoted>>,
           \/ worker_pc' = worker_pc
           \/ worker_pc' = "reply" /\ ~Applying(Worker) /\ UNCHANGED guardVars,
           \/ \E t \in Notifiers : NotifyUp(t) \/ NotifyDown(t)
           \/ \E t \in Threads : ApplySend(t) \/ ApplyRecord(t)
           \/ UNCHANGED guardVars
    PROVE  TxInv'
<1>1. /\ apply \in [Threads -> ApplyRec] /\ Worker \in Threads /\ Notifiers \subseteq Threads
      /\ Worker \notin Notifiers
    BY ThreadAssumption DEF GuardInv, GuardTypeOK, Threads
<1>2. HasFreq' <=> HasFreq
    BY DEF HasFreq, has_any_freq
<1>3. CASE UNCHANGED guardVars
    <2>1. apply' = apply /\ raced' = raced /\ off_failed' = off_failed /\ antenna_tx' = antenna_tx
        BY <1>3 DEF guardVars
    <2>2. OffComing' <=> OffComing
        BY <2>1 DEF OffComing
    <2>3. Applying(Worker)' => worker_pc' = "apply"
        BY <2>1 DEF TxInv, Applying
    <2>4. QED
        BY <1>2, <2>1, <2>2, <2>3 DEF TxInv
<1>4. ASSUME NEW t \in Notifiers, NotifyUp(t) PROVE TxInv'
    <2>1. /\ apply' = apply /\ raced' = raced /\ off_failed' = off_failed /\ antenna_tx' = antenna_tx
          /\ g_bbu_link_ok' # g_bbu_link_ok => worker_pc' = worker_pc
        BY <1>4 DEF NotifyUp, guardVars
    <2>2. OffComing' <=> OffComing
        BY <2>1 DEF OffComing
    <2>3. Applying(Worker)' => worker_pc' = "apply"
        BY <2>1 DEF TxInv, Applying
    <2>4. QED
        BY <1>2, <2>1, <2>2, <2>3 DEF TxInv
<1>5. ASSUME NEW t \in Notifiers, NotifyDown(t) PROVE TxInv'
    <2>1. /\ ~Applying(t)
          /\ apply' = IF g_tx_on THEN [apply EXCEPT ![t] = [step |-> "send", on |-> FALSE]] ELSE apply
        BY <1>5 DEF NotifyDown
    <2>2. apply'[Worker] = apply[Worker] /\ \A u \in Threads : Applying(u) => apply'[u] = apply[u]
        BY <1>1, <2>1 DEF Applying
    <2>3. OffComing => OffComing'
        BY <2>2 DEF OffComing, Applying
    <2>4. Applying(Worker)' => worker_pc' = "apply"
        BY <2>2 DEF TxInv, Applying
    <2>5. raced => raced'
        BY <1>5 DEF NotifyDown
    <2>6. off_failed' = off_failed /\ antenna_tx' = antenna_tx
        BY <1>5 DEF NotifyDown
    <2>7. QED
        BY <1>2, <2>2, <2>3, <2>4, <2>5, <2>6 DEF TxInv
<1>6. ASSUME NEW t \in Threads, ApplySend(t) \/ ApplyRecord(t) PROVE TxInv'
    <2>1. raced' = raced /\ Applying(t)
        BY <1>6 DEF ApplySend, ApplyRecord, Applying
    <2>2. \A u \in Threads \ {t} : apply'[u] = apply[u]
        BY <1>1, <1>6 DEF ApplySend, ApplyRecord
    <2>3. apply'[t].step # "send"
        <3>1. \/ apply' = [apply EXCEPT ![t] = [apply[t] EXCEPT !.step = "record"]]
              \/ apply' = [apply EXCEPT ![t] = NoApply]
            BY <1>6 DEF ApplySend, ApplyRecord
        <3>2. [apply[t] EXCEPT !.step = "record"].step = "record" /\ NoApply.step = "none"
            BY <1>1 DEF ApplyRec, NoApply
        <3>3. QED
            BY <1>1, <3>1, <3>2
    <2>4. Applying(Worker)' => worker_pc' = "apply"
        <3>1. CASE worker_pc' = worker_pc
            BY <1>1, <2>1, <2>2, <3>1 DEF TxInv, Applying
        <3>2. CASE UNCHANGED guardVars /\ ~Applying(Worker)
            BY <3>2 DEF guardVars, Applying
        <3>3. QED
            BY <3>1, <3>2
    <2>5. apply'[Worker].step = "send" /\ apply'[Worker].on => HasFreq'
        BY <1>1, <1>2, <2>2, <2>3 DEF TxInv
    <2>6. ASSUME ~raced', ~off_failed', antenna_tx' PROVE HasFreq' \/ demoted' \/ OffComing'
        <3>1. CASE ApplySend(t) /\ apply[t].on
            <4>1. t = Worker /\ apply[t].step = "send"
                BY <1>1, <3>1 DEF GuardInv, OnlyOffFromNotifiers, ApplySend, Threads
            <4>2. QED
                BY <1>2, <3>1, <4>1 DEF TxInv
        <3>2. CASE ApplySend(t) /\ ~apply[t].on
            <4>1. antenna_tx' = apply[t].on \/ off_failed' = (off_failed \/ ~apply[t].on)
                BY <3>2 DEF ApplySend
            <4>2. QED
                BY <2>6, <3>2, <4>1
        <3>3. CASE ApplyRecord(t)
            <4>1. antenna_tx' = antenna_tx /\ off_failed' = off_failed /\ apply[t].step = "record"
                BY <3>3 DEF ApplyRecord
            <4>2. HasFreq \/ demoted \/ OffComing
                BY <2>1, <2>6, <4>1 DEF TxInv
            <4>3. OffComing => OffComing'
                BY <2>2, <4>1 DEF OffComing
            <4>4. QED
                BY <1>2, <4>2, <4>3
        <3>4. QED
            BY <1>6, <3>1, <3>2, <3>3
    <2>7. QED
        BY <2>4, <2>5, <2>6 DEF TxInv
<1>7. QED
    BY <1>3, <1>4, <1>5, <1>6

(* Establish and reconfigure of a cell take no frequency away.              *)
LEMMA CellKeepsFreq ==
    ASSUME CellInv, EstablishCell \/ ReconfigCell
    PROVE  HasFreq => HasFreq'
<1>1. freqs' = freqs /\ cells \in [CellSlots -> CellRec \cup {NoCell}]
    BY DEF EstablishCell, ReconfigCell, CellInv, CellTypeOK
<1>2. \A k \in CellSlots : cells[k].active => cells'[k].active
    <2>1. CASE EstablishCell
        <3>1. \/ cells' = cells
              \/ \E c : c.active /\ cells' = [cells EXCEPT ![First(FreeCells)] = c]
            BY <2>1 DEF EstablishCell
        <3>2. QED
            BY <1>1, <3>1
    <2>2. CASE ReconfigCell
        <3>1. \/ cells' = cells
              \/ cells' = [cells EXCEPT ![First(SlotsOf(ie.cell))].power = ie.power]
            BY <2>2 DEF ReconfigCell
        <3>2. ASSUME NEW k \in CellSlots, cells[k].active PROVE cells'[k].active
            <4> DEFINE j == First(SlotsOf(ie.cell))
            <4> HIDE DEF j
            <4>1. \/ cells' = cells \/ cells' = [cells EXCEPT ![j].power = ie.power]
                BY <3>1 DEF j
            <4>2. CASE cells' = cells
                BY <3>2, <4>2
            <4>3. CASE cells' = [cells EXCEPT ![j].power = ie.power] /\ k # j
                BY <1>1, <3>2, <4>3
            <4>4. CASE cells' = [cells EXCEPT ![j].power = ie.power] /\ k = j
                <5>1. cells[k] \in CellRec
                    BY <1>1, <3>2 DEF NoCell
                <5>2. cells'[k] = [cells[k] EXCEPT !.power = ie.power]
                    BY <1>1, <4>4
                <5>3. QED
                    BY <5>1, <5>2 DEF CellRec
            <4>5. QED
                BY <4>1, <4>2, <4>3, <4>4
        <3>3. QED
            BY <3>2
    <2>3. QED
        BY <2>1, <2>2
<1>3. QED
    BY <1>1, <1>2 DEF HasFreq, has_any_freq

(* A frequency stored as not sent takes away at most the effective record   *)
(* of its own beam, and that is noted.                                      *)
LEMMA DemoteKeepsFreq ==
    ASSUME CellInv, ie \in FreqIEs, KnownCell, Demote,
           \/ HasRoom(TheCell, ie.beam) /\ StoreFreq(TheCell, FALSE)
           \/ UNCHANGED <<cells, freqs>>
    PROVE  HasFreq \/ demoted => HasFreq' \/ demoted'
<1> DEFINE i == TheCell
<1>1. TablesInv
    BY DEF CellInv, CellTypeOK, TablesInv
<1>2. i \in CellSlots /\ cells[i].active
    BY <1>1, TheCellIs DEF TablesInv, TablesConsistent
<1>3. demoted => demoted'
    BY DEF Demote
<1>4. CASE UNCHANGED <<cells, freqs>>
    BY <1>3, <1>4 DEF HasFreq, has_any_freq
<1>5. CASE HasRoom(TheCell, ie.beam) /\ StoreFreq(TheCell, FALSE)
    <2>1. /\ \A k \in CellSlots : cells'[k].active <=> cells[k].active
          /\ \E j \in FreqSlots :
                /\ freqs' = [freqs EXCEPT ![i][j] =
                                [active |-> TRUE, beam |-> ie.beam, band |-> ie.band,
                                 sent_to_antenna |-> FALSE]]
                /\ freqs[i][j].active => freqs[i][j].beam = ie.beam
        BY <1>1, <1>2, <1>5, StoreFreqTables
    <2>2. PICK j \in FreqSlots :
                /\ freqs' = [freqs EXCEPT ![i][j] =
                                [active |-> TRUE, beam |-> ie.beam, band |-> ie.band,
                                 sent_to_antenna |-> FALSE]]
                /\ freqs[i][j].active => freqs[i][j].beam = ie.beam
        BY <2>1
    <2> HIDE DEF i
    <2>3. \A p \in CellSlots, q \in FreqSlots : ~(p = i /\ q = j) => freqs'[p][q] = freqs[p][q]
        BY <1>1, <1>2, <2>2 DEF TablesInv
    <2>4. CASE freqs[i][j].active /\ freqs[i][j].sent_to_antenna
        <3>1. j \in BeamsOf(TheCell, ie.beam) /\ freqs[TheCell][j].sent_to_antenna
            BY <2>2, <2>4 DEF BeamsOf, i
        <3>2. demoted'
            BY <3>1 DEF Demote
        <3>3. QED
            BY <3>2
    <2>5. CASE ~(freqs[i][j].active /\ freqs[i][j].sent_to_antenna)
        BY <1>3, <2>1, <2>3, <2>5 DEF HasFreq, has_any_freq
    <2>6. QED
        BY <2>4, <2>5
<1>6. QED
    BY <1>4, <1>5

(* Every step of the handlers and of the link threads keeps TxInv.          *)
LEMMA TxStepInv == TxInv /\ CellInv /\ GuardInv /\ [Next]_vars => TxInv'
<1> SUFFICES ASSUME TxInv, CellInv, GuardInv, [Next]_vars PROVE TxInv'
    OBVIOUS
<1>1. CASE UNCHANGED vars
    BY <1>1, TxGuardStep DEF vars, cellVars
<1>2. CASE TakeIE \/ Reply
    <2>1. /\ worker_pc # "apply" /\ UNCHANGED guardVars /\ UNCHANGED <<cells, freqs, demoted>>
        BY <1>2 DEF TakeIE, Reply
    <2>2. HasFreq \/ demoted => HasFreq' \/ demoted'
        BY <2>1 DEF HasFreq, has_any_freq
    <2>3. QED
        BY <2>1, <2>2, TxKept
<1>3. ASSUME worker_pc # "apply", NEW r, Finish(r), HasFreq => HasFreq' PROVE TxInv'
    BY <1>3, TxKept DEF Finish, Answer
<1>4. UNCHANGED <<cells, freqs>> => (HasFreq => HasFreq')
    BY DEF HasFreq, has_any_freq
<1>5. CASE EstablishCell \/ ReconfigCell
    <2>1. worker_pc # "apply" /\ \E r : Finish(r)
        BY <1>5 DEF EstablishCell, ReconfigCell, HandleCell
    <2>2. QED
        BY <1>3, <1>5, <2>1, CellKeepsFreq
<1>6. CASE DeleteCell
    <2>1. worker_pc # "apply" /\ (FinishWithTx \/ (Finish("SUCCESS") /\ UNCHANGED <<cells, freqs>>))
        BY <1>6 DEF DeleteCell, HandleCell
    <2>2. QED
        BY <1>3, <1>4, <2>1, TxUpdated
<1>7. CASE InvalidCell \/ FreqUnknownCell \/ FreqNoSlot \/ FreqUnverified \/ FreqInvalid
    <2>1. worker_pc # "apply" /\ Finish("FAILURE") /\ UNCHANGED <<cells, freqs>>
        BY <1>7 DEF InvalidCell, HandleCell, FreqUnknownCell, FreqNoSlot, FreqUnverified,
                    FreqInvalid, HandleFreq
    <2>2. QED
        BY <1>3, <1>4, <2>1
<1>8. CASE FreqModeRejected \/ FreqSend
    <2>1. /\ HandleFreq /\ worker_pc # "apply" /\ KnownCell /\ Demote /\ UNCHANGED guardVars
          /\ \/ HasRoom(TheCell, ie.beam) /\ StoreFreq(TheCell, FALSE)
             \/ UNCHANGED <<cells, freqs>>
        BY <1>8 DEF FreqModeRejected, FreqSend, HandleFreq, Answer
    <2>2. QED
        BY <2>1, FreqIEType, DemoteKeepsFreq, TxKept
<1>9. CASE FreqDuplicate
    BY <1>9, TxUpdated DEF FreqDuplicate, HandleFreq
<1>10. CASE FreqVerified
    <2>1. worker_pc # "apply" /\ (FinishWithTx \/ (Finish("FAILURE") /\ UNCHANGED <<cells, freqs>>))
        BY <1>10 DEF FreqVerified
    <2>2. QED
        BY <1>3, <1>4, <2>1, TxUpdated
<1>11. CASE FreqDelete
    <2>1. worker_pc # "apply" /\ (FinishWithTx \/ (Finish("SUCCESS") /\ UNCHANGED <<cells, freqs>>))
        BY <1>11 DEF FreqDelete, HandleFreq
    <2>2. QED
        BY <1>3, <1>4, <2>1, TxUpdated
<1>12. CASE ApplyTx
    <2>1. Worker \in Threads
        BY DEF Threads
    <2>2. QED
        BY <1>12, <2>1, TxGuardStep DEF ApplyTx
<1>13. ASSUME NEW t \in Notifiers, LinkUp(t) \/ LinkDown(t) \/ LinkApply(t) PROVE TxInv'
    <2>1. t \in Threads
        BY DEF Threads
    <2>2. QED
        BY <1>13, <2>1, TxGuardStep DEF LinkUp, LinkDown, LinkApply, cellVars
<1>14. QED
    BY <1>1, <1>2, <1>5, <1>6, <1>7, <1>8, <1>9, <1>10, <1>11, <1>12, <1>13 DEF Next, Work

(* The transmitter is on only while an effective frequency exists, for      *)
(* tables of any size, unless a failed establish overwrote the frequency    *)
(* (cell_config.c, lines 262-266 and 341-381).                              *)
THEOREM TxNeedsFreqTheorem == Spec => []TxNeedsFreq
<1>1. Init => TxInv
    BY DEF Init, GuardInit, TxInv, Applying, NoApply, Threads
<1>2. TxInv => TxNeedsFreq
    <2> SUFFICES ASSUME TxInv, Quiet, ~raced, ~off_failed, antenna_tx PROVE HasFreq \/ demoted
        BY DEF TxNeedsFreq, HasFreq
    <2>1. ~OffComing
        BY DEF Quiet, Applying, OffComing
    <2>2. QED
        BY <2>1 DEF TxInv
<1>3. GuardInv => GuardTypeOK
    BY DEF GuardInv
<1>4. QED
    BY <1>1, <1>2, <1>3, CellInitInv, CellGuardStep, GuardStepInv, CellStepInv, TxStepInv, PTL DEF Spec
====================
