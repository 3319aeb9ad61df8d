------------------------- MODULE BackedWriterProofs -------------------------
(***************************************************************************)
(* The safety properties of BackedWriter hold for every size of the two    *)
(* budgets, of the MAC and of the packets.  WriterInv is inductive; each   *)
(* property is one of its conjuncts, and NoDropWhileDisconnected follows   *)
(* from it step by step.                                                   *)
(***************************************************************************)
EXTENDS BackedWriter, SequenceTheorems, TLAPS

Budget == DISCONNECT_BUFFER_BYTES + MACBYTES

\* The growth allowed by one more outage is one more budget.
LEMMA GrowthStep ==
    ASSUME NEW n \in Nat
    PROVE  /\ n * Budget \in Nat
           /\ (n + 1) * Budget = n * Budget + Budget
           /\ 0 * Budget = 0
BY WriterAssumption DEF Budget

\* BackedWriter::write, first part, keeps the invariant.
LEMMA WriteInv ==
    ASSUME WriterInv, NEW length \in Lengths, Write(length)
    PROVE  WriterInv'
<1> DEFINE packet == [num |-> sequenceNumber + 1, len |-> length + MACBYTES]
<1>1. /\ TypeOK
      /\ length \in Nat
      /\ MACBYTES \in Nat
      /\ DISCONNECT_BUFFER_BYTES \in Nat
      /\ MAX_BACKUP_BYTES \in Nat
      /\ Len(backupBuffer) \in Nat
      /\ Len(backupBuffer) <= sequenceNumber
      /\ packet \in Packet
  BY WriterAssumption DEF WriterInv, TypeOK, Packet, BackupIsNewestRun
<1>2. /\ mutex = "free"
      /\ HasBufferCapacity(length)
      /\ backupBuffer' = Append(backupBuffer, packet)
      /\ backupSize' = backupSize + (length + MACBYTES)
      /\ offset' = [n \in 0..(sequenceNumber + 1) |->
                      IF n = sequenceNumber + 1
                      THEN offset[sequenceNumber] + (length + MACBYTES)
                      ELSE offset[n]]
      /\ sequenceNumber' = sequenceNumber + 1
      /\ mutex' = "write"
      /\ UNCHANGED <<connected, disconnectedBytes, asked, recovered, outages>>
  BY DEF Write
<1>3. /\ Len(backupBuffer') = Len(backupBuffer) + 1
      /\ backupBuffer' \in Seq(Packet)
      /\ backupBuffer'[Len(backupBuffer) + 1] = packet
      /\ \A i \in 1..Len(backupBuffer) : backupBuffer'[i] = backupBuffer[i]
  BY <1>1, <1>2 DEF TypeOK
<1>4. Dropped' = Dropped /\ Dropped \in 0..sequenceNumber
  BY <1>1, <1>2, <1>3 DEF Dropped, TypeOK
<1>o. \A n \in 0..sequenceNumber : offset'[n] = offset[n]
  <2>1. sequenceNumber \in Nat
    BY <1>1 DEF TypeOK
  <2>2. \A n \in 0..sequenceNumber : n \in 0..(sequenceNumber + 1) /\ n # sequenceNumber + 1
    BY <2>1
  <2> QED BY <1>2, <2>2
<1>5. TypeOK'
  BY <1>1, <1>2, <1>3 DEF TypeOK
<1>6. BackupIsNewestRun'
  <2>1. ASSUME NEW i \in 1..Len(backupBuffer)
        PROVE  /\ backupBuffer'[i].num = Dropped + i
               /\ backupBuffer'[i].len
                    = offset'[Dropped + i] - offset'[Dropped + i - 1]
    <3>1. /\ Dropped + i \in 1..sequenceNumber
          /\ Dropped + i - 1 \in 0..sequenceNumber
      BY <1>1, <1>4 DEF Dropped, TypeOK
    <3>2. /\ backupBuffer[i].num = Dropped + i
          /\ backupBuffer[i].len = offset[Dropped + i] - offset[Dropped + i - 1]
      BY DEF WriterInv, BackupIsNewestRun
    <3>3. /\ offset'[Dropped + i] = offset[Dropped + i]
          /\ offset'[Dropped + i - 1] = offset[Dropped + i - 1]
      BY <1>o, <3>1
    <3> QED BY <1>3, <3>2, <3>3
  <2>2. /\ Dropped + (Len(backupBuffer) + 1) = sequenceNumber + 1
        /\ packet.num = sequenceNumber + 1
        /\ packet.len = offset'[sequenceNumber + 1] - offset'[sequenceNumber]
    BY <1>1, <1>2 DEF Dropped, TypeOK
  <2>3. ASSUME NEW i \in 1..Len(backupBuffer')
        PROVE  /\ backupBuffer'[i].num = Dropped' + i
               /\ backupBuffer'[i].len
                    = offset'[Dropped' + i] - offset'[Dropped' + i - 1]
    <3>1. CASE i \in 1..Len(backupBuffer)
      BY <3>1, <1>4, <2>1
    <3>2. CASE i = Len(backupBuffer) + 1
      BY <3>2, <1>1, <1>3, <1>4, <2>2 DEF TypeOK
    <3> QED BY <1>1, <1>3, <3>1, <3>2
  <2>4. Len(backupBuffer') <= sequenceNumber'
    BY <1>1, <1>2, <1>3 DEF TypeOK
  <2> QED BY <2>3, <2>4 DEF BackupIsNewestRun
<1>7. BackupSizeExact'
  <2>1. /\ sequenceNumber \in Nat /\ backupSize \in Int
        /\ offset[sequenceNumber] \in Nat /\ offset[Dropped] \in Nat
        /\ backupSize = offset[sequenceNumber] - offset[Dropped]
    BY <1>1, <1>4 DEF WriterInv, BackupSizeExact, TypeOK
  <2>2. offset'[sequenceNumber + 1] = offset[sequenceNumber] + (length + MACBYTES)
    BY <1>2, <2>1
  <2>3. backupSize' = offset'[sequenceNumber'] - offset'[Dropped']
    BY <1>1, <1>2, <1>4, <1>o, <2>1, <2>2
  <2> QED BY <2>3 DEF BackupSizeExact
<1>8. OffsetsMonotone'
  BY <1>1, <1>2 DEF WriterInv, OffsetsMonotone, TypeOK
<1>9. RecoverExact' /\ RecoverLocked' /\ BackupGrowth'
  BY <1>2 DEF RecoverExact, RecoverLocked, BackupGrowth
<1>10. OutageBudget'
  BY <1>2 DEF WriterInv, OutageBudget
<1>11. OutageIsBackedUp'
  BY <1>1, <1>2 DEF WriterInv, OutageIsBackedUp, TypeOK
<1>12. PendingWrite'
  <2>1. Newest'.len = length + MACBYTES /\ Len(backupBuffer') > 0
    BY <1>1, <1>3 DEF Newest
  <2>2. Budget \in Nat /\ outages * Budget \in Nat /\ outages' = outages
    BY <1>1, <1>2, GrowthStep DEF Budget, TypeOK
  <2>3. ~connected' => disconnectedBytes + length <= DISCONNECT_BUFFER_BYTES
    BY <1>2 DEF HasBufferCapacity
  <2> QED BY <1>1, <1>2, <2>1, <2>2, <2>3
    DEF WriterInv, PendingWrite, OutageIsBackedUp, BackupGrowth, Budget, TypeOK
<1> QED BY <1>5, <1>6, <1>7, <1>8, <1>9, <1>10, <1>11, <1>12 DEF WriterInv

\* One turn of the trim loop keeps the invariant.
LEMMA TrimInv ==
    ASSUME WriterInv, Trim
    PROVE  WriterInv'
<1>1. /\ TypeOK
      /\ MAX_BACKUP_BYTES \in Nat
      /\ Len(backupBuffer) \in Nat
      /\ Len(backupBuffer) <= sequenceNumber
      /\ backupBuffer \in Seq(Packet)
  BY WriterAssumption DEF WriterInv, TypeOK, BackupIsNewestRun
<1>2. /\ mutex = "write"
      /\ connected
      /\ backupSize > MAX_BACKUP_BYTES
      /\ backupSize' = backupSize - Head(backupBuffer).len
      /\ backupBuffer' = Tail(backupBuffer)
      /\ UNCHANGED <<connected, disconnectedBytes, sequenceNumber, mutex, asked,
                     recovered, offset, outages>>
  BY DEF Trim
<1>3. backupBuffer # <<>> /\ Len(backupBuffer) > 0
  <2>1. Len(backupBuffer) = 0 => backupSize = 0
    BY <1>1 DEF WriterInv, BackupSizeExact, Dropped, TypeOK
  <2> QED BY <1>1, <1>2, <2>1
<1>4. /\ Head(backupBuffer) = backupBuffer[1]
      /\ Len(backupBuffer') = Len(backupBuffer) - 1
      /\ backupBuffer' \in Seq(Packet)
      /\ \A i \in 1..(Len(backupBuffer) - 1) :
            backupBuffer'[i] = backupBuffer[i + 1]
  BY <1>1, <1>2, <1>3
<1>5. /\ Dropped' = Dropped + 1
      /\ Dropped \in 0..sequenceNumber
      /\ Dropped + 1 \in 0..sequenceNumber
  BY <1>1, <1>2, <1>3, <1>4 DEF Dropped, TypeOK
<1>6. /\ backupBuffer[1].len = offset[Dropped + 1] - offset[Dropped]
      /\ \A i \in 1..Len(backupBuffer) :
          /\ backupBuffer[i].num = Dropped + i
          /\ backupBuffer[i].len = offset[Dropped + i] - offset[Dropped + i - 1]
  <2>1. \A i \in 1..Len(backupBuffer) :
          /\ backupBuffer[i].num = Dropped + i
          /\ backupBuffer[i].len = offset[Dropped + i] - offset[Dropped + i - 1]
    BY DEF WriterInv, BackupIsNewestRun
  <2>2. 1 \in 1..Len(backupBuffer) /\ Dropped + 1 - 1 = Dropped
    BY <1>1, <1>3, <1>5
  <2> QED BY <2>1, <2>2
<1>7. backupSize' = offset[sequenceNumber] - offset[Dropped + 1]
  <2>1. /\ sequenceNumber \in Nat
        /\ offset[sequenceNumber] \in Nat
        /\ offset[Dropped] \in Nat /\ offset[Dropped + 1] \in Nat
    BY <1>1, <1>5 DEF TypeOK
  <2>2. backupSize = offset[sequenceNumber] - offset[Dropped]
    BY DEF WriterInv, BackupSizeExact
  <2>3. backupSize' = backupSize - backupBuffer[1].len
    BY <1>2, <1>3
  <2> QED BY <2>1, <2>2, <2>3, <1>6
<1>8. backupSize' \in Int /\ backupSize' >= 0
  BY <1>1, <1>5, <1>7 DEF WriterInv, OffsetsMonotone, TypeOK
<1>9. TypeOK'
  BY <1>1, <1>2, <1>4, <1>8 DEF TypeOK
<1>10. BackupIsNewestRun'
  <2>1. ASSUME NEW i \in 1..(Len(backupBuffer) - 1)
        PROVE  /\ backupBuffer'[i].num = (Dropped + 1) + i
               /\ backupBuffer'[i].len
                    = offset[(Dropped + 1) + i] - offset[(Dropped + 1) + i - 1]
    <3>1. /\ i + 1 \in 1..Len(backupBuffer)
          /\ Dropped + (i + 1) = (Dropped + 1) + i
          /\ Dropped + (i + 1) - 1 = (Dropped + 1) + i - 1
      BY <1>1, <1>5
    <3> QED BY <1>4, <1>6, <3>1
  <2>2. ASSUME NEW i \in 1..Len(backupBuffer')
        PROVE  /\ backupBuffer'[i].num = Dropped' + i
               /\ backupBuffer'[i].len
                    = offset'[Dropped' + i] - offset'[Dropped' + i - 1]
    BY <1>2, <1>4, <1>5, <2>1
  <2>3. Len(backupBuffer') <= sequenceNumber'
    BY <1>1, <1>2, <1>4 DEF TypeOK
  <2> QED BY <2>2, <2>3 DEF BackupIsNewestRun
<1>11. BackupSizeExact'
  BY <1>2, <1>5, <1>7 DEF BackupSizeExact
<1>12. OffsetsMonotone'
  BY <1>2 DEF WriterInv, OffsetsMonotone
<1>13. RecoverExact' /\ RecoverLocked' /\ BackupGrowth' /\ PendingWrite'
  BY <1>2 DEF RecoverExact, RecoverLocked, BackupGrowth, PendingWrite
<1>14. OutageBudget' /\ OutageIsBackedUp'
  BY <1>2, <1>8 DEF WriterInv, OutageBudget, OutageIsBackedUp
<1> QED BY <1>9, <1>10, <1>11, <1>12, <1>13, <1>14 DEF WriterInv

\* The steps that leave the packets alone keep the invariant: the ends of
\* write(), invalidateSocket(), and the end of Connection::recover.
LEMMA QuietInv ==
    ASSUME WriterInv,
           BufferedOnly \/ WriteDone \/ Invalidate \/ Revive \/ AbortRecover
    PROVE  WriterInv'
<1>1. /\ TypeOK
      /\ MAX_BACKUP_BYTES \in Nat
      /\ Budget \in Nat
      /\ outages * Budget \in Nat
      /\ (outages + 1) * Budget = outages * Budget + Budget
      /\ 0 * Budget = 0
  BY WriterAssumption, GrowthStep DEF WriterInv, TypeOK, Budget
<1>2. UNCHANGED <<backupBuffer, backupSize, sequenceNumber, asked, recovered,
                  offset>>
  BY DEF BufferedOnly, WriteDone, Invalidate, Revive, AbortRecover, writerVars
<1>3. BackupIsNewestRun' /\ BackupSizeExact' /\ OffsetsMonotone'
  BY <1>2 DEF WriterInv, BackupIsNewestRun, BackupSizeExact, OffsetsMonotone,
              Dropped
<1>4. CASE BufferedOnly
  <2>0. Newest.len \in Nat
    <3>1. backupBuffer \in Seq(Packet) /\ Len(backupBuffer) > 0
      BY <1>1, <1>4 DEF BufferedOnly, WriterInv, PendingWrite, TypeOK
    <3>2. Newest \in Packet
      BY <3>1 DEF Newest
    <3> QED BY <3>2 DEF Packet
  <2>1. /\ mutex = "write"
        /\ ~connected
        /\ disconnectedBytes' = disconnectedBytes + Newest.len
        /\ mutex' = "free"
        /\ UNCHANGED <<connected, outages>>
    BY <1>4 DEF BufferedOnly
  <2>2. TypeOK'
    BY <1>1, <1>2, <2>0, <2>1 DEF TypeOK
  <2>3. OutageBudget' /\ OutageIsBackedUp' /\ BackupGrowth'
    <3>1. /\ disconnectedBytes + Newest.len <= Budget
          /\ disconnectedBytes + Newest.len <= backupSize
          /\ backupSize <= MAX_BACKUP_BYTES + disconnectedBytes + Newest.len
                              + outages * Budget
      BY <2>1 DEF WriterInv, PendingWrite, Budget
    <3>2. OutageBudget' /\ OutageIsBackedUp'
      BY <1>2, <2>1, <3>1 DEF OutageBudget, OutageIsBackedUp, Budget
    <3>3. backupSize' <= MAX_BACKUP_BYTES + disconnectedBytes'
                           + outages' * Budget
      <4> DEFINE grown == outages * Budget
      <4>1. outages' * Budget = grown /\ grown \in Nat
        BY <1>1, <2>1, GrowthStep DEF TypeOK
      <4>2. disconnectedBytes \in Nat /\ MAX_BACKUP_BYTES \in Nat /\ backupSize' = backupSize
        BY <1>1, <1>2, WriterAssumption DEF TypeOK
      <4> HIDE DEF grown
      <4> QED BY <2>0, <2>1, <3>1, <4>1, <4>2 DEF grown
    <3>4. BackupGrowth'
      BY <3>3 DEF BackupGrowth, Budget
    <3> QED BY <3>2, <3>4
  <2>4. RecoverExact' /\ RecoverLocked' /\ PendingWrite'
    BY <2>1 DEF RecoverExact, RecoverLocked, PendingWrite
  <2> QED BY <1>3, <2>2, <2>3, <2>4 DEF WriterInv
<1>5. CASE WriteDone
  <2>1. TypeOK'
    BY <1>1, <1>5 DEF WriteDone, writerVars, TypeOK
  <2>2. OutageBudget' /\ OutageIsBackedUp'
    BY <1>1, <1>5 DEF WriteDone, writerVars, WriterInv, OutageBudget,
                      OutageIsBackedUp
  <2>3. BackupGrowth'
    BY <1>1, <1>5 DEF WriteDone, writerVars, WriterInv, OutageBudget,
                      BackupGrowth, Budget, TypeOK
  <2>4. RecoverExact' /\ RecoverLocked' /\ PendingWrite'
    BY <1>5 DEF WriteDone, RecoverExact, RecoverLocked, PendingWrite
  <2> QED BY <1>3, <2>1, <2>2, <2>3, <2>4 DEF WriterInv
<1>6. CASE Invalidate
  <2>1. TypeOK'
    BY <1>1, <1>6 DEF Invalidate, TypeOK
  <2>2. OutageBudget' /\ OutageIsBackedUp' /\ BackupGrowth'
    BY <1>6 DEF Invalidate, WriterInv, OutageBudget, OutageIsBackedUp,
                BackupGrowth
  <2>3. RecoverExact' /\ RecoverLocked' /\ PendingWrite'
    BY <1>6 DEF Invalidate, RecoverExact, RecoverLocked, PendingWrite
  <2> QED BY <1>3, <2>1, <2>2, <2>3 DEF WriterInv
<1>7. CASE Revive
  <2>1. /\ mutex = "recover"
        /\ mutex' = "free"
        /\ connected'
        /\ disconnectedBytes' = 0
        /\ \/ outages' = outages + 1
           \/ outages' = outages /\ disconnectedBytes = 0
    BY <1>1, <1>7 DEF Revive, TypeOK
  <2>2. TypeOK'
    BY <1>1, <1>7 DEF Revive, TypeOK
  <2>3. OutageBudget' /\ OutageIsBackedUp'
    BY <1>1, <1>2, <2>1, WriterAssumption
      DEF WriterInv, OutageBudget, OutageIsBackedUp, TypeOK
  <2>4. disconnectedBytes \in Nat /\ disconnectedBytes <= Budget
    BY <1>1 DEF WriterInv, OutageBudget, TypeOK, Budget
  <2>5. backupSize <= MAX_BACKUP_BYTES + disconnectedBytes + outages * Budget
    BY <2>1 DEF WriterInv, RecoverLocked, Budget
  <2>6. backupSize <= MAX_BACKUP_BYTES + 0 + outages' * Budget
    <3>1. CASE outages' = outages + 1
      BY <1>1, <2>4, <2>5, <3>1 DEF TypeOK
    <3>2. CASE outages' = outages /\ disconnectedBytes = 0
      BY <2>5, <3>2
    <3> QED BY <2>1, <3>1, <3>2
  <2>7. BackupGrowth'
    BY <1>2, <2>1, <2>6 DEF BackupGrowth, Budget
  <2>8. RecoverExact' /\ RecoverLocked' /\ PendingWrite'
    BY <2>1 DEF RecoverExact, RecoverLocked, PendingWrite
  <2> QED BY <1>3, <2>2, <2>3, <2>7, <2>8 DEF WriterInv
<1>8. CASE AbortRecover
  <2>1. TypeOK'
    BY <1>1, <1>8 DEF AbortRecover, writerVars, TypeOK
  <2>2. OutageBudget' /\ OutageIsBackedUp' /\ BackupGrowth'
    BY <1>8 DEF AbortRecover, writerVars, WriterInv, OutageBudget,
                OutageIsBackedUp, BackupGrowth, RecoverLocked
  <2>3. RecoverExact' /\ RecoverLocked' /\ PendingWrite'
    BY <1>8 DEF AbortRecover, RecoverExact, RecoverLocked, PendingWrite
  <2> QED BY <1>3, <2>1, <2>2, <2>3 DEF WriterInv
<1> QED BY <1>4, <1>5, <1>6, <1>7, <1>8

\* BackedWriter::recover hands out the right packets.
LEMMA RecoverInv ==
    ASSUME WriterInv, NEW n \in 0..sequenceNumber, Recover(n)
    PROVE  WriterInv'
<1>1. /\ TypeOK
      /\ Len(backupBuffer) \in Nat
      /\ Len(backupBuffer) <= sequenceNumber
      /\ n \in Nat
      /\ sequenceNumber - n \in 0..Len(backupBuffer)
  BY DEF WriterInv, TypeOK, BackupIsNewestRun, Recover
<1>2. /\ mutex = "free"
      /\ ~connected
      /\ asked' = n
      /\ recovered' = ToRecover(n)
      /\ mutex' = "recover"
      /\ UNCHANGED <<connected, backupBuffer, backupSize, disconnectedBytes,
                     sequenceNumber, offset, outages>>
  BY DEF Recover, writerVars
<1> DEFINE first == Len(backupBuffer) - (sequenceNumber - n) + 1
<1>3. /\ first \in 1..(Len(backupBuffer) + 1)
      /\ Len(backupBuffer) - first + 1 = sequenceNumber - n
  BY <1>1 DEF TypeOK
<1>4. /\ recovered' \in Seq(Packet)
      /\ Len(recovered') = sequenceNumber - n
      /\ \A i \in 1..(sequenceNumber - n) :
            recovered'[i] = backupBuffer[first + i - 1]
  <2>1. /\ first \in Int
        /\ \A i \in first..Len(backupBuffer) : backupBuffer[i] \in Packet
    BY <1>1, <1>3 DEF TypeOK
  <2>2. recovered' = SubSeq(backupBuffer, first, Len(backupBuffer))
    BY <1>2 DEF ToRecover
  <2> HIDE DEF first
  <2>3. /\ recovered' \in Seq(Packet)
        /\ Len(recovered') = IF first <= Len(backupBuffer)
                             THEN Len(backupBuffer) - first + 1 ELSE 0
        /\ \A i \in 1..(Len(backupBuffer) - first + 1) :
              recovered'[i] = backupBuffer[first + i - 1]
    BY <1>1, <2>1, <2>2, SubSeqProperties
  <2>4. /\ Len(recovered') = sequenceNumber - n
        /\ 1..(Len(backupBuffer) - first + 1) = 1..(sequenceNumber - n)
    BY <1>1, <1>3, <2>1, <2>3 DEF TypeOK
  <2> QED BY <2>3, <2>4
<1>5. TypeOK'
  BY <1>1, <1>2, <1>4 DEF TypeOK
<1>6. RecoverExact'
  <2>1. ASSUME NEW i \in 1..(sequenceNumber - n)
        PROVE  recovered'[i].num = n + i
    <3>1. /\ first + i - 1 \in 1..Len(backupBuffer)
          /\ Dropped + (first + i - 1) = n + i
      BY <1>1, <1>3 DEF Dropped, TypeOK
    <3>2. backupBuffer[first + i - 1].num = Dropped + (first + i - 1)
      BY <3>1 DEF WriterInv, BackupIsNewestRun
    <3> QED BY <1>4, <3>1, <3>2
  <2> QED BY <1>2, <1>4, <2>1 DEF RecoverExact
<1>7. BackupIsNewestRun' /\ BackupSizeExact' /\ OffsetsMonotone'
  BY <1>2 DEF WriterInv, BackupIsNewestRun, BackupSizeExact, OffsetsMonotone,
              Dropped
<1>8. OutageBudget' /\ OutageIsBackedUp' /\ PendingWrite' /\ BackupGrowth'
  BY <1>2 DEF WriterInv, OutageBudget, OutageIsBackedUp, PendingWrite,
              BackupGrowth
<1>9. RecoverLocked'
  BY <1>1, <1>2 DEF WriterInv, RecoverLocked, BackupGrowth, TypeOK
<1> QED BY <1>5, <1>6, <1>7, <1>8, <1>9 DEF WriterInv

\* WriterInv holds in the constructed writer and every operation keeps it.
THEOREM WriterInvariant == Spec => []WriterInv
<1>1. Init => WriterInv
  <2> SUFFICES ASSUME Init PROVE WriterInv
    OBVIOUS
  <2>1. TypeOK
    BY DEF Init, TypeOK
  <2>2. BackupIsNewestRun /\ BackupSizeExact /\ OffsetsMonotone
    BY DEF Init, BackupIsNewestRun, BackupSizeExact, OffsetsMonotone, Dropped
  <2>3. RecoverExact /\ RecoverLocked /\ PendingWrite
    BY DEF Init, RecoverExact, RecoverLocked, PendingWrite
  <2>4. OutageBudget /\ OutageIsBackedUp
    BY WriterAssumption DEF Init, OutageBudget, OutageIsBackedUp
  <2>5. BackupGrowth
    BY WriterAssumption, GrowthStep DEF Init, BackupGrowth, Budget
  <2> QED BY <2>1, <2>2, <2>3, <2>4, <2>5 DEF WriterInv
<1>2. WriterInv /\ [Next]_vars => WriterInv'
  <2> SUFFICES ASSUME WriterInv, [Next]_vars PROVE WriterInv'
    OBVIOUS
  <2>1. CASE \E length \in Lengths : Write(length)
    BY <2>1, WriteInv
  <2>2. CASE Trim
    BY <2>2, TrimInv
  <2>3. CASE \E n \in 0..sequenceNumber : Recover(n)
    BY <2>3, RecoverInv
  <2>4. CASE BufferedOnly \/ WriteDone \/ Invalidate \/ Revive \/ AbortRecover
    BY <2>4, QuietInv
  <2>5. CASE UNCHANGED vars
    BY <2>5 DEF vars, WriterInv, TypeOK, BackupIsNewestRun, BackupSizeExact,
        OffsetsMonotone, RecoverExact, RecoverLocked, OutageBudget,
        OutageIsBackedUp, PendingWrite, BackupGrowth, Dropped, Newest
  <2> QED BY <2>1, <2>2, <2>3, <2>4, <2>5 DEF Next
<1> QED BY <1>1, <1>2, PTL DEF Spec

\* The variables of the writer keep their types.
THEOREM WriterTypeCorrect == Spec => []TypeOK
<1>1. WriterInv => TypeOK
  BY DEF WriterInv
<1> QED BY <1>1, WriterInvariant, PTL

\* The backup is always a gap-free run of the newest packets and its recorded
\* size is exact.
THEOREM BackupCorrect == Spec => [](BackupIsNewestRun /\ BackupSizeExact)
<1>1. WriterInv => BackupIsNewestRun /\ BackupSizeExact
  BY DEF WriterInv
<1> QED BY <1>1, WriterInvariant, PTL

\* BackedWriter::recover returns exactly what the peer has not received.
THEOREM RecoverCorrect == Spec => []RecoverExact
<1>1. WriterInv => RecoverExact
  BY DEF WriterInv
<1> QED BY <1>1, WriterInvariant, PTL

\* The byte budgets: an outage exceeds its limit by at most one MAC, what it
\* accepted is backed up, and the backup grows by one budget per outage.
THEOREM BudgetsHold == Spec => [](OutageBudget /\ OutageIsBackedUp /\ BackupGrowth)
<1>1. WriterInv => OutageBudget /\ OutageIsBackedUp /\ BackupGrowth
  BY DEF WriterInv
<1> QED BY <1>1, WriterInvariant, PTL

\* No operation drops a packet from the backup while there is no socket.
THEOREM NoDropWhileDisconnectedCorrect == Spec => NoDropWhileDisconnected
<1>1. WriterInv /\ [Next]_vars => [~connected => Dropped' = Dropped]_vars
  <2> SUFFICES ASSUME WriterInv, Next, ~connected PROVE Dropped' = Dropped
    OBVIOUS
  <2>1. ASSUME NEW length \in Lengths, Write(length)
        PROVE  Dropped' = Dropped
    <3>1. /\ backupBuffer \in Seq(Packet)
          /\ sequenceNumber \in Nat
          /\ sequenceNumber' = sequenceNumber + 1
          /\ \E p : backupBuffer' = Append(backupBuffer, p)
      BY <2>1 DEF WriterInv, TypeOK, Write
    <3>2. Len(backupBuffer') = Len(backupBuffer) + 1 /\ Len(backupBuffer) \in Nat
      BY <3>1
    <3> QED BY <3>1, <3>2 DEF Dropped
  <2>2. CASE ~\E length \in Lengths : Write(length)
    <3>1. UNCHANGED <<backupBuffer, sequenceNumber>>
      BY <2>2 DEF Next, Trim, BufferedOnly, WriteDone, Invalidate, Recover,
                  Revive, AbortRecover, writerVars
    <3> QED BY <3>1 DEF Dropped
  <2> QED BY <2>1, <2>2
<1> QED BY <1>1, WriterInvariant, PTL DEF Spec, NoDropWhileDisconnected

=============================================================================
