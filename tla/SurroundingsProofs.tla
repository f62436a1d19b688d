-------------------------- MODULE SurroundingsProofs --------------------------
(***************************************************************************)
(* Proofs about the parts of Surroundings.  A step of the whole is a step  *)
(* of one part or leaves it alone, so that each part's invariant is proved *)
(* of its own steps.                                                       *)
(***************************************************************************)
EXTENDS Surroundings, BackendsProofs

LEMMA PartsStep ==
    ASSUME [SurroundingsNext]_surroundings
    PROVE  /\ [Next]_vars
           /\ [FileNext]_fileVars
           /\ [SyslogNext]_syslogVars
           /\ [LevelNext]_levelVars
<1>1. CASE SurroundingsNext
  BY <1>1 DEF SurroundingsNext, Follow
<1>2. CASE UNCHANGED surroundings
  BY <1>2 DEF surroundings
<1>3. QED
  BY <1>1, <1>2

-----------------------------------------------------------------------------
(* SyslogSocket *)

Socket == [state : {"live", "ended", "failed", "closed"}, pending : Nat]

SyslogInv ==
    /\ protocol \in Protocols /\ sockets \in Seq(Socket) /\ current \in 0..Len(sockets)
    /\ SocketsKept

LEMMA SocketAt ==
    ASSUME sockets \in Seq(Socket)
    PROVE  /\ DOMAIN sockets = 1..Len(sockets) /\ Len(sockets) \in Nat
           /\ \A k \in DOMAIN sockets :
                 /\ sockets[k] \in Socket /\ sockets[k].pending \in Nat
                 /\ sockets[k].state \in {"live", "ended", "failed", "closed"}
<1>1. /\ DOMAIN sockets = 1..Len(sockets) /\ Len(sockets) \in Nat
      /\ \A k \in DOMAIN sockets : sockets[k] \in Socket
  BY LenProperties, ElementOfSeq
<1>2. \A s \in Socket :
         s.pending \in Nat /\ s.state \in {"live", "ended", "failed", "closed"}
  BY DEF Socket
<1>3. QED
  BY <1>1, <1>2

LEMMA SocketFills ==
    ASSUME NEW s \in Socket, NEW n \in Nat
    PROVE  LET filled == [s EXCEPT !.pending = @ + n]
           IN  /\ filled \in Socket /\ filled.state = s.state
               /\ filled.pending = s.pending + n
  BY DEF Socket

\* One socket changes, the others do not.
LEMMA SocketChanged ==
    ASSUME sockets \in Seq(Socket), NEW k \in DOMAIN sockets, NEW s \in Socket
    PROVE  LET after == [sockets EXCEPT ![k] = s]
           IN  /\ after \in Seq(Socket) /\ Len(after) = Len(sockets)
               /\ DOMAIN after = DOMAIN sockets
               /\ after[k] = s
               /\ \A j \in DOMAIN sockets : j # k => after[j] = sockets[j]
  BY ExceptSeq

LEMMA SyslogStep == SyslogInv /\ [SyslogNext]_syslogVars => SyslogInv'
<1> SUFFICES ASSUME SyslogInv, [SyslogNext]_syslogVars PROVE SyslogInv'
  OBVIOUS
<1> USE SyslogAssumption DEF SyslogInv, SyslogAssumption, NoSocket
<1>1. ASSUME NEW size \in MessageSizes, WriteMessage(size) PROVE SyslogInv'
  <2> DEFINE fresh == [state |-> "live", pending |-> 0]
  <2>1. fresh \in Socket
    BY DEF Socket
  <2>2. /\ WithTarget \in Seq(Socket) /\ Target \in DOMAIN WithTarget
        /\ DOMAIN WithTarget = DOMAIN sockets \cup {Target}
        /\ Len(WithTarget) \in Nat /\ DOMAIN WithTarget = 1..Len(WithTarget)
        /\ \A j \in DOMAIN sockets : WithTarget[j] = sockets[j]
        /\ WithTarget[Target].state = "live" /\ WithTarget[Target].pending <= MAX_PENDING_TCP_BYTES
        /\ WithTarget[Target].pending \in Nat
    <3>1. CASE current = 0
      <4> HIDE DEF fresh
      <4>1. WithTarget = Append(sockets, fresh) /\ Target = Len(sockets) + 1
        BY <3>1 DEF WithTarget, Target, fresh
      <4>2. QED
        BY <4>1, <2>1, SocketAt, AppendProperties DEF fresh
    <3>2. CASE current # 0
      BY <3>2, SocketAt DEF WithTarget, Target, SocketsKept
    <3>3. QED
      BY <3>1, <3>2
  <2>3. /\ sockets' \in Seq(Socket) /\ current' = Target /\ Len(sockets') = Len(WithTarget)
        /\ DOMAIN sockets' = DOMAIN WithTarget
        /\ \A j \in DOMAIN WithTarget : sockets'[j].state = WithTarget[j].state
        /\ \A j \in DOMAIN WithTarget : sockets'[j].pending <= MAX_PENDING_TCP_BYTES
    <3>1. \A j \in DOMAIN WithTarget : WithTarget[j].pending <= MAX_PENDING_TCP_BYTES
      BY <2>2 DEF SocketsKept
    <3>2. CASE sockets' = WithTarget
      BY <1>1, <2>2, <3>1, <3>2 DEF WriteMessage
    <3>3. CASE /\ WithTarget[Target].pending + size <= MAX_PENDING_TCP_BYTES
               /\ sockets' = [WithTarget EXCEPT ![Target].pending = @ + size]
      <4> DEFINE s == [WithTarget[Target] EXCEPT !.pending = @ + size]
      <4>1. WithTarget[Target] \in Socket
        BY <2>2, ElementOfSeq
      <4>2. s \in Socket /\ s.state = WithTarget[Target].state /\ s.pending <= MAX_PENDING_TCP_BYTES
        BY <3>3, <4>1, SocketFills
      <4>3. sockets' = [WithTarget EXCEPT ![Target] = s]
        BY <3>3
      <4> HIDE DEF s
      <4>4. QED
        BY SMTT(60), <1>1, <2>2, <3>1, <4>2, <4>3, ExceptSeq DEF WriteMessage
    <3>4. QED
      BY <1>1, <2>2, <3>2, <3>3 DEF WriteMessage
  <2>4. {k \in DOMAIN sockets' : sockets'[k].state = "live"} = {Target}
    BY SMTT(60), <2>2, <2>3 DEF SocketsKept, Target
  <2>5. QED
    BY SMTT(60), <1>1, <2>2, <2>3, <2>4 DEF SocketsKept, WriteMessage
\* What happens to one socket that is not live afterwards.
<1>2. ASSUME NEW k \in DOMAIN sockets, NEW s \in Socket, s.pending <= MAX_PENDING_TCP_BYTES,
             s.state = "live" => sockets[k].state = "live",
             sockets' = [sockets EXCEPT ![k] = s], protocol' = protocol,
             current' = IF current = k /\ s.state # "live" THEN 0 ELSE current
      PROVE  SyslogInv'
  <2>1. /\ sockets' \in Seq(Socket) /\ Len(sockets') = Len(sockets)
        /\ DOMAIN sockets' = DOMAIN sockets /\ sockets'[k] = s
        /\ \A j \in DOMAIN sockets : j # k => sockets'[j] = sockets[j]
    BY <1>2, SocketChanged
  <2>2. \A j \in DOMAIN sockets' : sockets'[j].pending <= MAX_PENDING_TCP_BYTES
    BY <1>2, <2>1 DEF SocketsKept
  <2>3. {j \in DOMAIN sockets' : sockets'[j].state = "live"} = {current'} \ {0}
    BY <1>2, <2>1, SocketAt DEF SocketsKept
  <2>4. current' \in 0..Len(sockets')
    BY <1>2, <2>1
  <2>5. QED
    BY <1>2, <2>1, <2>2, <2>3, <2>4 DEF SocketsKept
<1>3. ASSUME NEW k, Sent(k) PROVE SyslogInv'
  <2> DEFINE s == [sockets[k] EXCEPT !.pending = 0]
  <2>1. /\ k \in DOMAIN sockets /\ s \in Socket /\ s.pending <= MAX_PENDING_TCP_BYTES
        /\ s.state = sockets[k].state /\ sockets' = [sockets EXCEPT ![k] = s]
    BY <1>3, SocketAt DEF Sent, Socket
  <2>2. current = k => s.state = "live"
    BY <2>1 DEF SocketsKept
  <2> HIDE DEF s
  <2>3. QED
    BY <1>2, <1>3, <2>1, <2>2 DEF Sent
<1>4. ASSUME NEW k, SocketFails(k) PROVE SyslogInv'
  <2> DEFINE s == [state |-> "failed", pending |-> 0]
  <2>1. s \in Socket /\ s.pending <= MAX_PENDING_TCP_BYTES /\ s.state # "live"
    BY DEF Socket
  <2>2. QED
    BY <1>2, <1>4, <2>1 DEF SocketFails, Forget
<1>5. ASSUME NEW k, SocketCloses(k) PROVE SyslogInv'
  <2> DEFINE s == [state |-> "closed", pending |-> 0]
  <2>1. s \in Socket /\ s.pending <= MAX_PENDING_TCP_BYTES /\ s.state # "live"
    BY DEF Socket
  <2>2. QED
    BY <1>2, <1>5, <2>1 DEF SocketCloses, Forget
<1>6. ASSUME CloseSyslog PROVE SyslogInv'
  <2> DEFINE s == [sockets[current] EXCEPT !.state = "ended"]
  <2>1. /\ current \in DOMAIN sockets /\ s \in Socket /\ s.pending <= MAX_PENDING_TCP_BYTES
        /\ s.state # "live" /\ sockets' = [sockets EXCEPT ![current] = s]
    BY <1>6, SocketAt DEF CloseSyslog, Socket, SocketsKept
  <2> HIDE DEF s
  <2>2. QED
    BY <1>2, <1>6, <2>1 DEF CloseSyslog
<1>7. CASE UNCHANGED syslogVars
  BY <1>7 DEF syslogVars, SocketsKept
<1>8. QED
  BY <1>1, <1>3, <1>4, <1>5, <1>6, <1>7 DEF SyslogNext

-----------------------------------------------------------------------------
(* FileRotation *)

Before(a, b) == \A k \in 1..Len(a), l \in 1..Len(b) : a[k] < b[l]
StartOf(a, b) == Len(a) <= Len(b) /\ \A k \in 1..Len(a) : a[k] = b[k]
Older(a, b) == Before(a, b) \/ (file.gz /\ StartOf(a, b))

\* A rotation under way has still to move backup i on.
Oldest == file.backupCount - 1
ToMove(i) == rotating = "shift" /\ (i <= index \/ index = Oldest)
Place(i) == IF ToMove(i) THEN i + 1 ELSE i

FileShape ==
    /\ file \in FileSetups /\ fd \in {"open", "closed"}
    /\ rotating \in {"no", "close", "shift", "unlink", "open"} /\ index \in Backups
    /\ disk \in [Backups -> Seq(Nat)] /\ lines \in Seq(Nat) /\ rotations \in Nat
    /\ \A n \in 1..Len(lines) : lines[n] <= rotations
    /\ fd = "open" => rotating \in {"no", "close"} /\ disk[0] # Missing

LinesNamed == \A i \in Backups : \A k \in 1..Len(Lines(i)) : Lines(i)[k] \in 1..Len(lines)
LinesAscend ==
    \A i \in Backups : \A k, l \in 1..Len(Lines(i)) : k < l => Lines(i)[k] < Lines(i)[l]
BackupsAscend == \A i, j \in Backups : i < j => Older(Lines(j), Lines(i))

\* No line is further on than the rotations since it was written took it,
PlacesBounded ==
    \A i \in Backups : \A k \in 1..Len(Lines(i)) : Place(i) <= rotations - lines[Lines(i)[k]]
\* and none is gone before they took it past the last place.
LinesPresent ==
    \A n \in 1..Len(lines) :
       \/ \E i \in Backups : \E k \in 1..Len(Lines(i)) : Lines(i)[k] = n
       \/ rotations - lines[n] > file.backupCount

\* What rotate() has done so far leaves room for what it does next.
RoomToMove ==
    /\ rotating = "shift" => index = 0 \/ index <= Oldest
    /\ rotating = "shift" /\ index < Oldest => disk[index + 1] = Missing
    /\ rotating = "unlink" => file.gz /\ file.backupCount > 0 /\ disk[1] = disk[0]

FileInv == FileShape /\ LinesNamed /\ LinesAscend /\ BackupsAscend
             /\ PlacesBounded /\ LinesPresent /\ RoomToMove

LEMMA MissingIsEmpty ==
    /\ Missing \in Seq(Nat)
    /\ \A q \in Seq(Nat) : Len(q) > 0 /\ q[Len(q)] # 0 => q # Missing
  BY DEF Missing

LEMMA SetupType ==
    ASSUME file \in FileSetups
    PROVE  file.backupCount \in Nat /\ file.gz \in BOOLEAN /\ Backups = 0..file.backupCount
  BY FileAssumption DEF FileAssumption, Backups

LEMMA LinesType ==
    ASSUME disk \in [Backups -> Seq(Nat)]
    PROVE  \A i \in Backups : Lines(i) \in Seq(Nat) /\ Len(Lines(i)) \in Nat
  BY EmptySeq, LenProperties DEF Lines

\* Contents move between places, in order, and none that is to stay is lost:
\* from[i] is where what is now in place i came from, or -1 if nothing did.
LEMMA Rearranged ==
    ASSUME FileInv, file' = file, lines' = lines, rotations' \in {rotations, rotations + 1},
           NEW from \in [Backups -> Backups \cup {-1}],
           \A i \in Backups : Lines(i)' = IF from[i] = -1 THEN <<>> ELSE Lines(from[i]),
           \A i, j \in Backups : i < j /\ from[i] # -1 /\ from[j] # -1 =>
               from[i] < from[j] \/ (file.gz /\ from[i] = from[j]),
           \A i \in Backups : from[i] # -1 =>
               Place(i)' - rotations' <= Place(from[i]) - rotations,
           \A j \in Backups :
               \/ Lines(j) = <<>>
               \/ \E i \in Backups : from[i] # -1 /\ Lines(from[i]) = Lines(j)
               \/ Place(j) + (rotations' - rotations) > file.backupCount
    PROVE  LinesNamed' /\ LinesAscend' /\ BackupsAscend' /\ PlacesBounded' /\ LinesPresent'
<1>1. /\ file.backupCount \in Nat /\ Backups = 0..file.backupCount /\ Backups' = Backups
      /\ rotations \in Nat /\ Len(lines) \in Nat /\ \A n \in 1..Len(lines) : lines[n] \in Nat
  BY SetupType, LenProperties, ElementOfSeq DEF FileInv, FileShape, Backups
<1>2. \A i \in Backups : Lines(i) \in Seq(Nat) /\ Len(Lines(i)) \in Nat
  BY LinesType DEF FileInv, FileShape
<1>3. Len(<<>>) = 0
  OBVIOUS
<1>4. LinesNamed' /\ LinesAscend'
  <2>1. ASSUME NEW i \in Backups, NEW k \in 1..Len(Lines(i)'),
               NEW l \in 1..Len(Lines(i)')
        PROVE  /\ Lines(i)'[k] \in 1..Len(lines)
               /\ k < l => Lines(i)'[k] < Lines(i)'[l]
    <3>1. from[i] \in Backups /\ Lines(i)' = Lines(from[i])
      BY <1>3, <2>1
    <3>2. QED
      BY <2>1, <3>1 DEF FileInv, LinesNamed, LinesAscend
  <2>2. QED
    BY <1>1, <2>1 DEF LinesNamed, LinesAscend
<1>5. BackupsAscend'
  <2> SUFFICES ASSUME NEW i \in Backups, NEW j \in Backups, i < j,
                      from[i] # -1, from[j] # -1
               PROVE  Older(Lines(j), Lines(i))'
    BY <1>1, <1>3 DEF BackupsAscend, Older, Before
  <2>1. from[i] \in Backups /\ from[j] \in Backups
    OBVIOUS
  <2>2. CASE from[i] < from[j]
    BY <2>1, <2>2 DEF FileInv, BackupsAscend, Older
  <2>3. CASE file.gz /\ from[i] = from[j]
    BY <1>2, <2>1, <2>3 DEF Older, StartOf
  <2>4. QED
    BY <2>2, <2>3
<1>6. PlacesBounded'
  <2> SUFFICES ASSUME NEW i \in Backups, NEW k \in 1..Len(Lines(i)'), from[i] # -1
               PROVE  Place(i)' <= rotations' - lines[Lines(i)'[k]]
    BY <1>1, <1>3 DEF PlacesBounded
  <2> DEFINE n == Lines(from[i])[k]
  <2>1. /\ from[i] \in Backups /\ k \in 1..Len(Lines(from[i])) /\ Lines(i)' = Lines(from[i])
        /\ n \in 1..Len(lines)
    BY DEF FileInv, LinesNamed
  <2>2. Place(from[i]) <= rotations - lines[n]
    BY <2>1 DEF FileInv, PlacesBounded
  <2>3. /\ Place(from[i]) \in Int /\ lines[n] \in Nat
        /\ Place(i)' - rotations' <= Place(from[i]) - rotations
    BY SMTT(60), <1>1, <2>1 DEF Place
  <2>4. Place(i)' \in Int
    BY <1>1 DEF Place
  <2>5. Lines(i)'[k] = n
    BY <2>1
  <2> HIDE DEF n
  <2>6. QED
    BY SMTT(60), <1>1, <2>2, <2>3, <2>4, <2>5
<1>7. LinesPresent'
  <2> SUFFICES ASSUME NEW n \in 1..Len(lines)
               PROVE  \/ \E i \in Backups : \E k \in 1..Len(Lines(i)') : Lines(i)'[k] = n
                      \/ rotations' - lines[n] > file.backupCount
    BY <1>1 DEF LinesPresent
  <2>1. CASE rotations - lines[n] > file.backupCount
    BY <1>1, <2>1
  <2>2. ASSUME NEW j \in Backups, NEW k \in 1..Len(Lines(j)), Lines(j)[k] = n
        PROVE  \/ \E i \in Backups : \E l \in 1..Len(Lines(i)') : Lines(i)'[l] = n
               \/ rotations' - lines[n] > file.backupCount
    <3>1. Lines(j) # <<>> /\ Place(j) \in Int
      BY <1>1, <1>3, <2>2 DEF Place
    <3>2. Place(j) <= rotations - lines[n]
      BY <2>2 DEF FileInv, PlacesBounded
    <3>3. CASE \E i \in Backups : from[i] # -1 /\ Lines(from[i]) = Lines(j)
      BY <2>2, <3>3
    <3>4. CASE Place(j) + (rotations' - rotations) > file.backupCount
      BY SMTT(60), <1>1, <3>1, <3>2, <3>4
    <3>5. QED
      BY <3>1, <3>3, <3>4
  <2>3. QED
    BY <2>1, <2>2 DEF FileInv, LinesPresent
<1>8. QED
  BY <1>4, <1>5, <1>6, <1>7

\* Nothing moves, and a rotation under way has no more left to move.
LEMMA NothingMoves ==
    ASSUME FileInv, file' = file, lines' = lines, rotations' \in {rotations, rotations + 1},
           \A i \in Backups : Lines(i)' = Lines(i),
           \A i \in Backups : Place(i)' - rotations' <= Place(i) - rotations
    PROVE  LinesNamed' /\ LinesAscend' /\ BackupsAscend' /\ PlacesBounded' /\ LinesPresent'
<1> DEFINE from == [i \in Backups |-> i]
<1>1. file.backupCount \in Nat /\ Backups = 0..file.backupCount
  BY SetupType DEF FileInv, FileShape
<1>2. /\ from \in [Backups -> Backups \cup {-1}]
      /\ \A i \in Backups : from[i] = i /\ from[i] # -1
  BY <1>1
<1> HIDE DEF from
<1>3. QED
  BY <1>2, Rearranged

\* Where a rename of backup m onto the next takes everything.
LEMMA RenamedMoves ==
    ASSUME FileInv, file' = file, lines' = lines, rotations' = rotations,
           NEW m \in Backups, m + 1 \in Backups, disk' = Renamed(m),
           disk[m + 1] = Missing \/ m = Oldest,
           rotating = "shift", m = index,
           \A i \in Backups : i <= m => Place(i)' <= i + 1,
           \A i \in Backups : i > m => Place(i)' = i
    PROVE  /\ disk' \in [Backups -> Seq(Nat)] /\ disk'[m] = Missing
           /\ LinesNamed' /\ LinesAscend' /\ BackupsAscend' /\ PlacesBounded' /\ LinesPresent'
<1>1. /\ file.backupCount \in Nat /\ Backups = 0..file.backupCount /\ rotations \in Nat
      /\ disk \in [Backups -> Seq(Nat)]
  BY SetupType DEF FileInv, FileShape
<1>2. \A i \in Backups : Place(i) = IF i <= m \/ m = Oldest THEN i + 1 ELSE i
  BY DEF Place, ToMove
<1>3. CASE disk[m] = Missing
  <2>1. disk' = disk
    BY <1>3 DEF Renamed
  <2>2. \A i \in Backups : Lines(i)' = Lines(i)
    BY <2>1 DEF Lines
  <2>3. \A i \in Backups : Place(i)' - rotations' <= Place(i) - rotations
    <3> SUFFICES ASSUME NEW i \in Backups PROVE Place(i)' - rotations <= Place(i) - rotations
      OBVIOUS
    <3>1. CASE i <= m
      <4>1. Place(i)' <= i + 1 /\ Place(i) = i + 1 /\ Place(i)' \in Int
        BY <1>1, <1>2, <3>1 DEF Place
      <4>2. QED
        BY <1>1, <4>1
    <3>2. CASE ~(i <= m)
      <4>1. Place(i)' = i /\ Place(i) \in {i, i + 1}
        BY <1>1, <1>2, <3>2
      <4>2. QED
        BY <1>1, <4>1
    <3>3. QED
      BY <3>1, <3>2
  <2>4. QED
    BY <1>1, <1>3, <2>1, <2>2, <2>3, NothingMoves
<1>4. CASE disk[m] # Missing
  <2> DEFINE from == [i \in Backups |-> IF i = m THEN -1 ELSE IF i = m + 1 THEN m ELSE i]
  <2>1. /\ disk' = [disk EXCEPT ![m + 1] = disk[m], ![m] = Missing]
        /\ disk' \in [Backups -> Seq(Nat)] /\ disk'[m] = Missing /\ disk'[m + 1] = disk[m]
        /\ \A i \in Backups : i # m /\ i # m + 1 => disk'[i] = disk[i]
    BY SMTT(60), <1>1, <1>4, MissingIsEmpty DEF Renamed
  <2>2. \A i \in Backups : Lines(i)' = IF from[i] = -1 THEN <<>> ELSE Lines(from[i])
    BY <1>1, <2>1 DEF Lines
  <2>3. /\ from \in [Backups -> Backups \cup {-1}]
        /\ \A i, j \in Backups : i < j /\ from[i] # -1 /\ from[j] # -1 => from[i] < from[j]
    BY <1>1
  <2>4. \A i \in Backups : from[i] # -1 => Place(i)' - rotations' <= Place(from[i]) - rotations
    <3> SUFFICES ASSUME NEW i \in Backups, i # m
                 PROVE  Place(i)' - rotations <= Place(from[i]) - rotations
      OBVIOUS
    <3>1. CASE i < m
      <4>1. Place(i)' <= i + 1 /\ Place(from[i]) = i + 1 /\ Place(i)' \in Int
        BY <1>1, <1>2, <3>1 DEF Place
      <4> HIDE DEF from
      <4>2. QED
        BY <1>1, <4>1
    <3>2. CASE i = m + 1
      <4>1. Place(i)' = m + 1 /\ Place(from[i]) = m + 1
        BY <1>1, <1>2, <3>2
      <4> HIDE DEF from
      <4>2. QED
        BY <1>1, <4>1
    <3>3. CASE i > m + 1
      <4>1. Place(i)' = i /\ Place(from[i]) \in {i, i + 1}
        BY <1>1, <1>2, <3>3
      <4> HIDE DEF from
      <4>2. QED
        BY <1>1, <4>1
    <3>4. QED
      BY <1>1, <3>1, <3>2, <3>3
  <2>5. ASSUME NEW j \in Backups
        PROVE  \/ Lines(j) = <<>>
               \/ \E i \in Backups : from[i] # -1 /\ Lines(from[i]) = Lines(j)
               \/ Place(j) + (rotations' - rotations) > file.backupCount
    <3>1. CASE j = m
      <4>1. m + 1 \in Backups /\ from[m + 1] = m /\ m # -1
        BY <1>1
      <4>2. QED
        BY <3>1, <4>1
    <3>2. CASE j = m + 1
      <4>1. CASE disk[m + 1] = Missing
        BY <3>2, <4>1 DEF Lines
      <4>2. CASE m = Oldest
        BY <1>1, <1>2, <3>2, <4>2 DEF Oldest
      <4>3. QED
        BY <4>1, <4>2
    <3>3. CASE j # m /\ j # m + 1
      <4>1. from[j] = j /\ j # -1
        BY <1>1, <3>3
      <4>2. QED
        BY <4>1
    <3>4. QED
      BY <3>1, <3>2, <3>3
  <2> HIDE DEF from
  <2>6. QED
    BY <2>1, <2>2, <2>3, <2>4, <2>5, Rearranged
<1>5. QED
  BY <1>3, <1>4

\* A line is appended to the file, after all those there are.
LEMMA LineWritten ==
    ASSUME FileInv, WriteLine
    PROVE  FileInv'
<1>1. /\ file.backupCount \in Nat /\ Backups = 0..file.backupCount /\ rotations \in Nat
      /\ disk \in [Backups -> Seq(Nat)] /\ lines \in Seq(Nat) /\ Len(lines) \in Nat
      /\ 0 \in Backups /\ disk[0] # Missing /\ Lines(0) = disk[0] /\ Backups' = Backups
  BY SetupType, LenProperties DEF FileInv, FileShape, WriteLine, Lines, Backups
<1>2. /\ lines' = Append(lines, rotations) /\ lines' \in Seq(Nat) /\ Len(lines') = Len(lines) + 1
      /\ lines'[Len(lines) + 1] = rotations
      /\ \A n \in 1..Len(lines) : lines'[n] = lines[n]
  BY <1>1, AppendProperties DEF WriteLine
<1> DEFINE new == Len(lines) + 1
           before == Lines(0)
<1>3. before \in Seq(Nat) /\ Len(before) \in Nat /\ new \in Nat /\ new > 0
  BY <1>1, LinesType
<1>4. /\ disk' = [disk EXCEPT ![0] = Append(before, new)] /\ rotations' = rotations
      /\ file' = file /\ fd' = fd /\ index' = index /\ rotating' \in {"no", "close"}
      /\ rotating = "no" /\ fd = "open"
  BY <1>1, <1>2 DEF WriteLine
<1> HIDE DEF new, before
<1>5. /\ Append(before, new) \in Seq(Nat) /\ Len(Append(before, new)) = Len(before) + 1
      /\ Append(before, new)[Len(before) + 1] = new
      /\ \A k \in 1..Len(before) : Append(before, new)[k] = before[k]
  BY <1>3, AppendProperties
<1>6. Append(before, new) # Missing
  BY <1>3, <1>5, MissingIsEmpty
<1>7. /\ disk' \in [Backups -> Seq(Nat)] /\ disk'[0] # Missing
      /\ Lines(0)' = Append(before, new)
      /\ \A i \in Backups : i # 0 => Lines(i)' = Lines(i)
  <2>1. /\ disk' \in [Backups -> Seq(Nat)] /\ disk'[0] = Append(before, new)
        /\ \A i \in Backups : i # 0 => disk'[i] = disk[i]
    BY <1>1, <1>4, <1>5
  <2>2. QED
    BY <1>6, <2>1 DEF Lines
<1>8. \A i \in Backups : Place(i) = i /\ Place(i)' = i
  BY <1>4 DEF Place, ToMove
<1>9. FileShape'
  <2>1. \A n \in 1..Len(lines') : lines'[n] <= rotations'
    BY <1>1, <1>2, <1>4 DEF FileInv, FileShape
  <2>2. QED
    BY <1>1, <1>2, <1>4, <1>7, <2>1 DEF FileInv, FileShape
<1>10. \A i \in Backups : \A k \in 1..Len(Lines(i)) : Lines(i)[k] \in 1..Len(lines)
  BY DEF FileInv, LinesNamed
<1>11. \A k \in 1..Len(before) : before[k] \in 1..Len(lines)
  BY <1>1, <1>10 DEF before
<1>12. LinesNamed'
  <2>1. ASSUME NEW i \in Backups, NEW k \in 1..Len(Lines(i)')
        PROVE  Lines(i)'[k] \in 1..Len(lines')
    <3>1. CASE i = 0
      <4>1. k \in 1..Len(before) \/ k = Len(before) + 1
        BY <1>3, <1>5, <1>7, <2>1, <3>1
      <4>2. Lines(i)'[k] \in 1..Len(lines) \/ Lines(i)'[k] = new
        BY <1>5, <1>7, <1>11, <3>1, <4>1
      <4>3. QED
        BY <1>1, <1>2, <4>2 DEF new
    <3>2. CASE i # 0
      BY <1>1, <1>2, <1>7, <1>10, <2>1, <3>2
    <3>3. QED
      BY <3>1, <3>2
  <2>2. QED
    BY <1>1, <2>1 DEF LinesNamed
<1>13. LinesAscend'
  <2>1. ASSUME NEW i \in Backups, NEW k \in 1..Len(Lines(i)'), NEW l \in 1..Len(Lines(i)'), k < l
        PROVE  Lines(i)'[k] < Lines(i)'[l]
    <3>1. CASE i = 0
      <4>1. CASE l = Len(before) + 1
        <5>1. k \in 1..Len(before) /\ before[k] \in 1..Len(lines)
          BY <1>3, <1>11, <2>1, <4>1
        <5>2. Lines(i)'[k] = before[k] /\ Lines(i)'[l] = new
          BY <1>5, <1>7, <3>1, <4>1, <5>1
        <5>3. QED
          BY <1>1, <5>1, <5>2 DEF new
      <4>2. CASE l # Len(before) + 1
        <5>1. k \in 1..Len(before) /\ l \in 1..Len(before)
          BY <1>3, <1>5, <1>7, <2>1, <3>1, <4>2
        <5>2. before[k] < before[l]
          BY <1>1, <2>1, <5>1 DEF FileInv, LinesAscend, before
        <5>3. QED
          BY <1>5, <1>7, <3>1, <5>1, <5>2
      <4>3. QED
        BY <4>1, <4>2
    <3>2. CASE i # 0
      BY <1>7, <2>1, <3>2 DEF FileInv, LinesAscend
    <3>3. QED
      BY <3>1, <3>2
  <2>2. QED
    BY <1>1, <2>1 DEF LinesAscend
<1>14. BackupsAscend'
  <2> SUFFICES ASSUME NEW i \in Backups, NEW j \in Backups, i < j
               PROVE  Older(Lines(j), Lines(i))'
    BY <1>1 DEF BackupsAscend
  <2>1. Older(Lines(j), Lines(i)) /\ Lines(j)' = Lines(j) /\ Len(Lines(j)) \in Nat
    BY <1>1, <1>7, LinesType DEF FileInv, BackupsAscend
  <2>2. CASE i = 0
    <3> DEFINE older == Lines(j)
    <3>1. \A k \in 1..Len(older) : older[k] \in 1..Len(lines)
      BY <1>10
    <3>2. older = Lines(j)' /\ Len(older) \in Nat
      BY <2>1
    <3>3. Before(older, before) \/ (file.gz /\ StartOf(older, before))
      BY <2>1, <2>2 DEF Older, before
    <3> HIDE DEF older
    <3>4. CASE Before(older, before)
      <4>1. Before(older, Append(before, new))
        BY <1>1, <1>3, <1>5, <3>1, <3>4 DEF Before, new
      <4>2. QED
        BY <1>7, <2>2, <3>2, <4>1 DEF Older
    <3>5. CASE file.gz /\ StartOf(older, before)
      <4>1. StartOf(older, Append(before, new))
        BY <1>3, <1>5, <3>2, <3>5 DEF StartOf
      <4>2. QED
        BY <1>4, <1>7, <2>2, <3>2, <3>5, <4>1 DEF Older
    <3>6. QED
      BY <3>3, <3>4, <3>5
  <2>3. CASE i # 0
    BY <1>4, <1>7, <2>1, <2>3 DEF Older
  <2>4. QED
    BY <2>2, <2>3
<1>15. PlacesBounded'
  <2>1. ASSUME NEW i \in Backups, NEW k \in 1..Len(Lines(i)')
        PROVE  i <= rotations - lines'[Lines(i)'[k]]
    <3>1. CASE i = 0 /\ k = Len(before) + 1
      BY <1>1, <1>2, <1>5, <1>7, <3>1 DEF new
    <3>2. CASE ~(i = 0 /\ k = Len(before) + 1)
      <4>1. k \in 1..Len(Lines(i)) /\ Lines(i)'[k] = Lines(i)[k]
        <5>1. CASE i = 0
          <6>1. k \in 1..Len(before)
            BY <1>3, <1>5, <1>7, <2>1, <3>2, <5>1
          <6>2. Lines(i)'[k] = before[k] /\ Lines(i) = before
            BY <1>5, <1>7, <5>1, <6>1 DEF before
          <6>3. QED
            BY <6>1, <6>2
        <5>2. CASE i # 0
          BY <1>7, <2>1, <5>2
        <5>3. QED
          BY <5>1, <5>2
      <4>2. i <= rotations - lines[Lines(i)[k]] /\ Lines(i)[k] \in 1..Len(lines)
        BY <1>8, <1>10, <4>1 DEF FileInv, PlacesBounded
      <4>3. QED
        BY <1>2, <4>1, <4>2
    <3>3. QED
      BY <3>1, <3>2
  <2>2. QED
    BY <1>1, <1>4, <1>8, <2>1 DEF PlacesBounded
<1>16. LinesPresent'
  <2> SUFFICES ASSUME NEW n \in 1..Len(lines')
               PROVE  \/ \E i \in Backups : \E k \in 1..Len(Lines(i)') : Lines(i)'[k] = n
                      \/ rotations - lines'[n] > file.backupCount
    BY <1>1, <1>4 DEF LinesPresent
  <2>1. CASE n = new
    <3>1. Len(before) + 1 \in 1..Len(Lines(0)') /\ Lines(0)'[Len(before) + 1] = n
      BY <1>3, <1>5, <1>7, <2>1
    <3>2. QED
      BY <1>1, <3>1
  <2>2. CASE n # new
    <3>1. n \in 1..Len(lines) /\ lines'[n] = lines[n]
      BY <1>1, <1>2, <2>2 DEF new
    <3>2. ASSUME NEW i \in Backups, NEW k \in 1..Len(Lines(i)), Lines(i)[k] = n
          PROVE  k \in 1..Len(Lines(i)') /\ Lines(i)'[k] = n
      <4>1. CASE i = 0
        <5>1. Lines(i) = before /\ k \in 1..Len(before)
          BY <3>2, <4>1 DEF before
        <5>2. before[k] = n
          BY <3>2, <5>1
        <5>3. Lines(i)' = Append(before, new) /\ Append(before, new)[k] = n
          BY <1>5, <1>7, <4>1, <5>1, <5>2
        <5>4. k \in 1..Len(Append(before, new))
          BY <1>3, <1>5, <5>1
        <5>5. QED
          BY <5>3, <5>4
      <4>2. CASE i # 0
        BY <1>7, <3>2, <4>2
      <4>3. QED
        BY <4>1, <4>2
    <3>3. QED
      BY <3>1, <3>2 DEF FileInv, LinesPresent
  <2>3. QED
    BY <2>1, <2>2
<1>17. RoomToMove'
  BY <1>4 DEF RoomToMove
<1>18. QED
  BY <1>9, <1>12, <1>13, <1>14, <1>15, <1>16, <1>17 DEF FileInv

LEMMA FileStep == FileInv /\ [FileNext]_fileVars => FileInv'
<1> SUFFICES ASSUME FileInv, [FileNext]_fileVars PROVE FileInv'
  OBVIOUS
<1>1. /\ file.backupCount \in Nat /\ file.gz \in BOOLEAN /\ Backups = 0..file.backupCount
      /\ rotations \in Nat /\ 0 \in Backups
      /\ disk \in [Backups -> Seq(Nat)] /\ lines \in Seq(Nat) /\ Len(lines) \in Nat
      /\ index \in Backups /\ \A n \in 1..Len(lines) : lines[n] \in Nat /\ lines[n] <= rotations
  BY SetupType, LenProperties, ElementOfSeq DEF FileInv, FileShape
\* Where nothing moves, and no more is left to move.
<1>2. ASSUME file' = file, lines' = lines, rotations' = rotations,
             \A i \in Backups : Lines(i)' = Lines(i),
             rotating' # "shift"
      PROVE  LinesNamed' /\ LinesAscend' /\ BackupsAscend' /\ PlacesBounded' /\ LinesPresent'
  <2>1. \A i \in Backups : Place(i)' - rotations' <= Place(i) - rotations
    BY <1>1, <1>2 DEF Place, ToMove
  <2>2. QED
    BY <1>2, <2>1, NothingMoves
<1>3. ASSUME WriteLine PROVE FileInv'
  BY <1>3, LineWritten
<1>4. ASSUME CloseForRotation PROVE FileInv'
  <2>1. /\ file' = file /\ lines' = lines /\ disk' = disk /\ rotations' = rotations + 1
        /\ Backups' = Backups /\ rotating = "close" /\ rotating' = "shift" /\ fd' = "closed"
        /\ index' \in Backups /\ (index' = 0 \/ index' = Oldest)
        /\ (file.backupCount = 0 \/ index' = Oldest)
    BY <1>1, <1>4 DEF CloseForRotation, Oldest, Backups
  <2>2. \A i \in Backups : Lines(i)' = Lines(i)
    BY <2>1 DEF Lines
  <2>3. \A i \in Backups : Place(i)' = i + 1 /\ Place(i) = i
    BY <1>1, <2>1 DEF Place, ToMove, Oldest
  <2>4. LinesNamed' /\ LinesAscend' /\ BackupsAscend' /\ PlacesBounded' /\ LinesPresent'
    BY <1>1, <2>1, <2>2, <2>3, NothingMoves
  <2>5. FileShape'
    BY <1>1, <2>1 DEF FileInv, FileShape
  <2>6. RoomToMove'
    <3>1. Oldest' = Oldest /\ Oldest \in Int /\ (file.backupCount = 0 => Oldest = -1)
      BY <1>1, <2>1 DEF Oldest
    <3>2. index' \in {0, Oldest} /\ ~(index' < Oldest)
      BY <1>1, <2>1, <3>1
    <3>3. QED
      BY <2>1, <3>1, <3>2 DEF RoomToMove
  <2>7. QED
    BY <2>4, <2>5, <2>6 DEF FileInv
<1>5. ASSUME Shift PROVE FileInv'
  <2>1. /\ file' = file /\ lines' = lines /\ disk' = Renamed(index) /\ rotations' = rotations
        /\ Backups' = Backups /\ rotating = "shift" /\ rotating' = "shift" /\ fd' = fd
        /\ index > 0 /\ index' = index - 1 /\ Oldest' = Oldest
    BY <1>5 DEF Shift, Oldest, Backups
  <2>2. /\ index <= Oldest /\ index + 1 \in Backups
        /\ disk[index + 1] = Missing \/ index = Oldest
    <3>1. /\ index <= Oldest /\ index \in Nat /\ Oldest = file.backupCount - 1
          /\ index < Oldest => disk[index + 1] = Missing
      BY <1>1, <2>1 DEF FileInv, RoomToMove, Oldest
    <3>2. QED
      BY <1>1, <3>1
  <2>3. \A i \in Backups : (i <= index => Place(i)' <= i + 1) /\ (i > index => Place(i)' = i)
    BY <1>1, <2>1, <2>2 DEF Place, ToMove, Oldest
  <2>4. /\ disk' \in [Backups -> Seq(Nat)] /\ disk'[index] = Missing
        /\ LinesNamed' /\ LinesAscend' /\ BackupsAscend' /\ PlacesBounded' /\ LinesPresent'
    BY <1>1, <2>1, <2>2, <2>3, RenamedMoves
  <2>5. FileShape'
    BY <1>1, <2>1, <2>4 DEF FileInv, FileShape
  <2>6. RoomToMove'
    BY <1>1, <2>1, <2>2, <2>4 DEF RoomToMove, Oldest
  <2>7. QED
    BY <2>4, <2>5, <2>6 DEF FileInv
<1>6. ASSUME Retire PROVE FileInv'
  <2>1. /\ file' = file /\ lines' = lines /\ rotations' = rotations
        /\ Backups' = Backups /\ rotating = "shift" /\ index = 0 /\ index' = 0 /\ fd' = fd
        /\ fd = "closed"
    BY <1>1, <1>6 DEF Retire, Backups, FileInv, FileShape
  <2>2. /\ file.backupCount = 0 => disk' = [disk EXCEPT ![0] = Missing] /\ rotating' = "open"
        /\ file.backupCount > 0 /\ ~file.gz => disk' = Renamed(0) /\ rotating' = "open"
        /\ file.backupCount > 0 /\ file.gz =>
              disk' = [disk EXCEPT ![1] = disk[0]] /\ rotating' = "unlink"
    <3> DEFINE A == file.backupCount = 0
               B == file.backupCount > 0 /\ ~file.gz
               C == file.backupCount > 0 /\ file.gz
               Removed == disk' = [disk EXCEPT ![0] = Missing] /\ rotating' = "open"
               Moved == disk' = Renamed(0) /\ rotating' = "open"
               Copied == disk' = [disk EXCEPT ![1] = disk[0]] /\ rotating' = "unlink"
    <3>1. (CASE A -> Removed [] B -> Moved [] C -> Copied)
      BY <1>6 DEF Retire
    <3>2. (A \/ B \/ C) /\ ~(A /\ B) /\ ~(A /\ C) /\ ~(B /\ C)
      BY <1>1
    <3> HIDE DEF A, B, C, Removed, Moved, Copied
    <3>3. (A => Removed) /\ (B => Moved) /\ (C => Copied)
      BY <3>1, <3>2
    <3>4. QED
      BY <3>3 DEF A, B, C, Removed, Moved, Copied
  <2>3. \A i \in Backups : Place(i)' = i /\ Place(0) = 1 /\ Place(i) \in {i, i + 1}
    BY <1>1, <2>1, <2>2 DEF Place, ToMove
  <2>4. CASE file.backupCount = 0
    <3> DEFINE from == [i \in Backups |-> -1]
    <3>1. /\ disk' = [disk EXCEPT ![0] = Missing] /\ rotating' = "open" /\ Backups = {0}
      BY <1>1, <2>4, <2>2
    <3>2. \A i \in Backups : Lines(i)' = <<>>
      BY <1>1, <3>1 DEF Lines
    <3>3. from \in [Backups -> Backups \cup {-1}] /\ \A i \in Backups : from[i] = -1
      OBVIOUS
    <3>4. \A j \in Backups : Place(j) + (rotations' - rotations) > file.backupCount
      BY <1>1, <2>1, <2>3, <2>4, <3>1
    <3> HIDE DEF from
    <3>5. LinesNamed' /\ LinesAscend' /\ BackupsAscend' /\ PlacesBounded' /\ LinesPresent'
      BY <2>1, <3>2, <3>3, <3>4, Rearranged
    <3>6. FileShape' /\ RoomToMove'
      BY <1>1, <2>1, <3>1, MissingIsEmpty DEF FileInv, FileShape, RoomToMove
    <3>7. QED
      BY <3>5, <3>6 DEF FileInv
  <2>5. ASSUME file.backupCount > 0
        PROVE  1 \in Backups /\ (disk[1] = Missing \/ 0 = Oldest)
    BY <1>1, <2>1, <2>5 DEF FileInv, RoomToMove, Oldest
  <2>6. CASE file.backupCount > 0 /\ ~file.gz
    <3>1. disk' = Renamed(0) /\ rotating' = "open"
      BY <2>6, <2>2
    <3>2. /\ disk' \in [Backups -> Seq(Nat)]
          /\ LinesNamed' /\ LinesAscend' /\ BackupsAscend' /\ PlacesBounded' /\ LinesPresent'
      <4>1. \A i \in Backups : (i <= 0 => Place(i)' <= i + 1) /\ (i > 0 => Place(i)' = i)
        BY <1>1, <2>3
      <4>2. 0 + 1 \in Backups /\ (disk[0 + 1] = Missing \/ 0 = Oldest)
        BY <2>5, <2>6
      <4>3. QED
        BY <1>1, <2>1, <3>1, <4>1, <4>2, RenamedMoves
    <3>3. FileShape' /\ RoomToMove'
      BY <1>1, <2>1, <3>1, <3>2 DEF FileInv, FileShape, RoomToMove
    <3>4. QED
      BY <3>2, <3>3 DEF FileInv
  <2>7. CASE file.backupCount > 0 /\ file.gz
    <3> DEFINE from == [i \in Backups |-> IF i = 1 THEN 0 ELSE i]
    <3>1. disk' = [disk EXCEPT ![1] = disk[0]] /\ rotating' = "unlink"
      BY <2>7, <2>2
    <3>2. /\ disk' \in [Backups -> Seq(Nat)] /\ disk'[1] = disk[0] /\ disk'[0] = disk[0]
          /\ \A i \in Backups : i # 1 => disk'[i] = disk[i]
      BY <1>1, <2>5, <2>7, <3>1
    <3>3. /\ from \in [Backups -> Backups \cup {-1}] /\ \A i \in Backups : from[i] # -1
          /\ \A i \in Backups : Lines(i)' = Lines(from[i])
      BY <1>1, <2>5, <2>7, <3>2 DEF Lines
    <3>4. \A i, j \in Backups : i < j => from[i] < from[j] \/ from[i] = from[j]
      BY <1>1
    <3>5. ASSUME NEW i \in Backups
          PROVE  Place(i)' - rotations' <= Place(from[i]) - rotations
      <4>1. Place(i)' = i /\ from[i] \in Backups /\ Place(from[i]) \in Int /\ i <= Place(from[i])
        BY <1>1, <2>3, <2>5, <2>7
      <4> HIDE DEF from
      <4>2. QED
        BY <1>1, <2>1, <4>1
    <3>6. ASSUME NEW j \in Backups
          PROVE  \/ Lines(j) = <<>>
                 \/ \E i \in Backups : from[i] # -1 /\ Lines(from[i]) = Lines(j)
                 \/ Place(j) + (rotations' - rotations) > file.backupCount
      <4>1. CASE j = 1
        <5>1. CASE disk[1] = Missing
          BY <4>1, <5>1 DEF Lines
        <5>2. CASE 0 = Oldest
          <6>1. file.backupCount = 1 /\ ToMove(1)
            BY <1>1, <2>1, <5>2 DEF Oldest, ToMove
          <6>2. QED
            BY <1>1, <2>1, <4>1, <6>1 DEF Place
        <5>3. QED
          BY <2>5, <2>7, <5>1, <5>2
      <4>2. CASE j # 1
        <5>1. from[j] = j /\ j # -1
          BY <1>1, <4>2
        <5>2. QED
          BY <5>1
      <4>3. QED
        BY <4>1, <4>2
    <3> HIDE DEF from
    <3>7. LinesNamed' /\ LinesAscend' /\ BackupsAscend' /\ PlacesBounded' /\ LinesPresent'
      BY <2>1, <2>7, <3>3, <3>4, <3>5, <3>6, Rearranged
    <3>8. FileShape' /\ RoomToMove'
      BY <1>1, <2>1, <2>7, <3>1, <3>2 DEF FileInv, FileShape, RoomToMove
    <3>9. QED
      BY <3>7, <3>8 DEF FileInv
  <2>8. QED
    BY <1>1, <2>4, <2>6, <2>7
<1>7. ASSUME Unlink PROVE FileInv'
  <2> DEFINE from == [i \in Backups |-> IF i = 0 THEN -1 ELSE i]
  <2>1. /\ file' = file /\ lines' = lines /\ rotations' = rotations
        /\ Backups' = Backups /\ rotating = "unlink" /\ index' = index /\ fd' = fd
        /\ fd = "closed" /\ rotating' = "open" /\ disk' = [disk EXCEPT ![0] = Missing]
        /\ 1 \in Backups /\ disk[1] = disk[0]
    BY <1>1, <1>7 DEF Unlink, Backups, FileInv, FileShape, RoomToMove
  <2>2. \A i \in Backups : Place(i)' = i /\ Place(i) = i
    BY <1>1, <2>1 DEF Place, ToMove
  <2>3. /\ disk' \in [Backups -> Seq(Nat)] /\ disk'[0] = Missing
        /\ \A i \in Backups : i # 0 => disk'[i] = disk[i]
    BY <1>1, <2>1, MissingIsEmpty
  <2>4. /\ from \in [Backups -> Backups \cup {-1}]
        /\ \A i \in Backups : from[i] # -1 => from[i] = i
        /\ \A i \in Backups : Lines(i)' = IF from[i] = -1 THEN <<>> ELSE Lines(from[i])
    BY <1>1, <2>3 DEF Lines
  <2>5. ASSUME NEW j \in Backups
        PROVE  \E i \in Backups : from[i] # -1 /\ Lines(from[i]) = Lines(j)
    <3>1. CASE j = 0
      <4>1. from[1] = 1 /\ Lines(1) = Lines(j)
        BY <2>1, <3>1 DEF Lines
      <4>2. QED
        BY <2>1, <4>1
    <3>2. CASE j # 0
      <4>1. from[j] = j /\ j # -1
        BY <1>1, <3>2
      <4>2. QED
        BY <4>1
    <3>3. QED
      BY <3>1, <3>2
  <2> HIDE DEF from
  <2>6. LinesNamed' /\ LinesAscend' /\ BackupsAscend' /\ PlacesBounded' /\ LinesPresent'
    <3>1. \A i \in Backups : from[i] # -1 => Place(i)' - rotations' <= Place(from[i]) - rotations
      BY <1>1, <2>1, <2>2, <2>4
    <3>2. QED
      BY <2>1, <2>4, <2>5, <3>1, Rearranged
  <2>7. FileShape' /\ RoomToMove'
    BY <1>1, <2>1, <2>3 DEF FileInv, FileShape, RoomToMove
  <2>8. QED
    BY <2>6, <2>7 DEF FileInv
\* open(path, "a"), which finds the file or creates it.
<1>8. ASSUME disk' = OpenedToAppend, fd' = "open", rotating' = "no", index' \in Backups,
             file' = file, lines' = lines, rotations' = rotations
      PROVE  FileInv'
  <2>1. /\ disk' \in [Backups -> Seq(Nat)] /\ disk'[0] = Lines(0) /\ Lines(0) # Missing
        /\ \A i \in Backups : i # 0 => disk'[i] = disk[i]
    BY <1>1, <1>8, LinesType DEF OpenedToAppend, Lines, Missing
  <2>2. \A i \in Backups : Lines(i)' = Lines(i)
    BY <2>1 DEF Lines
  <2>3. LinesNamed' /\ LinesAscend' /\ BackupsAscend' /\ PlacesBounded' /\ LinesPresent'
    BY <1>2, <1>8, <2>2
  <2>4. FileShape' /\ RoomToMove'
    BY <1>1, <1>8, <2>1 DEF FileInv, FileShape, RoomToMove, Backups
  <2>5. QED
    BY <2>3, <2>4 DEF FileInv
<1>9. ASSUME Reopen PROVE FileInv'
  BY <1>1, <1>8, <1>9 DEF Reopen
<1>10. ASSUME CallFails PROVE FileInv'
  <2>1. /\ file' = file /\ lines' = lines /\ rotations' = rotations
        /\ Backups' = Backups /\ index' = 0 /\ fd' = fd
        /\ fd = "closed" /\ rotating' = "no" /\ rotating \in {"shift", "unlink", "open"}
    BY <1>1, <1>10 DEF CallFails, Backups, FileInv, FileShape
  <2>2. CASE disk' = disk
    <3>1. \A i \in Backups : Lines(i)' = Lines(i)
      BY <2>2 DEF Lines
    <3>2. FileShape' /\ RoomToMove'
      BY <1>1, <2>1, <2>2 DEF FileInv, FileShape, RoomToMove
    <3>3. QED
      BY <1>2, <2>1, <3>1, <3>2 DEF FileInv
  <2>3. CASE /\ rotating = "shift" /\ index = 0 /\ file.gz /\ file.backupCount > 0
             /\ disk' = [disk EXCEPT ![1] = <<>>]
    <3> DEFINE from == [i \in Backups |-> IF i = 1 THEN -1 ELSE i]
    <3>1. 1 \in Backups /\ (disk[1] = Missing \/ 0 = Oldest)
      BY <1>1, <2>3 DEF FileInv, RoomToMove, Oldest
    <3>2. /\ disk' \in [Backups -> Seq(Nat)] /\ disk'[1] = <<>>
          /\ \A i \in Backups : i # 1 => disk'[i] = disk[i]
      BY <1>1, <2>3, <3>1
    <3>3. /\ from \in [Backups -> Backups \cup {-1}]
          /\ \A i \in Backups : from[i] # -1 => from[i] = i
          /\ \A i \in Backups : Lines(i)' = IF from[i] = -1 THEN <<>> ELSE Lines(from[i])
      BY <1>1, <3>2 DEF Lines
    <3>4. ASSUME NEW j \in Backups
          PROVE  \/ Lines(j) = <<>>
                 \/ \E i \in Backups : from[i] # -1 /\ Lines(from[i]) = Lines(j)
                 \/ Place(j) + (rotations' - rotations) > file.backupCount
      <4>1. CASE j = 1
        <5>1. CASE disk[1] = Missing
          BY <4>1, <5>1 DEF Lines
        <5>2. CASE 0 = Oldest
          <6>1. file.backupCount = 1 /\ ToMove(1)
            BY <1>1, <2>3, <5>2 DEF Oldest, ToMove
          <6>2. QED
            BY <1>1, <2>1, <4>1, <6>1 DEF Place
        <5>3. QED
          BY <3>1, <5>1, <5>2
      <4>2. CASE j # 1
        <5>1. from[j] = j /\ j # -1
          BY <1>1, <4>2
        <5>2. QED
          BY <5>1
      <4>3. QED
        BY <4>1, <4>2
    <3> HIDE DEF from
    <3>5. \A i \in Backups : Place(i)' - rotations' <= Place(i) - rotations
      BY <1>1, <2>1 DEF Place, ToMove
    <3>6. LinesNamed' /\ LinesAscend' /\ BackupsAscend' /\ PlacesBounded' /\ LinesPresent'
      BY <2>1, <3>3, <3>4, <3>5, Rearranged
    <3>7. FileShape' /\ RoomToMove'
      BY <1>1, <2>1, <3>2 DEF FileInv, FileShape, RoomToMove
    <3>8. QED
      BY <3>6, <3>7 DEF FileInv
  <2>4. QED
    BY <1>10, <2>2, <2>3 DEF CallFails
<1>11. ASSUME CloseFile PROVE FileInv'
  <2>1. /\ \A i \in Backups : Lines(i)' = Lines(i)
        /\ file' = file /\ lines' = lines /\ rotations' = rotations /\ rotating' = "no"
        /\ disk' = disk /\ fd' = "closed" /\ index' = index /\ Backups' = Backups
    BY <1>11 DEF CloseFile, Lines, Backups
  <2>2. FileShape' /\ RoomToMove'
    BY <1>1, <2>1 DEF FileInv, FileShape, RoomToMove
  <2>3. QED
    BY <1>2, <2>1, <2>2 DEF FileInv
<1>12. ASSUME Restart PROVE FileInv'
  BY <1>1, <1>8, <1>12 DEF Restart
<1>13. CASE UNCHANGED fileVars
  <2>1. /\ \A i \in Backups : Lines(i)' = Lines(i) /\ Place(i)' = Place(i)
        /\ file' = file /\ lines' = lines /\ rotations' = rotations /\ rotating' = rotating
        /\ disk' = disk /\ fd' = fd /\ index' = index /\ Backups' = Backups /\ Oldest' = Oldest
    BY <1>13 DEF fileVars, Lines, Backups, Place, ToMove, Oldest
  <2>2. FileShape' /\ RoomToMove'
    BY <2>1 DEF FileInv, FileShape, RoomToMove
  <2>3. LinesNamed' /\ LinesAscend' /\ BackupsAscend' /\ PlacesBounded' /\ LinesPresent'
    <3>1. \A i \in Backups : Place(i)' - rotations' <= Place(i) - rotations
      BY <1>1, <2>1 DEF Place
    <3>2. QED
      BY <1>1, <2>1, <3>1, NothingMoves
  <2>4. QED
    BY <2>2, <2>3 DEF FileInv
<1>14. QED
  BY <1>3, <1>4, <1>5, <1>6, <1>7, <1>9, <1>10, <1>11, <1>12, <1>13 DEF FileNext

LEMMA FileInvInit == FileInit => FileInv
<1> SUFFICES ASSUME FileInit PROVE FileInv
  OBVIOUS
<1>1. file.backupCount \in Nat /\ Backups = 0..file.backupCount
  BY SetupType DEF FileInit
<1>2. /\ lines = <<>> /\ Len(lines) = 0 /\ lines \in Seq(Nat) /\ rotations = 0 /\ index = 0
      /\ rotating = "no" /\ fd = "open" /\ file \in FileSetups
      /\ disk \in [Backups -> Seq(Nat)] /\ \A i \in Backups : disk[i] \in {<<>>, Missing}
      /\ disk[0] = <<>> /\ 0 \in Backups
  BY <1>1, MissingIsEmpty DEF FileInit
<1>3. \A i \in Backups : Lines(i) = <<>> /\ Len(Lines(i)) = 0
  BY <1>2 DEF Lines
<1>4. FileShape
  BY <1>2 DEF FileShape, Missing
<1>5. LinesNamed /\ LinesAscend /\ BackupsAscend /\ PlacesBounded /\ LinesPresent
  BY <1>2, <1>3 DEF LinesNamed, LinesAscend, BackupsAscend, Older, Before, PlacesBounded,
                    LinesPresent
<1>6. RoomToMove
  BY <1>2 DEF RoomToMove
<1>7. QED
  BY <1>4, <1>5, <1>6 DEF FileInv

LEMMA PrefixByPlace ==
    ASSUME NEW s \in Seq(Nat), NEW t \in Seq(Nat), StartOf(s, t)
    PROVE  IsPrefix(s, t)
<1>1. Len(s) \in Nat /\ Len(t) \in Nat /\ Len(s) <= Len(t)
  BY LenProperties DEF StartOf
<1>2. SubSeq(t, 1, Len(s)) = s
  BY <1>1, SMT DEF StartOf
<1>3. QED
  BY <1>1, <1>2 DEF IsPrefix

LEMMA FileKeeps == FileInv => FileKept /\ FileTypeOK
<1> SUFFICES ASSUME FileInv PROVE FileKept /\ FileTypeOK
  OBVIOUS
<1>1. /\ file.backupCount \in Nat /\ Backups = 0..file.backupCount /\ rotations \in Nat
      /\ disk \in [Backups -> Seq(Nat)] /\ lines \in Seq(Nat) /\ Len(lines) \in Nat
      /\ DOMAIN lines = 1..Len(lines)
      /\ \A n \in 1..Len(lines) : lines[n] \in Nat
  BY SetupType, LenProperties, ElementOfSeq DEF FileInv, FileShape
<1>2. \A i \in Backups :
         /\ Lines(i) \in Seq(Nat) /\ Len(Lines(i)) \in Nat
         /\ DOMAIN Lines(i) = 1..Len(Lines(i))
         /\ \A k \in 1..Len(Lines(i)) : Lines(i)[k] \in Nat
  BY <1>1, LinesType, LenProperties, ElementOfSeq
<1>3. ASSUME NEW n \in DOMAIN lines
      PROVE  \/ \E i \in Backups : n \in ToSet(Lines(i)) /\ i <= rotations - lines[n]
             \/ rotations - lines[n] > file.backupCount
  <2>1. CASE rotations - lines[n] > file.backupCount
    BY <2>1
  <2>2. ASSUME NEW i \in Backups, NEW k \in 1..Len(Lines(i)), Lines(i)[k] = n
        PROVE  n \in ToSet(Lines(i)) /\ i <= rotations - lines[n]
    <3>1. n \in ToSet(Lines(i))
      BY <1>2, <2>2 DEF ToSet
    <3>2. Place(i) <= rotations - lines[n] /\ Place(i) \in {i, i + 1}
      BY <2>2 DEF FileInv, PlacesBounded, Place
    <3>3. QED
      BY <1>1, <3>1, <3>2
  <2>3. QED
    BY <1>1, <2>1, <2>2 DEF FileInv, LinesPresent
<1>4. \A i \in Backups : \A k \in 2..Len(Lines(i)) : Lines(i)[k - 1] < Lines(i)[k]
  BY <1>2 DEF FileInv, LinesAscend
<1>5. ASSUME NEW i \in Backups, NEW j \in Backups, i < j, Lines(i) # <<>>, Lines(j) # <<>>
      PROVE  \/ Last(Lines(j)) < Head(Lines(i))
             \/ file.gz /\ IsPrefix(Lines(j), Lines(i))
  <2>1. /\ 1 \in 1..Len(Lines(i)) /\ Len(Lines(j)) \in 1..Len(Lines(j))
        /\ Head(Lines(i)) = Lines(i)[1]
    BY <1>2, <1>5, EmptySeq
  <2>2. CASE Before(Lines(j), Lines(i))
    BY <2>1, <2>2 DEF Before, Last
  <2>3. CASE file.gz /\ StartOf(Lines(j), Lines(i))
    BY <1>2, <2>3, PrefixByPlace
  <2>4. QED
    BY <1>5, <2>2, <2>3 DEF FileInv, BackupsAscend, Older
<1>6. FileKept
  BY <1>3, <1>4, <1>5 DEF FileKept
<1>7. \A i \in Backups : disk[i] = Missing \/ ToSet(disk[i]) \subseteq DOMAIN lines
  <2> SUFFICES ASSUME NEW i \in Backups, disk[i] # Missing
               PROVE  ToSet(disk[i]) \subseteq DOMAIN lines
    OBVIOUS
  <2>1. Lines(i) = disk[i]
    BY DEF Lines
  <2>2. QED
    BY <1>1, <1>2, <2>1 DEF ToSet, FileInv, LinesNamed
<1>8. FileTypeOK
  BY <1>1, <1>7 DEF FileTypeOK, FileInv, FileShape
<1>9. QED
  BY <1>6, <1>8

-----------------------------------------------------------------------------
(* SyslogSocket and RuntimeLevel *)

LEMMA SyslogInvInit == SyslogInit => SyslogInv
<1> SUFFICES ASSUME SyslogInit PROVE SyslogInv
  OBVIOUS
<1>1. sockets = <<>> /\ sockets \in Seq(Socket) /\ Len(sockets) = 0 /\ DOMAIN sockets = {}
  BY EmptySeq DEF SyslogInit
<1>2. QED
  BY <1>1 DEF SyslogInit, SyslogInv, SocketsKept, NoSocket

LEMMA SyslogTypes == SyslogInv => SyslogTypeOK
  BY SocketAt DEF SyslogInv, SyslogTypeOK

LEMMA LevelStep == LevelTypeOK /\ [LevelNext]_levelVars => LevelTypeOK'
<1> SUFFICES ASSUME LevelTypeOK, [LevelNext]_levelVars PROVE LevelTypeOK'
  OBVIOUS
<1> USE DEF LevelTypeOK
<1>1. ASSUME NEW t \in Texts \cup {Absent}, ApplyLevel(t) PROVE level' \in LevelNames
  BY <1>1 DEF ApplyLevel
<1>2. ASSUME NEW s \in Sources, PollOnce(s)
      PROVE  level' \in LevelNames /\ lastSeen' \in [Sources -> Texts \cup {Absent}]
  BY <1>1, <1>2 DEF PollOnce
<1>3. ASSUME NEW s \in Sources, Start(s) PROVE LevelTypeOK'
  BY <1>2, <1>3 DEF Start
<1>4. ASSUME NEW s \in Sources, Stop(s) PROVE LevelTypeOK'
  BY <1>4 DEF Stop, Stopped
<1>5. ASSUME NEW s \in Sources, Poll(s) \/ PollByHand(s) PROVE LevelTypeOK'
  BY <1>2, <1>5 DEF Poll, PollByHand
<1>6. ASSUME NEW s \in Sources, NEW t \in Texts \cup {Absent}, WriteSource(s, t)
      PROVE  LevelTypeOK'
  BY <1>6 DEF WriteSource
<1>7. ASSUME Signal PROVE LevelTypeOK'
  <2>1. text["env"] \in Texts \cup {Absent}
    BY DEF Sources
  <2>2. QED
    BY <1>1, <1>7, <2>1 DEF Signal
<1>8. ASSUME NEW on \in BOOLEAN, Install(on) PROVE LevelTypeOK'
  BY <1>8 DEF Install
<1>9. ASSUME NEW l \in LevelNames, SetLevel(l) PROVE LevelTypeOK'
  BY <1>9 DEF SetLevel
<1>10. CASE UNCHANGED levelVars
  BY <1>10 DEF levelVars
<1>11. QED
  BY <1>3, <1>4, <1>5, <1>6, <1>7, <1>8, <1>9, <1>10 DEF LevelNext

LEMMA LevelTypesInit == LevelInit => LevelTypeOK
  BY DEF LevelInit, LevelTypeOK

-----------------------------------------------------------------------------
(* The whole *)

\* A behaviour of the whole is one of each part: following one of them takes nothing
\* from it, and adds nothing to the others.
THEOREM SurroundingsAreTheirParts ==
    SurroundingsSpec => /\ Spec
                        /\ FileInit /\ [][FileNext]_fileVars
                        /\ SyslogInit /\ [][SyslogNext]_syslogVars
                        /\ LevelInit /\ [][LevelNext]_levelVars
<1>1. SurroundingsInit => Init /\ FileInit /\ SyslogInit /\ LevelInit
  BY DEF SurroundingsInit
<1>2. QED
  BY <1>1, PartsStep, PTL DEF SurroundingsSpec, Spec

\* Every part keeps to its types, whatever step it takes.
THEOREM SurroundingsTypeCorrect == SurroundingsSpec => []SurroundingsTypeOK
<1>1. Spec => []BackendsTypeOK
  BY BackendsTypeCorrect
<1>2. FileInit /\ [][FileNext]_fileVars => []FileTypeOK
  BY FileInvInit, FileStep, FileKeeps, PTL
<1>3. SyslogInit /\ [][SyslogNext]_syslogVars => []SyslogTypeOK
  BY SyslogInvInit, SyslogStep, SyslogTypes, PTL
<1>4. LevelInit /\ [][LevelNext]_levelVars => []LevelTypeOK
  BY LevelTypesInit, LevelStep, PTL
<1>5. BackendsTypeOK /\ FileTypeOK /\ SyslogTypeOK /\ LevelTypeOK => SurroundingsTypeOK
  BY DEF SurroundingsTypeOK
<1>6. QED
  BY SurroundingsAreTheirParts, <1>1, <1>2, <1>3, <1>4, <1>5, PTL

\* Whatever call of SyslogTransport and whatever event of a socket, of this or of
\* an earlier one, comes next: records go to the only socket that is neither ended
\* nor failed, none is left open and forgotten, and no socket has more waiting in
\* it than MAX_PENDING_TCP_BYTES.
THEOREM SurroundingsSocketsKept == SurroundingsSpec => []SocketsKept
<1>1. SyslogInv => SocketsKept
  BY DEF SyslogInv
<1>2. QED
  BY SurroundingsAreTheirParts, SyslogInvInit, SyslogStep, <1>1, PTL

\* However a rotation fails or its process dies between two of its calls: a line is
\* gone only if more rotations than backupCount have begun since it was written,
\* and those that are there stand in the order they were written in.
THEOREM SurroundingsFileKept == SurroundingsSpec => []FileKept
  BY SurroundingsAreTheirParts, FileInvInit, FileStep, FileKeeps, PTL
=============================================================================
