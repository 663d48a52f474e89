----------------------------- MODULE PresetsProofs -----------------------------
(***************************************************************************)
(* Proofs about Presets and IpcCmd: where a jump ends, for every model,    *)
(* position and angle; that the table of presets is complete when all runs *)
(* are over; that it gives no name to two numbers, and stays in step with  *)
(* the camera, when they did not overlap; what the camera does with the    *)
(* messages of all runs: the stop of ptz.sh comes after its move, and a    *)
(* jump lands where it was to.                                             *)
(***************************************************************************)
EXTENDS Presets, WellFoundedInduction, TLAPS

--------------------------------------------------------------------------------
(* The arithmetic of a jump: each rounding, then the way there and back. *)

LEMMA StepsX ==
  ASSUME NEW x \in Int
  PROVE  LET a == Round(x * MaxX, 3600)
         IN  a \in Int /\ 7200 * a <= 8200 * x + 3600 /\ 8200 * x - 3600 <= 7200 * a
  BY SMT DEF Round, MaxX

LEMMA StepsY ==
  ASSUME NEW y \in Int
  PROVE  LET b == Round(y * MaxY, 1800)
         IN  b \in Int /\ 3600 * b <= 2500 * y + 1800 /\ 2500 * y - 1800 <= 3600 * b
  BY SMT DEF Round, MaxY

LEMMA AngleX ==
  ASSUME NEW u \in Int
  PROVE  LET x == Round(u * 3600, MaxX)
         IN  x \in Int /\ 8200 * x <= 7200 * u + 4100 /\ 7200 * u - 4100 <= 8200 * x
  BY SMT DEF Round, MaxX

LEMMA AngleY ==
  ASSUME NEW v \in Int
  PROVE  LET y == Round(v * 1800, MaxY)
         IN  y \in Int /\ 2500 * y <= 3600 * v + 1250 /\ 3600 * v - 1250 <= 2500 * y
  BY SMT DEF Round, MaxY

\* The units of the message, and the motor's steps for them.
LEMMA SentX ==
  ASSUME NEW d \in Int
  PROVE  LET j == Round(d * 100 + 50 * 911, 911)
         IN  j \in Int /\ 911 * j <= 100 * d + 46006 /\ 100 * d + 45094 <= 911 * j
  BY SMT DEF Round

LEMMA SentY ==
  ASSUME NEW d \in Int
  PROVE  LET j == Round(d * 100 + 50 * 694, 694)
         IN  j \in Int /\ 694 * j <= 100 * d + 35047 /\ 100 * d + 34353 <= 694 * j
  BY SMT DEF Round

LEMMA TakenX ==
  ASSUME NEW j \in Int
  PROVE  LET m == Round((j - 50) * 911, 100)
         IN  m \in Int /\ 100 * m <= 911 * j - 45500 /\ 911 * j - 45600 <= 100 * m
  BY SMT DEF Round

LEMMA TakenY ==
  ASSUME NEW j \in Int
  PROVE  LET m == Round((j - 50) * 694, 100)
         IN  m \in Int /\ 100 * m <= 694 * j - 34650 /\ 694 * j - 34750 <= 100 * m
  BY SMT DEF Round

\* The motor moves by the distance that was meant, to five steps (or four).
LEMMA DistanceX ==
  ASSUME NEW d \in Int
  PROVE  LET m == Round((Round(d * 100 + 50 * 911, 911) - 50) * 911, 100)
         IN  m \in Int /\ m - d <= 5 /\ d - m <= 5
<1> DEFINE j == Round(d * 100 + 50 * 911, 911)
           m == Round((j - 50) * 911, 100)
<1>1. j \in Int /\ 911 * j <= 100 * d + 46006 /\ 100 * d + 45094 <= 911 * j
  BY SentX
<1> HIDE DEF j
<1>2. m \in Int /\ 100 * m <= 911 * j - 45500 /\ 911 * j - 45600 <= 100 * m
  BY <1>1, TakenX
<1> HIDE DEF m
<1>3. m \in Int /\ m - d <= 5 /\ d - m <= 5
  BY <1>1, <1>2, SMT
<1>4. QED
  BY <1>3 DEF j, m

LEMMA DistanceY ==
  ASSUME NEW d \in Int
  PROVE  LET m == Round((Round(d * 100 + 50 * 694, 694) - 50) * 694, 100)
         IN  m \in Int /\ m - d <= 4 /\ d - m <= 4
<1> DEFINE j == Round(d * 100 + 50 * 694, 694)
           m == Round((j - 50) * 694, 100)
<1>1. j \in Int /\ 694 * j <= 100 * d + 35047 /\ 100 * d + 34353 <= 694 * j
  BY SentY
<1> HIDE DEF j
<1>2. m \in Int /\ 100 * m <= 694 * j - 34650 /\ 694 * j - 34750 <= 100 * m
  BY <1>1, TakenY
<1> HIDE DEF m
<1>3. m \in Int /\ m - d <= 4 /\ d - m <= 4
  BY <1>1, <1>2, SMT
<1>4. QED
  BY <1>3 DEF j, m

\* A way of d steps from p that should end at the angle x: what the position is then.
LEMMA LandX ==
  ASSUME NEW p \in Int, NEW d \in Int, NEW x \in Int,
         p + d <= 4102, -2 <= p + d,
         7200 * (p + d) <= 8200 * x + 7700, 8200 * x - 7700 <= 7200 * (p + d)
  PROVE  LET m == Round((Round(d * 100 + 50 * 911, 911) - 50) * 911, 100)
             deg == Round(Clamp(p + m, MaxX) * 3600, MaxX)
         IN  deg \in Int /\ deg - x \in -10..10
<1> DEFINE m == Round((Round(d * 100 + 50 * 911, 911) - 50) * 911, 100)
           u == Clamp(p + m, MaxX)
           deg == Round(u * 3600, MaxX)
<1>1. m \in Int /\ m - d <= 5 /\ d - m <= 5
  BY DistanceX
<1> HIDE DEF m
<1>2. u \in Int /\ u - (p + d) <= 5 /\ (p + d) - u <= 5
  BY <1>1, SMT DEF Clamp, MaxX
<1> HIDE DEF u
<1>3. deg \in Int /\ 8200 * deg <= 7200 * u + 4100 /\ 7200 * u - 4100 <= 8200 * deg
  BY <1>2, AngleX
<1> HIDE DEF deg
<1>4. deg - x <= 10 /\ x - deg <= 10
  BY <1>2, <1>3, SMT
<1>5. deg \in Int /\ deg - x \in -10..10
  BY <1>3, <1>4, SMT
<1>6. QED
  BY <1>5 DEF m, u, deg

LEMMA LandY ==
  ASSUME NEW p \in Int, NEW d \in Int, NEW y \in Int,
         p + d <= 1252, -2 <= p + d,
         3600 * (p + d) <= 2500 * y + 3060, 2500 * y - 3060 <= 3600 * (p + d)
  PROVE  LET m == Round((Round(d * 100 + 50 * 694, 694) - 50) * 694, 100)
             deg == Round(Clamp(p + m, MaxY) * 1800, MaxY)
         IN  deg \in Int /\ deg - y \in -10..10
<1> DEFINE m == Round((Round(d * 100 + 50 * 694, 694) - 50) * 694, 100)
           u == Clamp(p + m, MaxY)
           deg == Round(u * 1800, MaxY)
<1>1. m \in Int /\ m - d <= 4 /\ d - m <= 4
  BY DistanceY
<1> HIDE DEF m
<1>2. u \in Int /\ u - (p + d) <= 4 /\ (p + d) - u <= 4
  BY <1>1, SMT DEF Clamp, MaxY
<1> HIDE DEF u
<1>3. deg \in Int /\ 2500 * deg <= 3600 * u + 1250 /\ 3600 * u - 1250 <= 2500 * deg
  BY <1>2, AngleY
<1> HIDE DEF deg
<1>4. deg - y <= 10 /\ y - deg <= 10
  BY <1>2, <1>3, SMT
<1>5. deg \in Int /\ deg - y \in -10..10
  BY <1>3, <1>4, SMT
<1>6. QED
  BY <1>5 DEF m, u, deg

LEMMA AbsoluteX ==
  ASSUME NEW p \in Int, NEW x \in Int, 0 <= x, x <= 3600,
         NEW d, d = Round(x * MaxX, 3600) - p
  PROVE  LET m == Round((Round(d * 100 + 50 * 911, 911) - 50) * 911, 100)
             deg == Round(Clamp(p + m, MaxX) * 3600, MaxX)
         IN  deg \in Int /\ deg - x \in -10..10
<1> DEFINE a == Round(x * MaxX, 3600)
<1>1. a \in Int /\ 7200 * a <= 8200 * x + 3600 /\ 8200 * x - 3600 <= 7200 * a
  BY StepsX
<1>2. d = a - p
  OBVIOUS
<1> HIDE DEF a
<1>3. /\ d \in Int /\ p + d <= 4102 /\ -2 <= p + d
      /\ 7200 * (p + d) <= 8200 * x + 7700
      /\ 8200 * x - 7700 <= 7200 * (p + d)
  BY <1>1, <1>2, SMT
<1>4. QED
  BY <1>3, LandX

LEMMA AbsoluteY ==
  ASSUME NEW p \in Int, NEW y \in Int, 0 <= y, y <= 1800,
         NEW d, d = Round(y * MaxY, 1800) - p
  PROVE  LET m == Round((Round(d * 100 + 50 * 694, 694) - 50) * 694, 100)
             deg == Round(Clamp(p + m, MaxY) * 1800, MaxY)
         IN  deg \in Int /\ deg - y \in -10..10
<1> DEFINE b == Round(y * MaxY, 1800)
<1>1. b \in Int /\ 3600 * b <= 2500 * y + 1800 /\ 2500 * y - 1800 <= 3600 * b
  BY StepsY
<1>2. d = b - p
  OBVIOUS
<1> HIDE DEF b
<1>3. /\ d \in Int /\ p + d <= 1252 /\ -2 <= p + d
      /\ 3600 * (p + d) <= 2500 * y + 3060
      /\ 2500 * y - 3060 <= 3600 * (p + d)
  BY <1>1, <1>2, SMT
<1>4. QED
  BY <1>3, LandY

LEMMA RelativeX ==
  ASSUME NEW p \in Int, NEW dx \in Int,
         LET x == Round(p * 3600, MaxX) + dx IN 0 <= x /\ x <= 3600
  PROVE  LET x == Round(p * 3600, MaxX) + dx
             d == Round(dx * MaxX, 3600)
             m == Round((Round(d * 100 + 50 * 911, 911) - 50) * 911, 100)
             deg == Round(Clamp(p + m, MaxX) * 3600, MaxX)
         IN  deg \in Int /\ deg - x \in -10..10
<1> DEFINE n == Round(p * 3600, MaxX)
           d == Round(dx * MaxX, 3600)
<1>1. n \in Int /\ 8200 * n <= 7200 * p + 4100 /\ 7200 * p - 4100 <= 8200 * n
  BY AngleX
<1>2. d \in Int /\ 7200 * d <= 8200 * dx + 3600 /\ 8200 * dx - 3600 <= 7200 * d
  BY StepsX
<1>3. 0 <= n + dx /\ n + dx <= 3600
  OBVIOUS
<1> HIDE DEF n, d
<1>4. /\ n + dx \in Int /\ p + d <= 4102 /\ -2 <= p + d
      /\ 7200 * (p + d) <= 8200 * (n + dx) + 7700
      /\ 8200 * (n + dx) - 7700 <= 7200 * (p + d)
  BY <1>1, <1>2, <1>3, SMT
<1>5. QED
  BY <1>2, <1>4, LandX DEF n, d

LEMMA RelativeY ==
  ASSUME NEW p \in Int, NEW dy \in Int,
         LET y == Round(p * 1800, MaxY) + dy IN 0 <= y /\ y <= 1800
  PROVE  LET y == Round(p * 1800, MaxY) + dy
             d == Round(dy * MaxY, 1800)
             m == Round((Round(d * 100 + 50 * 694, 694) - 50) * 694, 100)
             deg == Round(Clamp(p + m, MaxY) * 1800, MaxY)
         IN  deg \in Int /\ deg - y \in -10..10
<1> DEFINE n == Round(p * 1800, MaxY)
           d == Round(dy * MaxY, 1800)
<1>1. n \in Int /\ 2500 * n <= 3600 * p + 1250 /\ 3600 * p - 1250 <= 2500 * n
  BY AngleY
<1>2. d \in Int /\ 3600 * d <= 2500 * dy + 1800 /\ 2500 * dy - 1800 <= 3600 * d
  BY StepsY
<1>3. 0 <= n + dy /\ n + dy <= 1800
  OBVIOUS
<1> HIDE DEF n, d
<1>4. /\ n + dy \in Int /\ p + d <= 1252 /\ -2 <= p + d
      /\ 3600 * (p + d) <= 2500 * (n + dy) + 3060
      /\ 2500 * (n + dy) - 3060 <= 3600 * (p + d)
  BY <1>1, <1>2, <1>3, SMT
<1>5. QED
  BY <1>2, <1>4, LandY DEF n, d

LEMMA Flip ==
  ASSUME NEW m \in Int, NEW n \in Int
  PROVE  (1800 - m) + n \in 0..1800 => 0 <= m + (-n) /\ m + (-n) <= 1800
  BY SMT

\* An absolute jump ends within a degree of the angles asked for, from every position
\* and on every model (jump_abs and get_pos of main).
THEOREM AbsoluteJumpLands ==
  ASSUME NEW pos \in Positions, NEW x \in Int, NEW y \in Int, InRange(<<x, y>>)
  PROVE  Near(Degrees(Moved(pos, JumpTo(<<x, y>>, pos))), <<x, y>>)
<1>0. PICK p \in Int, q \in Int : pos[1] = p /\ pos[2] = q
  BY DEF Positions
<1> DEFINE z == IF UpsideDown THEN 1800 - y ELSE y
           dx == Round(x * MaxX, 3600) - p
           dy == Round(z * MaxY, 1800) - q
           mx == Round((Round(dx * 100 + 50 * 911, 911) - 50) * 911, 100)
           my == Round((Round(dy * 100 + 50 * 694, 694) - 50) * 694, 100)
           deg == Round(Clamp(p + mx, MaxX) * 3600, MaxX)
           dey == Round(Clamp(q + my, MaxY) * 1800, MaxY)
<1>1. p \in Int /\ q \in Int
  BY <1>0
<1>2. /\ 0 <= x /\ x <= 3600 /\ 0 <= y /\ y <= 1800
      /\ z \in Int /\ 0 <= z /\ z <= 1800
  BY DEF InRange
<1>3. Degrees(Moved(pos, JumpTo(<<x, y>>, pos))) =
        <<deg, IF UpsideDown THEN 1800 - dey ELSE dey>>
  BY <1>0 DEF Degrees, Moved, JumpTo
<1>4. deg \in Int /\ deg - x \in -10..10
  <2>1. PICK d : d = dx
    OBVIOUS
  <2>2. d = Round(x * MaxX, 3600) - p
    BY <2>1
  <2>3. deg = Round(Clamp(p + Round((Round(d * 100 + 50 * 911, 911) - 50) * 911, 100), MaxX)
                      * 3600, MaxX)
    BY <2>1
  <2> HIDE DEF deg
  <2>4. QED
    BY <1>1, <1>2, <2>2, <2>3, AbsoluteX
<1>5. dey \in Int /\ dey - z \in -10..10
  <2> HIDE DEF z
  <2>1. PICK d : d = dy
    OBVIOUS
  <2>2. d = Round(z * MaxY, 1800) - q
    BY <2>1
  <2>3. dey = Round(Clamp(q + Round((Round(d * 100 + 50 * 694, 694) - 50) * 694, 100), MaxY)
                      * 1800, MaxY)
    BY <2>1
  <2> HIDE DEF dey
  <2>4. QED
    BY <1>1, <1>2, <2>2, <2>3, AbsoluteY
<1> HIDE DEF deg, dey
<1>6. (IF UpsideDown THEN 1800 - dey ELSE dey) - y \in -10..10
  BY <1>2, <1>5
<1>7. QED
  BY <1>3, <1>4, <1>6 DEF Near

LEMMA InRangeIs ==
  ASSUME NEW a, NEW b, InRange(<<a, b>>)
  PROVE  a \in Pan /\ b \in Tilt
  BY DEF InRange, Pan, Tilt

\* So does a relative one, when what it asks for is in range.
THEOREM RelativeJumpLands ==
  ASSUME NEW pos \in Positions, NEW x \in Int, NEW y \in Int,
         InRange(<<Degrees(pos)[1] + x, Degrees(pos)[2] + y>>)
  PROVE  Near(Degrees(Moved(pos, JumpBy(<<x, y>>))),
              <<Degrees(pos)[1] + x, Degrees(pos)[2] + y>>)
<1>0. PICK p \in Int, q \in Int : pos[1] = p /\ pos[2] = q
  BY DEF Positions
<1> DEFINE z == IF UpsideDown THEN -y ELSE y
           nx == Round(p * 3600, MaxX)
           ny == Round(q * 1800, MaxY)
           dx == Round(x * MaxX, 3600)
           dy == Round(z * MaxY, 1800)
           mx == Round((Round(dx * 100 + 50 * 911, 911) - 50) * 911, 100)
           my == Round((Round(dy * 100 + 50 * 694, 694) - 50) * 694, 100)
           deg == Round(Clamp(p + mx, MaxX) * 3600, MaxX)
           dey == Round(Clamp(q + my, MaxY) * 1800, MaxY)
<1>1. p \in Int /\ q \in Int /\ z \in Int
  BY <1>0
<1>2. nx \in Int /\ ny \in Int
  BY <1>1, AngleX, AngleY
<1>3. Degrees(Moved(pos, JumpBy(<<x, y>>))) =
        <<deg, IF UpsideDown THEN 1800 - dey ELSE dey>>
  BY <1>0 DEF Degrees, Moved, JumpBy
<1>4. /\ Degrees(pos)[1] = nx
      /\ Degrees(pos)[2] = IF UpsideDown THEN 1800 - ny ELSE ny
  BY <1>0 DEF Degrees
<1>4a. Degrees(pos)[1] + x \in Pan /\ Degrees(pos)[2] + y \in Tilt
  BY InRangeIs, Zenon
<1>5. 0 <= nx + x /\ nx + x <= 3600 /\ 0 <= ny + z /\ ny + z <= 1800
  <2>0. nx + x \in Pan
    <3> HIDE DEF nx, ny, z
    <3>1. PICK a : a = Degrees(pos)[1]
      OBVIOUS
    <3>2. a = nx /\ a + x \in Pan
      BY <1>4, <1>4a, <3>1
    <3>3. QED
      BY <3>2
  <2>1. 0 <= nx + x /\ nx + x <= 3600
    <3> DEFINE k == nx + x
    <3>1. k \in 0..3600
      BY <2>0 DEF Pan
    <3> HIDE DEF k
    <3>2. 0 <= k /\ k <= 3600
      BY <3>1
    <3>3. QED
      BY <3>2 DEF k
  <2>2. CASE UpsideDown
    <3>0. z = -y
      BY <2>2
    <3> HIDE DEF z, nx, ny
    <3>1. z = -y /\ (1800 - ny) + y \in 0..1800
      <4>1. PICK a : a = Degrees(pos)[2]
        OBVIOUS
      <4>2. a = 1800 - ny /\ a + y \in 0..1800
        BY <1>4, <1>4a, <2>2, <4>1 DEF Tilt
      <4>3. QED
        BY <3>0, <4>2
    <3>2. 0 <= ny + z /\ ny + z <= 1800
      BY <1>2, <3>1, Flip
    <3>3. QED
      BY <2>1, <3>2
  <2>3. CASE ~UpsideDown
    <3>0. z = y
      BY <2>3
    <3> HIDE DEF z, nx, ny
    <3>0a. Degrees(pos)[2] = ny
      BY <1>4, <2>3
    <3>1. z = y /\ ny + y \in 0..1800
      BY <1>4a, <3>0, <3>0a DEF Tilt
    <3>2. 0 <= ny + z /\ ny + z <= 1800
      BY <1>2, <3>1
    <3>3. QED
      BY <2>1, <3>2
  <2>4. QED
    BY <2>2, <2>3
<1>6. deg \in Int /\ deg - (nx + x) \in -10..10
  BY <1>1, <1>5, RelativeX
<1>7. dey \in Int /\ dey - (ny + z) \in -10..10
  <2> HIDE DEF z
  <2>1. QED
    BY <1>1, <1>5, RelativeY
<1> HIDE DEF nx, ny, deg, dey
<1>8. (IF UpsideDown THEN 1800 - dey ELSE dey) - (Degrees(pos)[2] + y) \in -10..10
  BY <1>2, <1>4, <1>7
<1>9. QED
  BY <1>3, <1>4, <1>6, <1>8 DEF Near

--------------------------------------------------------------------------------
(* The table of presets. *)

\* A run that has emptied the file and is going to write at its front; a file with a
\* line for every number; a run that has written its lines behind the first.
Opening(r) == phase[r] = "write" /\ at[r] = 1
Full == \A s \in Slots : LinesOf(s) # {}
Filling(r) ==
  /\ phase[r] = "write" /\ at[r] > 1
  /\ \A s \in Slots : s < at[r] - 1 => LinesOf(s) # {}
Covered == Full \/ \E r \in Procs : Opening(r) \/ Filling(r)

\* What the lines of the table rest on: a run that works on the table has a call to
\* finish, and the last run to have written at the front of the file, where it may
\* overwrite what the others have written, appends a line for each other number.
TableInv ==
  /\ DOMAIN todo = Procs /\ DOMAIN work = Procs
  /\ phase \in [Procs -> {"no", "read", "write"}]
  /\ at \in [Procs -> Nat]
  /\ \E S : table \in Seq(S)
  /\ \A r \in Procs : phase[r] # "no" => todo[r] = <<>> /\ work[r] # <<>>
  /\ Covered

\* A step that leaves the table alone, and the runs that write their lines.
LEMMA StillCovered ==
  ASSUME Covered, UNCHANGED table,
         \A q \in Procs : phase[q] = "write" /\ at[q] > 0 => phase'[q] = phase[q] /\ at'[q] = at[q],
         at \in [Procs -> Nat]
  PROVE  Covered'
<1>1. \A s : LinesOf(s)' = LinesOf(s)
  BY DEF LinesOf
<1>2. Full => Full'
  BY <1>1 DEF Full
<1>3. \A r \in Procs : Opening(r) => Opening(r)'
  BY DEF Opening
<1>4. \A r \in Procs : Filling(r) => Filling(r)'
  BY <1>1 DEF Filling
<1>5. QED
  BY <1>2, <1>3, <1>4 DEF Covered

\* A step that leaves table, phase and positions alone, and the work of a run that is
\* at the table.
LEMMA Elsewhere ==
  ASSUME TableInv, UNCHANGED <<table, phase, at>>,
         DOMAIN todo' = Procs, DOMAIN work' = Procs,
         \A r \in Procs : phase[r] # "no" => todo'[r] = todo[r] /\ work'[r] = work[r]
  PROVE  TableInv'
<1>1. Covered'
  BY StillCovered DEF TableInv
<1>2. QED
  BY <1>1 DEF TableInv

\* The end of add_del_preset when nothing was written.
LEMMA ReturnUnwritten ==
  ASSUME TableInv, NEW r \in Procs, NEW rest, phase[r] = "read", Return(r, rest),
         UNCHANGED <<table, todo>>
  PROVE  TableInv'
<1>1. /\ DOMAIN work' = Procs
      /\ phase' \in [Procs -> {"no", "read", "write"}] /\ at' \in [Procs -> Nat]
      /\ phase'[r] = "no"
      /\ \A q \in Procs : q # r =>
           phase'[q] = phase[q] /\ at'[q] = at[q] /\ work'[q] = work[q]
  BY DEF Return, TableInv
<1>2. \A q \in Procs : phase'[q] # "no" => todo'[q] = <<>> /\ work'[q] # <<>>
  BY <1>1 DEF TableInv
<1>3. Covered'
  BY <1>1, StillCovered DEF TableInv
<1>4. QED
  BY <1>1, <1>2, <1>3 DEF TableInv

\* Append puts a line behind the others.
LEMMA LineAppended ==
  ASSUME NEW S, NEW t \in Seq(S), NEW l
  PROVE  /\ \E T : Append(t, l) \in Seq(T)
         /\ DOMAIN Append(t, l) = 1..Len(t) + 1
         /\ Append(t, l)[Len(t) + 1] = l
         /\ \A k \in 1..Len(t) : Append(t, l)[k] = t[k]
         /\ DOMAIN t = 1..Len(t) /\ Len(t) \in Nat
<1> DEFINE T == S \cup {l}
<1>1. t \in Seq(T) /\ l \in T
  OBVIOUS
<1> HIDE DEF T
<1>2. Append(t, l) \in Seq(T)
  BY <1>1
<1>3. QED
  BY <1>1, <1>2, SMT

LEMMA LinesAfterAppend ==
  ASSUME NEW S, table \in Seq(S), NEW s, NEW name,
         table' = Append(table, <<s, name>>)
  PROVE  /\ LinesOf(s)' # {}
         /\ \A q \in Slots : LinesOf(q) # {} => LinesOf(q)' # {}
<1>1. /\ DOMAIN table' = 1..Len(table) + 1
      /\ table'[Len(table) + 1] = <<s, name>>
      /\ \A k \in 1..Len(table) : table'[k] = table[k]
      /\ DOMAIN table = 1..Len(table) /\ Len(table) \in Nat
  BY LineAppended
<1>2. Len(table) + 1 \in LinesOf(s)'
  BY <1>1 DEF LinesOf
<1>3. ASSUME NEW q \in Slots, LinesOf(q) # {} PROVE LinesOf(q)' # {}
  <2>1. PICK k \in DOMAIN table : table[k][1] = q
    BY <1>3 DEF LinesOf
  <2>2. k \in DOMAIN table' /\ table'[k][1] = q
    BY <1>1, <2>1
  <2>3. QED
    BY <2>2 DEF LinesOf
<1>4. QED
  BY <1>2, <1>3

\* What is written at the front is the first line.
LEMMA LineInFront ==
  ASSUME NEW S, table \in Seq(S), NEW l, WriteInFront(l)
  PROVE  /\ \E T : table' \in Seq(T)
         /\ Len(table') \in Nat \ {0} /\ table'[1] = l
         /\ table = <<>> => table' = <<l>>
<1> DEFINE T == S \cup {l} \cup Torn
<1>1. <<l>> \in Seq(T) /\ table \in Seq(T) /\ <<>> \in Seq(T) /\ Len(table) \in Nat
  OBVIOUS
<1>2. ASSUME NEW m \in Torn PROVE <<m>> \in Seq(T)
  OBVIOUS
<1>3. ASSUME NEW k \in 2..Len(table) + 1 PROVE SubSeq(table, k, Len(table)) \in Seq(T)
  BY <1>1
<1> HIDE DEF T
<1>4. CASE table' = <<l>>
  BY <1>1, <1>4
<1>5. CASE table' # <<l>>
  <2>1. PICK k \in 2..Len(table) + 1, rest \in {<<>>} \cup {<<m>> : m \in Torn} :
          table' = <<l>> \o rest \o SubSeq(table, k, Len(table))
    BY <1>5 DEF WriteInFront
  <2>2. rest \in Seq(T)
    BY <1>1, <1>2
  <2>3. PICK u \in Seq(T) : u = SubSeq(table, k, Len(table))
    BY <1>3
  <2>4. PICK v : v = <<l>> \o rest
    OBVIOUS
  <2>5. v \in Seq(T) /\ Len(v) \in Nat \ {0} /\ v[1] = l
    BY <1>1, <2>2, <2>4
  <2>6. table' = v \o u
    BY <2>1, <2>3, <2>4
  <2>7. table' \in Seq(T) /\ Len(table') \in Nat \ {0} /\ table'[1] = l
    BY <2>3, <2>5, <2>6
  <2>8. Len(table) >= 1
    BY <1>1
  <2>9. QED
    BY <2>7, <2>8
<1>6. QED
  BY <1>4, <1>5

LEMMA TableInvariant == PresetsSpec => []TableInv
<1>1. PresetsInit => TableInv
  <2> SUFFICES ASSUME PresetsInit PROVE TableInv
    OBVIOUS
  <2>1. /\ DOMAIN todo = Procs /\ DOMAIN work = Procs
        /\ phase \in [Procs -> {"no", "read", "write"}] /\ at \in [Procs -> Nat]
        /\ \A r \in Procs : phase[r] = "no"
    BY DEF PresetsInit, CmdInit
  <2>2. /\ NumPresets \in Nat \ {0, 1}
        /\ table = [k \in 1..NumPresets |-> <<k - 1, NoName>>]
    BY IpcCmdAssumption DEF PresetsInit, Line
  <2>3. table \in Seq(Int \X {NoName})
    BY <2>2
  <2>4. ASSUME NEW s \in Slots PROVE LinesOf(s) # {}
    <3>1. s + 1 \in DOMAIN table /\ table[s + 1][1] = s
      BY <2>2 DEF Slots
    <3>2. QED
      BY <3>1 DEF LinesOf
  <2>5. QED
    BY <2>1, <2>3, <2>4 DEF TableInv, Covered, Full
<1>2. TableInv /\ [PresetsNext]_vars => TableInv'
  <2> SUFFICES ASSUME TableInv, [PresetsNext]_vars PROVE TableInv'
    OBVIOUS
  <2>1. ASSUME NEW r \in Procs, Start(r) PROVE TableInv'
    <3>1. work[r] = <<>> /\ todo[r] = <<>> /\ phase[r] = "no"
      BY <2>1 DEF Start, Idle, TableInv
    <3>2. /\ UNCHANGED <<table, phase, at>>
          /\ DOMAIN todo' = Procs /\ DOMAIN work' = Procs
          /\ \A q \in Procs : q # r => todo'[q] = todo[q] /\ work'[q] = work[q]
      BY <2>1 DEF Start, Begin, BeginFails, tableVars, TableInv
    <3>3. QED
      BY <3>1, <3>2, Elsewhere
  <2>2. ASSUME NEW r \in Procs, CallCmd(r) \/ CallFails(r) PROVE TableInv'
    <3>1. phase[r] = "no"
      BY <2>2 DEF CallCmd, CallFails, Goes
    <3>2. /\ UNCHANGED <<table, phase, at>>
          /\ DOMAIN todo' = Procs /\ DOMAIN work' = Procs
          /\ \A q \in Procs : q # r => todo'[q] = todo[q] /\ work'[q] = work[q]
      BY <2>2 DEF CallCmd, CallFails, Begin, BeginFails, tableVars, TableInv
    <3>3. QED
      BY <3>1, <3>2, Elsewhere
  <2>3. ASSUME NEW r \in Procs, PositionFails(r) PROVE TableInv'
    <3>1. phase[r] = "no"
      BY <2>3 DEF PositionFails, ReadFails, TableInv
    <3>2. /\ UNCHANGED <<table, phase, at>>
          /\ DOMAIN todo' = Procs /\ DOMAIN work' = Procs
          /\ \A q \in Procs : q # r => todo'[q] = todo[q] /\ work'[q] = work[q]
      BY <2>3 DEF PositionFails, ReadFails, tableVars, TableInv
    <3>3. QED
      BY <3>1, <3>2, Elsewhere
  <2>4. ASSUME NEW r \in Procs,
               \/ SendMessage(r) \/ Cmd(ReadPosition(r))
               \/ Cmd(PrintPosition(r)) \/ Cmd(ReadFile(r))
        PROVE  TableInv'
    <3>1. todo[r] # <<>>
      BY <2>4 DEF SendMessage, runVars, Cmd, SendNext, ReadPosition, PrintPosition, ReadFile
    <3>2. phase[r] = "no"
      BY <3>1 DEF TableInv
    <3>3. /\ UNCHANGED <<table, phase, at, work>>
          /\ DOMAIN todo' = Procs
          /\ \A q \in Procs : q # r => todo'[q] = todo[q]
      BY <2>4 DEF SendMessage, runVars, Cmd, SendNext, ReadPosition, PrintPosition, ReadFile,
                  tableVars, TableInv
    <3>4. DOMAIN work' = Procs
      BY <3>3 DEF TableInv
    <3>5. QED
      BY <3>2, <3>3, <3>4, Elsewhere
  <2>5. CASE Cmd(Handle)
    <3>1. UNCHANGED <<table, phase, at, work, todo>>
      BY <2>5 DEF Cmd, Handle, tableVars, runVars
    <3>2. DOMAIN work' = Procs /\ DOMAIN todo' = Procs
      BY <3>1 DEF TableInv
    <3>3. QED
      BY <3>1, <3>2, Elsewhere
  <2>6. ASSUME NEW r \in Procs, Open(r) PROVE TableInv'
    <3>1. /\ UNCHANGED <<table, at, work, todo>>
          /\ phase' = [phase EXCEPT ![r] = "read"]
          /\ phase[r] = "no" /\ todo[r] = <<>> /\ work[r] # <<>>
      BY <2>6 DEF Open, Goes, cmdVars, runVars
    <3>2. Covered'
      BY <3>1, StillCovered DEF TableInv
    <3>3. QED
      BY <3>1, <3>2 DEF TableInv
  <2>7. ASSUME NEW r \in Procs, ReadLine(r) PROVE TableInv'
    <3>1. phase[r] = "read" /\ UNCHANGED <<table, todo>>
      BY <2>7 DEF ReadLine, cmdVars
    <3>2. CASE Return(r, AfterRefusal(work[r]))
      BY <3>1, <3>2, ReturnUnwritten
    <3>3. CASE /\ UNCHANGED <<phase, work>>
               /\ at' = [at EXCEPT ![r] = IF astray[r] THEN @ ELSE @ + 1]
      <4>1. /\ at' \in [Procs -> Nat]
            /\ \A q \in Procs : q # r => at'[q] = at[q]
        BY <3>3 DEF TableInv
      <4>2. Covered'
        BY <3>1, <3>3, <4>1, StillCovered DEF TableInv
      <4>3. QED
        BY <3>1, <3>3, <4>1, <4>2 DEF TableInv
    <3>4. QED
      BY <2>7, <3>2, <3>3 DEF ReadLine
  <2>8. ASSUME NEW r \in Procs, Change(r) PROVE TableInv'
    <3>1. phase[r] = "read" /\ UNCHANGED <<table, todo>>
      BY <2>8 DEF Change, cmdVars
    <3>2. CASE Return(r, AfterRefusal(work[r]))
      BY <3>1, <3>2, ReturnUnwritten
    <3>3. CASE /\ phase' = [phase EXCEPT ![r] = "write"]
               /\ at' = [at EXCEPT ![r] = 0] /\ UNCHANGED work
      <4>1. /\ at' \in [Procs -> Nat] /\ phase' \in [Procs -> {"no", "read", "write"}]
            /\ \A q \in Procs : q # r => phase'[q] = phase[q] /\ at'[q] = at[q]
        BY <3>3 DEF TableInv
      <4>2. Covered'
        BY <3>1, <4>1, StillCovered DEF TableInv
      <4>3. \A q \in Procs : phase'[q] # "no" => todo'[q] = <<>> /\ work'[q] # <<>>
        BY <3>1, <3>3 DEF TableInv
      <4>4. QED
        BY <3>1, <3>3, <4>1, <4>2, <4>3 DEF TableInv
    <3>4. QED
      BY <2>8, <3>2, <3>3 DEF Change
  <2>9. ASSUME NEW r \in Procs, Truncate(r) PROVE TableInv'
    <3>1. /\ phase[r] = "write" /\ table' = <<>> /\ at' = [at EXCEPT ![r] = 1]
          /\ UNCHANGED <<todo, work, phase>>
      BY <2>9 DEF Truncate, cmdVars, runVars
    <3>2. table' \in Seq(Nat)
      BY <3>1
    <3>3. at' \in [Procs -> Nat] /\ at'[r] = 1
      BY <3>1 DEF TableInv
    <3>4. Opening(r)'
      BY <3>1, <3>3 DEF Opening
    <3>5. QED
      BY <3>1, <3>2, <3>3, <3>4 DEF TableInv, Covered
  <2>10. ASSUME NEW r \in Procs, WriteLine(r) PROVE TableInv'
    <3>0. PICK w, name : w = at[r] - 1 /\ name = presets[r][w]
      OBVIOUS
    <3>1. phase[r] = "write" /\ at[r] > 0 /\ UNCHANGED todo
      BY <2>10 DEF WriteLine, cmdVars
    <3>2. PICK S : table \in Seq(S)
      BY DEF TableInv
    <3>3. at[r] \in Nat /\ w \in Nat /\ NumPresets \in Nat \ {0, 1}
      BY <3>0, <3>1, IpcCmdAssumption DEF TableInv
    <3>4. /\ \/ /\ at[r] < NumPresets
                /\ at' = [at EXCEPT ![r] = @ + 1] /\ UNCHANGED <<phase, work>>
             \/ at[r] >= NumPresets /\ Return(r, Tail(work[r]))
      BY <2>10, <3>3 DEF WriteLine
    <3>5. /\ DOMAIN work' = Procs
          /\ phase' \in [Procs -> {"no", "read", "write"}] /\ at' \in [Procs -> Nat]
          /\ \A q \in Procs : q # r =>
               phase'[q] = phase[q] /\ at'[q] = at[q] /\ work'[q] = work[q]
          /\ \/ at[r] < NumPresets /\ phase'[r] = "write" /\ at'[r] = at[r] + 1 /\ work'[r] = work[r]
             \/ at[r] >= NumPresets /\ phase'[r] = "no"
      <4>1. CASE at[r] < NumPresets /\ at' = [at EXCEPT ![r] = @ + 1] /\ UNCHANGED <<phase, work>>
        BY <3>1, <4>1 DEF TableInv
      <4>2. CASE at[r] >= NumPresets /\ Return(r, Tail(work[r]))
        BY <3>1, <4>2 DEF Return, TableInv
      <4>3. QED
        BY <3>4, <4>1, <4>2
    <3>6. \A q \in Procs : phase'[q] # "no" => todo'[q] = <<>> /\ work'[q] # <<>>
      BY <3>1, <3>5 DEF TableInv
    <3>7. CASE at[r] = 1
      <4>1. WriteInFront(<<0, name>>)
        BY <2>10, <3>0, <3>7 DEF WriteLine
      <4>2. PICK T : table' \in Seq(T)
        BY <3>2, <4>1, LineInFront
      <4>3. Len(table') \in Nat \ {0} /\ table'[1] = <<0, name>>
        BY <3>2, <4>1, LineInFront
      <4>4. 1 \in LinesOf(0)'
        BY <4>2, <4>3 DEF LinesOf
      <4>5. phase'[r] = "write" /\ at'[r] = 2
        BY <3>3, <3>5, <3>7
      <4>6. Filling(r)'
        <5>1. ASSUME NEW s \in Slots, s < 2 - 1 PROVE s = 0
          BY <5>1, <3>3 DEF Slots
        <5>2. QED
          BY <4>4, <4>5, <5>1 DEF Filling
      <4>7. QED
        BY <3>1, <3>5, <3>6, <4>2, <4>6 DEF TableInv, Covered
    <3>8. CASE at[r] # 1
      <4>1. table' = Append(table, <<w, name>>)
        BY <2>10, <3>0, <3>8 DEF WriteLine, Written
      <4>2. \E T : table' \in Seq(T)
        BY <3>2, <4>1, LineAppended
      <4>3. /\ LinesOf(w)' # {}
            /\ \A q \in Slots : LinesOf(q) # {} => LinesOf(q)' # {}
        BY <3>2, <4>1, LinesAfterAppend
      <4>4. CASE Full
        BY <3>1, <3>5, <3>6, <4>2, <4>3, <4>4 DEF TableInv, Covered, Full
      <4>5. ASSUME NEW q \in Procs, Opening(q) PROVE Opening(q)'
        BY <3>5, <3>8, <4>5 DEF Opening
      <4>6. ASSUME NEW q \in Procs, Filling(q), q # r PROVE Filling(q)'
        BY <3>5, <4>3, <4>6 DEF Filling
      <4>7. ASSUME Filling(r) PROVE Full' \/ Filling(r)'
        <5>1. ASSUME NEW s \in Slots, s <= w PROVE LinesOf(s)' # {}
          <6>1. s \in Int
            BY <3>3 DEF Slots
          <6>2. s = w \/ s < at[r] - 1
            BY <3>0, <3>3, <5>1, <6>1
          <6>3. QED
            BY <4>3, <4>7, <6>2 DEF Filling
        <5>2. CASE at[r] < NumPresets
          <6>1. phase'[r] = "write" /\ at'[r] = w + 2
            BY <3>0, <3>3, <3>5, <5>2
          <6>2. ASSUME NEW s \in Slots, s < (w + 2) - 1 PROVE s <= w
            BY <3>3, <6>2 DEF Slots
          <6>3. at'[r] > 1
            BY <3>3, <6>1
          <6>4. \A s \in Slots : s < (w + 2) - 1 => LinesOf(s)' # {}
            BY <5>1, <6>2
          <6>5. \A s \in Slots : s < at'[r] - 1 => LinesOf(s)' # {}
            BY ONLY <6>1, <6>4, Zenon
          <6>6. QED
            BY <6>1, <6>3, <6>5 DEF Filling
        <5>3. CASE ~(at[r] < NumPresets)
          <6>1. ASSUME NEW s \in Slots PROVE s <= w
            BY <3>0, <3>3, <5>3 DEF Slots
          <6>2. QED
            BY <5>1, <6>1 DEF Full
        <5>4. QED
          BY <5>2, <5>3
      <4>8. Covered'
        BY <4>4, <4>5, <4>6, <4>7, <4>3 DEF TableInv, Covered, Full
      <4>9. QED
        BY <3>1, <3>5, <3>6, <4>2, <4>8 DEF TableInv
    <3>9. QED
      BY <3>7, <3>8
  <2>11. CASE UNCHANGED vars
    <3>1. UNCHANGED <<table, phase, at, work, todo>>
      BY <2>11 DEF vars, cmdVars, tableVars, runVars
    <3>2. DOMAIN work' = Procs /\ DOMAIN todo' = Procs
      BY <3>1 DEF TableInv
    <3>3. QED
      BY <3>1, <3>2, Elsewhere
  <2>12. QED
    BY <2>1, <2>2, <2>3, <2>4, <2>5, <2>6, <2>7, <2>8, <2>9, <2>10, <2>11
       DEF PresetsNext, ScriptStep
<1>3. QED
  BY <1>1, <1>2, PTL DEF PresetsSpec

\* When all runs are over the table has a line for each number.
THEOREM TableIsComplete == PresetsSpec => []TableComplete
<1>1. TableInv => TableComplete
  BY DEF TableInv, TableComplete, AtRest, Idle, Covered, Full, Opening, Filling
<1>2. QED
  BY <1>1, TableInvariant, PTL

--------------------------------------------------------------------------------
(* One name for one number, as long as runs do not overlap. *)

Commands(S) == {"call", "add", "del"} \X S

\* What a script has still to do is a sequence of commands, each with an argument.
WorkInv ==
  /\ DOMAIN presets = Procs /\ DOMAIN firstAvail = Procs /\ DOMAIN astray = Procs
  /\ \A r \in Procs : \E S : work[r] \in Seq(Commands(S))

OneRun == \A r, p \in Procs : ~Idle(r) /\ ~Idle(p) => r = p

\* The table nobody is writing: a line for each number, in order, no name twice.
Complete ==
  /\ Len(table) = NumPresets
  /\ \A k \in 1..NumPresets : table[k] = <<k - 1, table[k][2]>>
  /\ \A j, k \in 1..NumPresets : table[j][2] = table[k][2] => j = k \/ table[j][2] = NoName

\* A run that reads: it has the names of the lines it has seen, and none of them is
\* the name it is to add.
Reading(r) ==
  /\ ~astray[r]
  /\ at[r] \in 1..NumPresets + 1
  /\ Head(work[r])[1] \in {"add", "del"}
  /\ DOMAIN presets[r] = Slots
  /\ \A s \in Slots : presets[r][s] = IF s < at[r] - 1 THEN table[s + 1][2] ELSE NoName
  /\ firstAvail[r] \in 0..NumPresets
  /\ Head(work[r])[1] = "add" =>
       \A s \in Slots : s < at[r] - 1 => table[s + 1][2] # Head(work[r])[2]

\* A run that writes: its names are unique, and the file is as far as it has come.
Writing(r) ==
  /\ ~astray[r]
  /\ at[r] \in 0..NumPresets
  /\ DOMAIN presets[r] = Slots
  /\ \A s, t \in Slots : presets[r][s] = presets[r][t] => s = t \/ presets[r][s] = NoName
  /\ at[r] > 0 => /\ Len(table) = at[r] - 1
                  /\ \A k \in 1..at[r] - 1 : table[k] = <<k - 1, presets[r][k - 1]>>

Away(r) ==
  ~astray[r] /\ at[r] = 1 /\ presets[r] = NoPresets /\ firstAvail[r] = NumPresets

Alone ==
  /\ OneRun
  /\ \A r \in Procs : phase[r] = "no" => Away(r)
  /\ \A r \in Procs : phase[r] = "read" => Reading(r)
  /\ \A r \in Procs : phase[r] = "write" => Writing(r)
  /\ (\A r \in Procs : phase[r] = "write" => at[r] = 0) => Complete

UniqueInv == WorkInv /\ (~overlapped => Alone)

LEMMA Short ==
  ASSUME NEW C, NEW a \in C, NEW b \in C, NEW c \in C
  PROVE  <<>> \in Seq(C) /\ <<a>> \in Seq(C) /\ <<a, b>> \in Seq(C) /\ <<a, b, c>> \in Seq(C)
  OBVIOUS

\* Whatever a script is asked for, it is such a sequence.
LEMMA ScriptsAreCommands ==
  ASSUME NEW q \in Requests
  PROVE  \E S : Script(q) \in Seq(Commands(S))
<1> DEFINE S == {q[2], Plain(0), "Home", << <<"missing argument", "">> >>,
                  << <<"get-pos", "">> >>, << <<"add_preset", q[2]>> >>,
                 << <<"remove_preset", q[2]>> >>, << <<"set_home_position", "">> >>,
                 << <<"preset", q[2]>> >>, << <<"move", q[2]>> >>, << <<"move", "stop">> >>}
           C == Commands(S)
<1>1. q[1] \in {"add", "nameless", "del", "home", "go", "move"}
  BY PresetsAssumption
<1>2. /\ Call("get-pos", "") \in C /\ <<"add", q[2]>> \in C /\ Call("add_preset", q[2]) \in C
      /\ <<"del", q[2]>> \in C /\ Call("remove_preset", q[2]) \in C
      /\ <<"del", Plain(0)>> \in C /\ <<"add", "Home">> \in C
      /\ Call("set_home_position", "") \in C /\ Call("missing argument", "") \in C
      /\ Call("preset", q[2]) \in C /\ Call("move", q[2]) \in C /\ Call("move", "stop") \in C
  BY DEF Call, Commands
<1> HIDE DEF C
<1>3. Script(q) \in Seq(C)
  <2>1. CASE q[1] = "add"
    <3>1. Script(q) = << Call("get-pos", ""), <<"add", q[2]>>, Call("add_preset", q[2]) >>
      BY <2>1 DEF Script
    <3>2. QED
      BY <3>1, <1>2, Short
  <2>2. CASE q[1] = "del"
    <3>1. Script(q) = << <<"del", q[2]>>, Call("remove_preset", q[2]) >>
      BY <2>2 DEF Script
    <3>2. QED
      BY <3>1, <1>2, Short
  <2>3. CASE q[1] = "home"
    <3>1. Script(q) = << <<"del", Plain(0)>>, <<"add", "Home">>, Call("set_home_position", "") >>
      BY <2>3 DEF Script
    <3>2. QED
      BY <3>1, <1>2, Short
  <2>4. CASE q[1] = "go"
    <3>1. Script(q) = << Call("preset", q[2]) >> \/ Script(q) = <<>>
      BY <2>4 DEF Script
    <3>2. QED
      BY <3>1, <1>2, Short
  <2>5. CASE q[1] = "move"
    <3>1. Script(q) = << Call("move", q[2]), Call("move", "stop") >>
      BY <2>5 DEF Script, MoveScript
    <3>2. QED
      BY <3>1, <1>2, Short
  <2>6. CASE q[1] = "nameless"
    <3>1. Script(q) = << Call("get-pos", ""), <<"add", q[2]>>, Call("missing argument", "") >>
      BY <2>6 DEF Script
    <3>2. QED
      BY <3>1, <1>2, Short
  <2>7. QED
    BY <1>1, <2>1, <2>2, <2>3, <2>4, <2>5, <2>6
<1>4. QED
  BY <1>3 DEF C

\* A step of a run that is under way starts no other.
LEMMA NoOtherRun ==
  ASSUME OneRun, NEW r \in Procs, ~Idle(r),
         \A q \in Procs : q # r => work'[q] = work[q] /\ todo'[q] = todo[q]
  PROVE  OneRun'
  BY DEF OneRun, Idle

\* A step that leaves the table, and what runs know of it, alone.
LEMMA NamesElsewhere ==
  ASSUME Alone, OneRun', UNCHANGED <<table, phase, at, presets, firstAvail, astray>>,
         \A q \in Procs : phase[q] # "no" => work'[q] = work[q]
  PROVE  Alone'
<1>1. \A q \in Procs : phase[q] = "no" => Away(q)'
  BY DEF Alone, Away
<1>2. \A q \in Procs : phase[q] = "read" => Reading(q)'
  BY DEF Alone, Reading
<1>3. \A q \in Procs : phase[q] = "write" => Writing(q)'
  BY DEF Alone, Writing
<1>4. Complete' <=> Complete
  BY DEF Complete
<1>5. QED
  BY <1>1, <1>2, <1>3, <1>4 DEF Alone

\* The run at the table is the only one there.
LEMMA OthersAway ==
  ASSUME TableInv, Alone, NEW r \in Procs, phase[r] # "no"
  PROVE  /\ ~Idle(r)
         /\ \A q \in Procs : q # r => phase[q] = "no" /\ Away(q)
  BY DEF TableInv, Alone, OneRun, Idle

\* A step of that run: what has to be shown.
LEMMA NamesAtTable ==
  ASSUME TableInv, Alone, NEW r \in Procs, phase[r] # "no",
         \A q \in Procs : q # r =>
           /\ phase'[q] = phase[q] /\ at'[q] = at[q] /\ presets'[q] = presets[q]
           /\ firstAvail'[q] = firstAvail[q] /\ work'[q] = work[q]
           /\ ~astray[q] => ~astray'[q],
         UNCHANGED todo,
         phase'[r] = "no" => Away(r)',
         phase'[r] = "read" => Reading(r)',
         phase'[r] = "write" => Writing(r)',
         (phase'[r] = "write" => at'[r] = 0) => Complete'
  PROVE  Alone'
<1>1. /\ ~Idle(r)
      /\ \A q \in Procs : q # r => phase[q] = "no" /\ Away(q)
  BY OthersAway
<1>2. OneRun'
  BY <1>1, NoOtherRun DEF Alone
<1>3. \A q \in Procs : q # r => phase'[q] = "no" /\ Away(q)'
  BY <1>1 DEF Away
<1>4. \A q \in Procs : phase'[q] = "no" => Away(q)'
  BY <1>3
<1>5. /\ \A q \in Procs : phase'[q] = "read" => Reading(q)'
      /\ \A q \in Procs : phase'[q] = "write" => Writing(q)'
  BY <1>3
<1>6. (\A q \in Procs : phase'[q] = "write" => at'[q] = 0) => Complete'
  BY <1>3
<1>7. QED
  BY <1>2, <1>4, <1>5, <1>6 DEF Alone

\* The end of add_del_preset.
LEMMA NamesReturn ==
  ASSUME TableInv, WorkInv, NEW r \in Procs, NEW rest, Return(r, rest)
  PROVE  /\ \A q \in Procs : q # r =>
              /\ phase'[q] = phase[q] /\ at'[q] = at[q] /\ presets'[q] = presets[q]
              /\ firstAvail'[q] = firstAvail[q] /\ work'[q] = work[q]
              /\ ~astray[q] => ~astray'[q]
         /\ phase'[r] = "no" /\ Away(r)'
  BY DEF Return, TableInv, WorkInv, Away

LEMMA Rest ==
  ASSUME NEW C, NEW s \in Seq(C)
  PROVE  <<>> \in Seq(C) /\ (s # <<>> => Tail(s) \in Seq(C))
  OBVIOUS

\* ... when nothing was written.
LEMMA NamesUnwritten ==
  ASSUME TableInv, WorkInv, Alone, NEW r \in Procs, NEW rest, Return(r, rest),
         phase[r] = "read", UNCHANGED <<table, todo>>
  PROVE  Alone'
<1>1. /\ \A q \in Procs : q # r =>
            /\ phase'[q] = phase[q] /\ at'[q] = at[q] /\ presets'[q] = presets[q]
            /\ firstAvail'[q] = firstAvail[q] /\ work'[q] = work[q]
            /\ ~astray[q] => ~astray'[q]
      /\ phase'[r] = "no" /\ Away(r)'
  BY NamesReturn
<1>2. Complete
  BY OthersAway DEF Alone
<1>3. Complete'
  BY <1>2 DEF Complete
<1>4. QED
  BY <1>1, <1>3, NamesAtTable

\* The command a script is at is a pair: comparing it compares what is done to what.
LEMMA HeadIsCommand ==
  ASSUME WorkInv, NEW r \in Procs, work[r] # <<>>
  PROVE  Head(work[r]) = <<Head(work[r])[1], Head(work[r])[2]>>
<1>1. PICK S : work[r] \in Seq(Commands(S))
  BY DEF WorkInv
<1> DEFINE C == Commands(S)
<1> HIDE DEF C
<1>2. work[r] \in Seq(C)
  BY <1>1 DEF C
<1>3. Head(work[r]) \in C
  BY <1>2
<1>4. QED
  BY <1>3 DEF C, Commands

\* A line appended to the file.
LEMMA Longer ==
  ASSUME NEW S, NEW s \in Seq(S), NEW e
  PROVE  /\ Len(Append(s, e)) = Len(s) + 1
         /\ Append(s, e)[Len(s) + 1] = e
         /\ \A j \in 1..Len(s) : Append(s, e)[j] = s[j]
<1>1. s \in Seq(S \cup {e}) /\ e \in S \cup {e}
  OBVIOUS
<1>2. QED
  BY <1>1

\* The end of add_del_preset, or of the script, leaves a sequence of commands.
LEMMA WorkReturn ==
  ASSUME TableInv, WorkInv, NEW r \in Procs, NEW rest, Return(r, rest),
         rest = <<>> \/ (work[r] # <<>> /\ rest = Tail(work[r]))
  PROVE  WorkInv'
<1>1. PICK S : work[r] \in Seq(Commands(S))
  BY DEF WorkInv
<1>2. rest \in Seq(Commands(S))
  BY <1>1, Rest
<1>3. work' = [work EXCEPT ![r] = rest] /\ DOMAIN presets' = Procs
      /\ DOMAIN firstAvail' = Procs /\ DOMAIN astray' = Procs
  BY DEF Return, WorkInv
<1>4. \A q \in Procs : work'[q] = IF q = r THEN rest ELSE work[q]
  BY <1>3 DEF TableInv
<1>5. ASSUME NEW q \in Procs PROVE \E T : work'[q] \in Seq(Commands(T))
  BY <1>2, <1>4 DEF WorkInv
<1>6. QED
  BY <1>3, <1>5 DEF WorkInv

\* Each step of the scripts keeps what the names rest on.
THEOREM UniqueInvariant == PresetsSpec => []UniqueInv
<1>1. PresetsInit => UniqueInv
  <2> SUFFICES ASSUME PresetsInit PROVE UniqueInv
    OBVIOUS
  <2>1. WorkInv
    BY DEF PresetsInit, WorkInv
  <2>2. OneRun
    BY DEF PresetsInit, CmdInit, OneRun, Idle
  <2>3. Complete
    BY IpcCmdAssumption DEF PresetsInit, Complete, Line
  <2>4. \A r \in Procs : phase[r] = "no" /\ Away(r)
    BY DEF PresetsInit, Away
  <2>5. QED
    BY <2>1, <2>2, <2>3, <2>4 DEF UniqueInv, Alone
<1>2. TableInv /\ UniqueInv /\ [PresetsNext]_vars => UniqueInv'
  <2> SUFFICES ASSUME TableInv, WorkInv, ~overlapped => Alone, [PresetsNext]_vars
               PROVE  UniqueInv'
    BY DEF UniqueInv
  <2> USE DEF UniqueInv
  <2>1. ASSUME NEW r \in Procs, Start(r) PROVE UniqueInv'
    <3>1. /\ UNCHANGED tableVars
          /\ \A q \in Procs : q # r => work'[q] = work[q] /\ todo'[q] = todo[q]
          /\ Idle(r)
      BY <2>1 DEF Start, Begin, BeginFails, TableInv
    <3>2. \E S : work'[r] \in Seq(Commands(S))
      <4>1. CASE UNCHANGED work
        BY <4>1 DEF WorkInv
      <4>2. CASE \E q \in Requests : work' = [work EXCEPT ![r] = Script(q)]
        <5>1. PICK q \in Requests : work' = [work EXCEPT ![r] = Script(q)]
          BY <4>2
        <5>2. work'[r] = Script(q)
          BY <5>1 DEF TableInv
        <5>3. QED
          BY <5>2, ScriptsAreCommands
      <4>3. QED
        BY <2>1, <4>1, <4>2 DEF Start
    <3>3. WorkInv'
      BY <3>1, <3>2 DEF tableVars, WorkInv
    <3>4. ASSUME ~overlapped' PROVE Alone'
      <4>1. ~overlapped /\ \A q \in Procs : Idle(q)
        BY <2>1, <3>4 DEF Start
      <4>2. OneRun'
        BY <3>1, <4>1 DEF OneRun, Idle
      <4>3. \A q \in Procs : phase[q] = "no"
        BY <4>1 DEF TableInv, Idle
      <4>4. QED
        BY <3>1, <4>1, <4>2, <4>3, NamesElsewhere DEF tableVars
    <3>5. QED
      BY <3>3, <3>4
  <2>2. ASSUME NEW r \in Procs, CallCmd(r) \/ CallFails(r) \/ PositionFails(r)
        PROVE  UniqueInv'
    <3>1. /\ UNCHANGED <<tableVars, overlapped>>
          /\ \A q \in Procs : q # r => work'[q] = work[q] /\ todo'[q] = todo[q]
          /\ phase[r] = "no" /\ ~Idle(r)
      BY <2>2 DEF CallCmd, CallFails, Begin, BeginFails, PositionFails, ReadFails, Goes, Idle,
                  TableInv
    <3>2. PICK S : work[r] \in Seq(Commands(S))
      BY DEF WorkInv
    <3>3. work'[r] = <<>> \/ (work[r] # <<>> /\ work'[r] = Tail(work[r]))
      BY <2>2 DEF CallCmd, CallFails, PositionFails, Goes, TableInv
    <3>4. work'[r] \in Seq(Commands(S))
      BY <3>2, <3>3, Rest
    <3>5. ASSUME NEW q \in Procs PROVE \E T : work'[q] \in Seq(Commands(T))
      BY <3>1, <3>4 DEF WorkInv
    <3>6. WorkInv'
      BY <3>1, <3>5 DEF WorkInv, tableVars
    <3>7. ASSUME ~overlapped PROVE Alone'
      <4>1. OneRun'
        BY <3>1, <3>7, NoOtherRun DEF Alone
      <4>2. QED
        BY <3>1, <3>7, <4>1, NamesElsewhere DEF tableVars
    <3>8. QED
      BY <3>1, <3>6, <3>7
  <2>3. ASSUME NEW r \in Procs,
               \/ SendMessage(r) \/ Cmd(ReadPosition(r))
               \/ Cmd(PrintPosition(r)) \/ Cmd(ReadFile(r))
        PROVE  UniqueInv'
    <3>1. /\ UNCHANGED <<tableVars, work, overlapped>>
          /\ \A q \in Procs : q # r => todo'[q] = todo[q]
          /\ ~Idle(r)
      BY <2>3 DEF SendMessage, runVars, Cmd, SendNext, ReadPosition, PrintPosition, ReadFile,
                  Idle, TableInv
    <3>2. WorkInv'
      BY <3>1 DEF WorkInv, tableVars
    <3>3. ASSUME ~overlapped PROVE Alone'
      <4>1. OneRun'
        BY <3>1, <3>3, NoOtherRun DEF Alone
      <4>2. QED
        BY <3>1, <3>3, <4>1, NamesElsewhere DEF tableVars
    <3>4. QED
      BY <3>1, <3>2, <3>3
  <2>4. CASE Cmd(Handle) \/ UNCHANGED vars
    <3>1. UNCHANGED <<tableVars, work, todo, overlapped>>
      BY <2>4 DEF Cmd, Handle, vars, cmdVars, runVars
    <3>2. WorkInv'
      BY <3>1 DEF WorkInv, tableVars
    <3>3. OneRun' <=> OneRun
      BY <3>1 DEF OneRun, Idle
    <3>4. ASSUME ~overlapped PROVE Alone'
      BY <3>1, <3>3, <3>4, NamesElsewhere DEF Alone, tableVars
    <3>5. QED
      BY <3>1, <3>2, <3>4
  <2>5. ASSUME NEW r \in Procs, Open(r) PROVE UniqueInv'
    <3>1. /\ UNCHANGED <<table, work, todo, at, presets, firstAvail, astray, overlapped>>
          /\ phase[r] = "no" /\ phase'[r] = "read"
          /\ \A q \in Procs : q # r => phase'[q] = phase[q]
          /\ work[r] # <<>> /\ Head(work[r])[1] \in {"add", "del"}
      BY <2>5 DEF Open, Goes, cmdVars, runVars, TableInv
    <3>2. WorkInv'
      BY <3>1 DEF WorkInv
    <3>3. ASSUME ~overlapped PROVE Alone'
      <4>1. OneRun'
        BY <3>1, <3>3 DEF Alone, OneRun, Idle
      <4>2. \A q \in Procs : phase[q] # "no" => q = r
        BY <3>1, <3>3 DEF Alone, OneRun, Idle, TableInv
      <4>3. Away(r)
        BY <3>1, <3>3 DEF Alone
      <4>4. Reading(r)'
        BY <3>1, <4>3, IpcCmdAssumption DEF Reading, Away, NoPresets, Slots
      <4>5. Complete /\ (Complete' <=> Complete)
        BY <3>1, <3>3, <4>2 DEF Alone, Complete
      <4>6. \A q \in Procs : q # r => phase'[q] = "no" /\ Away(q)'
        BY <3>1, <3>3, <4>2 DEF Alone, Away, TableInv
      <4>7. QED
        BY <3>1, <4>1, <4>4, <4>5, <4>6 DEF Alone
    <3>4. QED
      BY <3>1, <3>2, <3>3
  <2>6. ASSUME NEW r \in Procs, ReadLine(r) PROVE UniqueInv'
    <3>1. phase[r] = "read" /\ UNCHANGED <<table, todo, overlapped>>
      BY <2>6 DEF ReadLine, cmdVars
    <3>2. PICK l \in NextLines(r) :
            IF SameName(Head(work[r]), l)
              THEN Return(r, AfterRefusal(work[r]))
              ELSE /\ presets' = [presets EXCEPT ![r][l[1]] = l[2]]
                   /\ firstAvail' = [firstAvail EXCEPT ![r] = Kept(@, l)]
                   /\ at' = [at EXCEPT ![r] = IF astray[r] THEN @ ELSE @ + 1]
                   /\ UNCHANGED <<phase, astray, work>>
      BY <2>6 DEF ReadLine
    <3>3. CASE SameName(Head(work[r]), l)
      <4>1. Return(r, AfterRefusal(work[r]))
        BY <3>2, <3>3
      <4>2. WorkInv'
        BY <3>1, <4>1, WorkReturn DEF AfterRefusal, TableInv
      <4>3. ASSUME ~overlapped PROVE Alone'
        BY <3>1, <4>1, <4>3, NamesUnwritten
      <4>4. QED
        BY <3>1, <4>2, <4>3
    <3>4. CASE ~SameName(Head(work[r]), l)
      <4>1. /\ presets' = [presets EXCEPT ![r][l[1]] = l[2]]
            /\ firstAvail' = [firstAvail EXCEPT ![r] = Kept(@, l)]
            /\ at' = [at EXCEPT ![r] = IF astray[r] THEN @ ELSE @ + 1]
            /\ UNCHANGED <<phase, astray, work>>
        BY <3>2, <3>4
      <4>2. /\ \A q \in Procs : q # r =>
                 at'[q] = at[q] /\ presets'[q] = presets[q] /\ firstAvail'[q] = firstAvail[q]
            /\ ~astray[r] => at'[r] = at[r] + 1
            /\ presets'[r] = [presets[r] EXCEPT ![l[1]] = l[2]]
            /\ firstAvail'[r] = Kept(firstAvail[r], l)
            /\ DOMAIN presets' = Procs /\ DOMAIN firstAvail' = Procs
        BY <4>1 DEF TableInv, WorkInv
      <4>3. WorkInv'
        BY <4>1, <4>2 DEF WorkInv
      <4>4. ASSUME ~overlapped PROVE Alone'
        <5>1. Reading(r) /\ Complete
          BY <3>1, <4>4, OthersAway DEF Alone
        <5>1a. /\ at[r] \in DOMAIN table /\ l = table[at[r]] /\ ~astray[r]
               /\ at'[r] = at[r] + 1
          BY <3>2, <4>2, <5>1 DEF NextLines, Reading
        <5>2. PICK k \in 1..NumPresets : at[r] = k
          BY <5>1, <5>1a DEF Complete, TableInv
        <5>3. l = <<k - 1, table[k][2]>> /\ table[k][2] = l[2]
          BY <5>1, <5>1a, <5>2 DEF Complete
        <5>4. DOMAIN presets'[r] = Slots
          BY <4>2, <5>1 DEF Reading
        <5>5. ASSUME NEW s \in Slots
              PROVE  presets'[r][s] = IF s < at'[r] - 1 THEN table[s + 1][2] ELSE NoName
          <6>1. s \in Int /\ k \in Int /\ at'[r] = k + 1 /\ l[1] = k - 1
            BY <5>1a, <5>2, <5>3, IpcCmdAssumption DEF Slots
          <6>2. presets'[r][s] = IF s = k - 1 THEN l[2] ELSE presets[r][s]
            BY <4>2, <5>1, <6>1 DEF Reading
          <6>3. presets[r][s] = IF s < k - 1 THEN table[s + 1][2] ELSE NoName
            BY <5>1, <5>2 DEF Reading
          <6>4. CASE s = k - 1
            <7>1. s < at'[r] - 1 /\ s + 1 = k
              BY <6>1, <6>4
            <7>2. QED
              BY <5>3, <6>2, <6>4, <7>1
          <6>5. CASE s # k - 1
            <7>1. s < at'[r] - 1 <=> s < k - 1
              BY <6>1, <6>5
            <7>2. QED
              BY <6>2, <6>3, <6>5, <7>1
          <6>6. QED
            BY <6>4, <6>5
        <5>6. firstAvail'[r] \in 0..NumPresets
          BY <4>2, <5>1, <5>2, <5>3, IpcCmdAssumption DEF Reading, Kept
        <5>7. ASSUME Head(work[r])[1] = "add", NEW s \in Slots, s < at'[r] - 1
              PROVE  table[s + 1][2] # Head(work[r])[2]
          <6>1. Head(work[r]) = <<"add", Head(work[r])[2]>>
            BY <3>1, <5>7, HeadIsCommand DEF TableInv
          <6>2. l[2] # Head(work[r])[2]
            BY <3>4, <6>1 DEF SameName
          <6>3. CASE s = k - 1
            BY <5>2, <5>3, <6>2, <6>3
          <6>4. CASE s # k - 1
            <7>1. s \in Int /\ k \in Int /\ NumPresets \in Int /\ s < k
              BY <5>1a, <5>2, <5>7, IpcCmdAssumption DEF Slots
            <7>2. s < at[r] - 1
              BY <7>1, <5>2, <6>4
            <7>3. QED
              BY <5>1, <5>7, <7>2 DEF Reading
          <6>5. QED
            BY <6>3, <6>4
        <5>8. at'[r] \in 1..NumPresets + 1
          BY <5>1a, <5>2, IpcCmdAssumption
        <5>9. Reading(r)'
          BY <3>1, <4>1, <5>1, <5>4, <5>5, <5>6, <5>7, <5>8 DEF Reading
        <5>10. Complete'
          BY <3>1, <5>1 DEF Complete
        <5>11. QED
          BY <3>1, <4>1, <4>2, <4>4, <5>9, <5>10, NamesAtTable
      <4>5. QED
        BY <3>1, <4>3, <4>4
    <3>5. QED
      BY <3>3, <3>4
  <2>7. ASSUME NEW r \in Procs, Change(r) PROVE UniqueInv'
    <3>1. /\ phase[r] = "read" /\ (astray[r] \/ at[r] > Len(table))
          /\ UNCHANGED <<table, todo, overlapped>>
      BY <2>7 DEF Change, cmdVars
    <3>2. CASE Return(r, AfterRefusal(work[r]))
      <4>1. WorkInv'
        BY <3>1, <3>2, WorkReturn DEF AfterRefusal, TableInv
      <4>2. ASSUME ~overlapped PROVE Alone'
        BY <3>1, <3>2, <4>2, NamesUnwritten
      <4>3. QED
        BY <3>1, <4>1, <4>2
    <3>3. CASE ~Return(r, AfterRefusal(work[r]))
      <4>0. PICK what, arg : what = Head(work[r])[1] /\ arg = Head(work[r])[2]
        OBVIOUS
      <4>1. /\ ~(what = "add" /\ firstAvail[r] = NumPresets)
            /\ phase' = [phase EXCEPT ![r] = "write"]
            /\ at' = [at EXCEPT ![r] = 0]
            /\ presets' = [presets EXCEPT ![r] = NewTable(r, what, arg)]
            /\ astray' = [astray EXCEPT ![r] = FALSE]
            /\ UNCHANGED <<firstAvail, work>>
        BY <2>7, <3>3, <4>0 DEF Change
      <4>2. /\ \A q \in Procs : q # r =>
                 /\ phase'[q] = phase[q] /\ at'[q] = at[q] /\ presets'[q] = presets[q]
                 /\ ~astray[q] => ~astray'[q]
            /\ at'[r] = 0 /\ phase'[r] = "write" /\ ~astray'[r]
            /\ presets'[r] = NewTable(r, what, arg)
            /\ DOMAIN presets' = Procs /\ DOMAIN astray' = Procs
        BY <4>1 DEF TableInv, WorkInv
      <4>3. WorkInv'
        BY <4>1, <4>2 DEF WorkInv
      <4>4. ASSUME ~overlapped PROVE Alone'
        <5>1. Reading(r) /\ Complete
          BY <3>1, <4>4, OthersAway DEF Alone
        <5>2. at[r] = NumPresets + 1
          BY <3>1, <5>1, IpcCmdAssumption DEF Reading, Complete
        <5>3. /\ DOMAIN presets[r] = Slots
              /\ \A s \in Slots : presets[r][s] = table[s + 1][2]
          BY <5>1, <5>2, IpcCmdAssumption DEF Reading, Slots
        <5>4. \A s, t \in Slots :
                presets[r][s] = presets[r][t] => s = t \/ presets[r][s] = NoName
          <6>1. ASSUME NEW s \in Slots, NEW t \in Slots, presets[r][s] = presets[r][t],
                       presets[r][s] # NoName
                PROVE  s = t
            <7>1. s + 1 \in 1..NumPresets /\ t + 1 \in 1..NumPresets
              BY IpcCmdAssumption DEF Slots
            <7>2. s + 1 = t + 1
              BY <5>1, <5>3, <6>1, <7>1 DEF Complete
            <7>3. QED
              BY <7>2 DEF Slots
          <6>2. QED
            BY <6>1
        <5>5. CASE what = "add"
          <6>1. presets'[r] = [presets[r] EXCEPT ![firstAvail[r]] = arg]
            BY <4>2, <5>5 DEF NewTable
          <6>2. \A s \in Slots : presets[r][s] # arg
            <7>1. ASSUME NEW s \in Slots PROVE s < at[r] - 1
              BY <5>2, IpcCmdAssumption DEF Slots
            <7>2. QED
              BY <4>0, <5>1, <5>3, <5>5, <7>1 DEF Reading
          <6>3. Writing(r)'
            BY <4>2, <5>3, <5>4, <6>1, <6>2, IpcCmdAssumption DEF Writing
          <6>4. QED
            BY <3>1, <4>1, <4>2, <4>4, <5>1, <6>3, NamesAtTable DEF Complete
        <5>6. CASE what # "add"
          <6>1. presets'[r] =
                  [s \in Slots |-> IF Deletes(arg, s) THEN NoName ELSE presets[r][s]]
            BY <4>2, <5>6 DEF NewTable
          <6>2. Writing(r)'
            BY <4>2, <5>4, <6>1, IpcCmdAssumption DEF Writing
          <6>3. QED
            BY <3>1, <4>1, <4>2, <4>4, <5>1, <6>2, NamesAtTable DEF Complete
        <5>7. QED
          BY <5>5, <5>6
      <4>5. QED
        BY <3>1, <4>3, <4>4
    <3>4. QED
      BY <3>2, <3>3
  <2>8. ASSUME NEW r \in Procs, Truncate(r) PROVE UniqueInv'
    <3>1. /\ phase[r] = "write" /\ at[r] = 0 /\ table' = <<>> /\ at'[r] = 1
          /\ \A q \in Procs : q # r => at'[q] = at[q]
          /\ UNCHANGED <<todo, work, phase, presets, firstAvail, overlapped>>
          /\ astray' = [q \in Procs |-> Misled(q)]
      BY <2>8 DEF Truncate, cmdVars, runVars, TableInv
    <3>2. WorkInv'
      BY <3>1 DEF WorkInv
    <3>3. ASSUME ~overlapped PROVE Alone'
      <4>1. Writing(r)
        BY <3>1, <3>3 DEF Alone
      <4>2. ~astray'[r] /\ \A q \in Procs : q # r /\ ~astray[q] => ~astray'[q]
        BY <3>1, <3>3, <4>1, OthersAway DEF Misled, Writing
      <4>3. Writing(r)'
        BY <3>1, <4>1, <4>2, IpcCmdAssumption DEF Writing
      <4>4. QED
        BY <3>1, <3>3, <4>2, <4>3, NamesAtTable
    <3>4. QED
      BY <3>1, <3>2, <3>3
  <2>9. ASSUME NEW r \in Procs, WriteLine(r) PROVE UniqueInv'
    <3>1. PICK k \in Nat : at[r] = k
      BY DEF TableInv
    <3>2. PICK name : name = presets[r][k - 1]
      OBVIOUS
    <3>3. /\ phase[r] = "write" /\ k > 0 /\ UNCHANGED <<todo, overlapped>>
          /\ IF k = 1 THEN WriteInFront(<<0, name>>) ELSE table' = Append(table, <<k - 1, name>>)
      BY <2>9, <3>1, <3>2 DEF WriteLine, Written, cmdVars
    <3>4. ASSUME ~overlapped
          PROVE  /\ k \in 1..NumPresets /\ Writing(r) /\ Len(table') = k
                 /\ \A j \in 1..k : table'[j] = <<j - 1, presets[r][j - 1]>>
      <4>1. Writing(r)
        BY <3>3, <3>4 DEF Alone
      <4>2. /\ k \in 1..NumPresets /\ Len(table) = k - 1
            /\ \A j \in 1..k - 1 : table[j] = <<j - 1, presets[r][j - 1]>>
        BY <3>1, <3>3, <4>1, IpcCmdAssumption DEF Writing
      <4>2a. table' = Append(table, <<k - 1, name>>)
        <5>1. CASE k = 1
          <6>1. table = <<>>
            BY <4>2, <5>1 DEF TableInv
          <6>2. table' = << <<0, name>> >>
            BY <3>3, <5>1, <6>1, LineInFront DEF TableInv
          <6>3. QED
            BY <5>1, <6>1, <6>2
        <5>2. QED
          BY <3>3, <5>1
      <4>3. Len(table') = k
        BY <4>2, <4>2a, Longer DEF TableInv
      <4>4. ASSUME NEW j \in 1..k PROVE table'[j] = <<j - 1, presets[r][j - 1]>>
        <5>1. CASE j = k
          BY <3>2, <4>2, <4>2a, <5>1, Longer DEF TableInv
        <5>2. CASE j # k
          <6>1. j \in 1..k - 1
            BY <5>2
          <6>2. table'[j] = table[j]
            BY <4>2, <4>2a, <6>1, Longer DEF TableInv
          <6>3. QED
            BY <4>2, <6>1, <6>2
        <5>3. QED
          BY <5>1, <5>2
      <4>5. QED
        BY <4>1, <4>2, <4>3, <4>4
    <3>5. CASE k < NumPresets
      <4>1. /\ UNCHANGED <<phase, work, presets, firstAvail>>
            /\ at'[r] = k + 1 /\ \A q \in Procs : q # r => at'[q] = at[q]
            /\ astray' = [q \in Procs |-> astray[q] \/ (at[r] = 1 /\ phase[q] = "read")]
        BY <2>9, <3>1, <3>5 DEF WriteLine, TableInv
      <4>2. WorkInv'
        BY <4>1 DEF WorkInv
      <4>3. ASSUME ~overlapped PROVE Alone'
        <5>0. ~astray'[r] /\ \A q \in Procs : q # r /\ ~astray[q] => ~astray'[q]
          BY <3>3, <3>4, <4>1, <4>3, OthersAway DEF Writing
        <5>1. Writing(r)'
          BY <3>4, <3>5, <4>1, <4>3, <5>0, IpcCmdAssumption, SMTT(20) DEF Writing
        <5>2. at'[r] # 0
          BY <4>1
        <5>3. QED
          BY <3>3, <4>1, <4>3, <5>0, <5>1, <5>2, NamesAtTable
      <4>4. QED
        BY <3>3, <4>2, <4>3
    <3>6. CASE ~(k < NumPresets)
      <4>1. Return(r, Tail(work[r]))
        BY <2>9, <3>1, <3>6 DEF WriteLine
      <4>2. WorkInv'
        BY <3>3, <4>1, WorkReturn DEF TableInv
      <4>3. ASSUME ~overlapped PROVE Alone'
        <5>1. /\ Len(table') = NumPresets
              /\ \A j \in 1..NumPresets : table'[j] = <<j - 1, presets[r][j - 1]>>
          BY <3>4, <3>6, <4>3, IpcCmdAssumption
        <5>2. ASSUME NEW i \in 1..NumPresets, NEW j \in 1..NumPresets,
                     table'[i][2] = table'[j][2], table'[i][2] # NoName
              PROVE  i = j
          <6>1. i - 1 \in Slots /\ j - 1 \in Slots
            BY IpcCmdAssumption DEF Slots
          <6>2. presets[r][i - 1] = presets[r][j - 1] /\ presets[r][i - 1] # NoName
            BY <5>1, <5>2
          <6>3. \A t, u \in Slots :
                  presets[r][t] = presets[r][u] => t = u \/ presets[r][t] = NoName
            BY <3>4, <4>3 DEF Writing
          <6>4. i - 1 = j - 1
            BY <6>1, <6>2, <6>3, Zenon
          <6>5. QED
            BY <6>4
        <5>3. Complete'
          BY <5>1, <5>2 DEF Complete
        <5>4. /\ \A q \in Procs : q # r =>
                    /\ phase'[q] = phase[q] /\ at'[q] = at[q] /\ presets'[q] = presets[q]
                    /\ firstAvail'[q] = firstAvail[q] /\ work'[q] = work[q]
                    /\ ~astray[q] => ~astray'[q]
              /\ phase'[r] = "no" /\ Away(r)'
          BY <4>1, NamesReturn
        <5>5. QED
          BY <3>3, <4>3, <5>3, <5>4, NamesAtTable
      <4>4. QED
        BY <3>3, <4>2, <4>3
    <3>7. QED
      BY <3>5, <3>6
  <2>10. QED
    BY <2>1, <2>2, <2>3, <2>4, <2>5, <2>6, <2>7, <2>8, <2>9
       DEF PresetsNext, ScriptStep
<1>3. QED
  BY <1>1, <1>2, TableInvariant, PTL DEF PresetsSpec

\* The name of a number, when nobody is writing: that of its line.
LEMMA NameOfLine ==
  ASSUME TableInv, Complete, NEW n \in Slots
  PROVE  NameOf(n) = table[n + 1][2]
<1>1. n \in Int /\ n + 1 \in 1..NumPresets
  BY IpcCmdAssumption DEF Slots
<1>2. DOMAIN table = 1..NumPresets
  BY DEF Complete, TableInv
<1>3. \A k \in 1..NumPresets : table[k][1] = k - 1
  BY DEF Complete
<1>4. \A k \in 1..NumPresets : k - 1 = n <=> k = n + 1
  BY <1>1
<1>5. LinesOf(n) = {n + 1}
  BY <1>1, <1>2, <1>3, <1>4 DEF LinesOf
<1>6. \A k \in LinesOf(n) : k = n + 1 /\ \A j \in LinesOf(n) : j <= k
  BY <1>1, <1>5
<1>7. n + 1 \in LinesOf(n)
  BY <1>5
<1>8. (CHOOSE k \in LinesOf(n) : \A j \in LinesOf(n) : j <= k) = n + 1
  BY <1>6, <1>7
<1>9. QED
  BY <1>8 DEF NameOf

\* Runs that do not overlap never give one name to two numbers.
THEOREM NamesAreUnique == PresetsSpec => []NamesUnique
<1>1. TableInv /\ UniqueInv => NamesUnique
  <2> SUFFICES ASSUME TableInv, UniqueInv, AtRest, ~overlapped,
                      NEW s \in Slots, NEW t \in Slots, NameOf(s) = NameOf(t)
               PROVE  s = t \/ NameOf(s) = NoName
    BY DEF NamesUnique
  <2>1. Complete
    BY DEF TableInv, UniqueInv, Alone, AtRest, Idle
  <2>2. \A n \in Slots : NameOf(n) = table[n + 1][2]
    BY <2>1, NameOfLine
  <2>3. s + 1 \in 1..NumPresets /\ t + 1 \in 1..NumPresets /\ (s + 1 = t + 1 => s = t)
    BY IpcCmdAssumption DEF Slots
  <2>4. QED
    BY <2>1, <2>2, <2>3 DEF Complete
<1>2. QED
  BY <1>1, TableInvariant, UniqueInvariant, PTL

--------------------------------------------------------------------------------
(* What a command line makes ipc_cmd send. *)

\* The least number of a set, without induction over a predicate.
LEMMA Least ==
  ASSUME NEW T, T \subseteq Nat, T # {}
  PROVE  \E m \in T : \A y \in T : m <= y
<1>1. IsWellFoundedOn(OpToRel(<, Nat), Nat)
  BY NatLessThanWellFounded, Zenon
<1>2. PICK m \in T : \A y \in T : ~(<<y, m>> \in OpToRel(<, Nat))
  BY <1>1, WFMin, Zenon
<1>3. ASSUME NEW y \in T PROVE m <= y
  <2>1. <<y, m>> \in Nat \X Nat /\ <<y, m>>[1] = y /\ <<y, m>>[2] = m
    OBVIOUS
  <2>2. ~(y < m)
    BY <1>2, <2>1 DEF OpToRel
  <2>3. y \in Nat /\ m \in Nat
    OBVIOUS
  <2>4. QED
    BY <2>2, <2>3
<1>4. QED
  BY <1>3

\* The last option for a variable is one of those that were given.
LEMMA LastGiven ==
  ASSUME NEW line, DOMAIN line = 1..Len(line), Len(line) \in Nat, NEW v, Given(line, v) # {}
  PROVE  \E k \in Given(line, v) : \A j \in Given(line, v) : j <= k
<1> DEFINE T == {Len(line) - j : j \in Given(line, v)}
<1>1. ASSUME NEW j \in Given(line, v) PROVE j \in 1..Len(line)
  BY <1>1 DEF Given
<1>2. T \subseteq Nat
  BY <1>1
<1>3. T # {}
  OBVIOUS
<1>4. PICK m \in T : \A y \in T : m <= y
  BY <1>2, <1>3, Least
<1>5. PICK k \in Given(line, v) : m = Len(line) - k
  OBVIOUS
<1>6. ASSUME NEW j \in Given(line, v) PROVE j <= k
  <2>1. m <= Len(line) - j
    BY <1>4
  <2>2. j \in Int /\ k \in Int
    BY <1>1
  <2>3. QED
    BY <1>5, <2>1, <2>2
<1>7. QED
  BY <1>6

\* A step of ipc_cmd: a message to send, a jump as it was computed, a move in a direction
\* there is; the two kinds of jump, with whole numbers; the position; a file that holds
\* no jump, and no other direction.
Jumped(v) ==
  /\ v[2] \in Positions
  /\ \E x, y \in Int :
       \/ v[1] = JumpTo(<<x, y>>, v[2]) /\ v[3][1] = x /\ v[3][2] = y
       \/ /\ v[1] = JumpBy(<<x, y>>)
          /\ v[3][1] = Degrees(v[2])[1] + x /\ v[3][2] = Degrees(v[2])[2] + y

Moves(x) == x[1] \in {"send", "file"} /\ x[2][1] = "move"

Sound(x) ==
  /\ x[1] = "send" /\ x[2][1] = "jump" => Jumped(x[2][2])
  /\ x[1] \in {"jump-abs", "jump-rel"} => x[2][1] \in Int /\ x[2][2] \in Int
  /\ x[1] = "file" => x[2][1] # "jump"
  /\ Moves(x) => x[2][2] \in DOMAIN Opposite

\* What a line has still to do, and what one has that moves nothing.
Whole(s) ==
  /\ \E S : s \in Seq(S)
  /\ \A k \in 1..Len(s) : Sound(s[k])

Quiet(s) ==
  /\ \E S : s \in Seq(S)
  /\ \A k \in 1..Len(s) : Sound(s[k]) /\ ~Moves(s[k])

LEMMA Joined ==
  ASSUME NEW S, NEW T, NEW s \in Seq(S), NEW t \in Seq(T)
  PROVE  /\ s \o t \in Seq(S \cup T) /\ Len(s \o t) = Len(s) + Len(t)
         /\ \A k \in 1..Len(s \o t) :
              \/ k \in 1..Len(s) /\ (s \o t)[k] = s[k]
              \/ k - Len(s) \in 1..Len(t) /\ (s \o t)[k] = t[k - Len(s)]
<1>1. s \in Seq(S \cup T) /\ t \in Seq(S \cup T)
  OBVIOUS
<1>2. QED
  BY <1>1

LEMMA QuietBoth ==
  ASSUME NEW s, NEW t, Quiet(s), Quiet(t)
  PROVE  Quiet(s \o t)
<1>1. PICK S, T : s \in Seq(S) /\ t \in Seq(T)
  BY DEF Quiet
<1>2. PICK u : u = s \o t
  OBVIOUS
<1>3. /\ u \in Seq(S \cup T) /\ Len(u) = Len(s) + Len(t)
      /\ \A k \in 1..Len(u) :
              \/ k \in 1..Len(s) /\ u[k] = s[k]
              \/ k - Len(s) \in 1..Len(t) /\ u[k] = t[k - Len(s)]
  BY <1>1, <1>2, Joined
<1>4. ASSUME NEW k \in 1..Len(u) PROVE Sound(u[k]) /\ ~Moves(u[k])
  BY <1>3 DEF Quiet
<1>5. QED
  BY <1>2, <1>3, <1>4 DEF Quiet

LEMMA WholeBoth ==
  ASSUME NEW s, NEW t, Whole(s), Whole(t)
  PROVE  Whole(s \o t)
<1>1. PICK S, T : s \in Seq(S) /\ t \in Seq(T)
  BY DEF Whole
<1>2. PICK u : u = s \o t
  OBVIOUS
<1>3. /\ u \in Seq(S \cup T) /\ Len(u) = Len(s) + Len(t)
      /\ \A k \in 1..Len(u) :
              \/ k \in 1..Len(s) /\ u[k] = s[k]
              \/ k - Len(s) \in 1..Len(t) /\ u[k] = t[k - Len(s)]
  BY <1>1, <1>2, Joined
<1>4. ASSUME NEW k \in 1..Len(u) PROVE Sound(u[k])
  BY <1>3 DEF Whole
<1>5. QED
  BY <1>2, <1>3, <1>4 DEF Whole

LEMMA QuietIsWhole ==
  ASSUME NEW s, Quiet(s)
  PROVE  Whole(s)
  BY DEF Quiet, Whole

LEMMA WholeOne ==
  ASSUME NEW x, Sound(x)
  PROVE  Whole(<<x>>)
<1>1. <<x>> \in Seq({x}) /\ Len(<<x>>) = 1 /\ <<x>>[1] = x
  OBVIOUS
<1>2. \A k \in 1..1 : k = 1
  OBVIOUS
<1>3. \A k \in 1..Len(<<x>>) : <<x>>[k] = x
  BY <1>1, <1>2
<1>4. QED
  BY <1>1, <1>3, Zenon DEF Whole

LEMMA QuietNone ==
  Quiet(<<>>)
<1>1. <<>> \in Seq({}) /\ Len(<<>>) = 0
  OBVIOUS
<1>2. QED
  BY <1>1 DEF Quiet

LEMMA QuietOne ==
  ASSUME NEW x, Sound(x), ~Moves(x)
  PROVE  Quiet(<<x>>)
<1>1. <<x>> \in Seq({x}) /\ Len(<<x>>) = 1 /\ <<x>>[1] = x
  OBVIOUS
<1>2. \A k \in 1..1 : k = 1
  OBVIOUS
<1>3. \A k \in 1..Len(<<x>>) : <<x>>[k] = x
  BY <1>1, <1>2
<1>4. QED
  BY <1>1, <1>3, Zenon DEF Quiet

LEMMA QuietSend ==
  ASSUME NEW name, NEW value, name \notin {"move", "jump"}
  PROVE  Quiet(Send(name, value))
<1>1. Sound(<<"send", <<name, value>> >>) /\ ~Moves(<<"send", <<name, value>> >>)
  BY DEF Sound, Moves
<1>2. QED
  BY <1>1, QuietOne DEF Send

LEMMA QuietIf ==
  ASSUME NEW line, NEW v, NEW steps, Quiet(steps) \/ Given(line, v) = {}
  PROVE  Quiet(If(line, v, steps))
  BY QuietNone DEF If

\* The settings say nothing that moves the camera.
LEMMA SettingsQuiet ==
  ASSUME NEW line
  PROVE  Quiet(SettingSends(line))
<1> DEFINE set(v) == If(line, v, Send(v, Stored(line, v)))
<1>1. /\ Quiet(set("switch")) /\ Quiet(set("sensitivity")) /\ Quiet(set("led"))
      /\ Quiet(set("save")) /\ Quiet(set("ir")) /\ Quiet(set("rotate"))
      /\ Quiet(set("setalertallowstate_human"))
      /\ Quiet(set("aihumandetection")) /\ Quiet(set("aivehicledetection"))
      /\ Quiet(set("aianimaldetection")) /\ Quiet(set("aimotiondetection"))
      /\ Quiet(set("facedetection")) /\ Quiet(set("motiontracking")) /\ Quiet(set("mic"))
      /\ Quiet(set("sounddetection")) /\ Quiet(set("babycrying"))
      /\ Quiet(set("soundsensitivity"))
  BY QuietSend, QuietIf
<1> HIDE DEF set
<1>2. Quiet(set("switch") \o set("sensitivity") \o set("led") \o set("save") \o set("ir"))
  BY <1>1, QuietBoth
<1>3. Quiet(set("switch") \o set("sensitivity") \o set("led") \o set("save") \o set("ir")
            \o set("rotate") \o set("setalertallowstate_human")
            \o set("aihumandetection") \o set("aivehicledetection")
            \o set("aianimaldetection"))
  BY <1>1, <1>2, QuietBoth
<1>4. Quiet(set("switch") \o set("sensitivity") \o set("led") \o set("save") \o set("ir")
            \o set("rotate") \o set("setalertallowstate_human")
            \o set("aihumandetection") \o set("aivehicledetection")
            \o set("aianimaldetection") \o set("aimotiondetection") \o set("facedetection")
            \o set("motiontracking") \o set("mic") \o set("sounddetection"))
  BY <1>1, <1>3, QuietBoth
<1>5. Quiet(set("switch") \o set("sensitivity") \o set("led") \o set("save") \o set("ir")
            \o set("rotate") \o set("setalertallowstate_human")
            \o set("aihumandetection") \o set("aivehicledetection")
            \o set("aianimaldetection") \o set("aimotiondetection") \o set("facedetection")
            \o set("motiontracking") \o set("mic") \o set("sounddetection")
            \o set("babycrying") \o set("soundsensitivity"))
  BY <1>1, <1>4, QuietBoth
<1>6. QED
  BY <1>5 DEF SettingSends, set

LEMMA CruiseQuiet ==
  ASSUME NEW m
  PROVE  Quiet(CruiseSends(m))
<1>1. /\ Quiet(IF m = "off" THEN Send("cruise", "off") ELSE Send("cruise", "on"))
      /\ Quiet(IF m \in {"presets", "360"} THEN Send("cruise", m) ELSE <<>>)
  BY QuietSend, QuietNone
<1>2. QED
  BY <1>1, QuietBoth DEF CruiseSends

LEMMA Listed ==
  ASSUME NEW n \in Nat, NEW S, NEW f \in [1..n -> S]
  PROVE  f \in Seq(S) /\ Len(f) = n
  OBVIOUS

LEMMA RemoveQuiet ==
  ASSUME NEW n
  PROVE  Quiet(RemoveSends(n))
<1>1. CASE n = All
  <2> DEFINE x(k) == <<"send", <<"remove", k - 1>> >>
             s == [k \in 1..NumPresets |-> x(k)]
  <2>1. RemoveSends(n) = s
    BY <1>1 DEF RemoveSends, Send
  <2>2. s \in Seq({x(k) : k \in 1..NumPresets}) /\ Len(s) = NumPresets
    <3>1. s \in [1..NumPresets -> {x(k) : k \in 1..NumPresets}]
      OBVIOUS
    <3>2. QED
      BY <3>1, IpcCmdAssumption, Listed
  <2>3. ASSUME NEW k \in 1..NumPresets PROVE Sound(s[k]) /\ ~Moves(s[k])
    BY DEF Sound, Moves
  <2>4. QED
    BY <2>1, <2>2, <2>3 DEF Quiet
<1>2. CASE n # All
  BY <1>2, QuietSend DEF RemoveSends
<1>3. QED
  BY <1>1, <1>2

\* A command line, and one that moves nothing and sends no file.
Known(l) ==
  /\ DOMAIN l = 1..Len(l) /\ Len(l) \in Nat
  /\ Given(l, "file") # {} =>
       /\ Stored(l, "file")[1] # "jump"
       /\ Stored(l, "file")[1] = "move" => Stored(l, "file")[2] \in DOMAIN Opposite

Tame(l) == Known(l) /\ Given(l, "move") = {} /\ Given(l, "file") = {}

\* The options whose arguments are words.
LEMMA OptionsWithWords ==
  /\ "move" \in DOMAIN Words /\ Words["move"] = Same(DOMAIN Opposite)
  /\ "move-reverse" \in DOMAIN Words /\ Words["move-reverse"] = Opposite
  /\ \A o \in DOMAIN Words :
       o \notin {"jump-abs", "jump-rel", "file", "preset", "remove_preset", "get-pos",
                "add_preset", "set_home_position", "help", "xxx"}
<1>1. /\ DOMAIN CameraOptions = {"switch", "led", "ir", "rotate", "sensitivity", "save",
                                "setalertallowstate_human"}
      /\ DOMAIN DetectionOptions =
           {"aihumandetection", "aivehicledetection", "aianimaldetection",
            "aimotiondetection", "facedetection", "motiontracking", "mic",
            "sounddetection", "babycrying", "soundsensitivity"}
      /\ DOMAIN MoveOptions = {"move", "move-reverse"}
      /\ DOMAIN CruiseOptions = {"cruise"}
  BY DEF CameraOptions, DetectionOptions, MoveOptions, CruiseOptions
<1>2. DOMAIN Words = DOMAIN CameraOptions \cup DOMAIN DetectionOptions
                       \cup DOMAIN MoveOptions \cup DOMAIN CruiseOptions
  BY DEF Words
<1>3. /\ Words["move"] = MoveOptions["move"]
      /\ Words["move-reverse"] = MoveOptions["move-reverse"]
  BY <1>1, <1>2 DEF Words
<1>4. /\ MoveOptions["move"] = Same(DOMAIN Opposite)
      /\ MoveOptions["move-reverse"] = Opposite
  BY DEF MoveOptions
<1>5. QED
  BY <1>1, <1>2, <1>3, <1>4

LEMMA AcceptedAngles ==
  ASSUME NEW o \in {"jump-abs", "jump-rel"}, NEW a, Accepted(o, a)
  PROVE  a[1] \in Int /\ a[2] \in Int
<1>1. o \notin DOMAIN Words
  BY OptionsWithWords
<1>2. /\ Pan \subseteq Int /\ Tilt \subseteq Int
      /\ PanBy \subseteq Int /\ TiltBy \subseteq Int
  BY DEF Pan, Tilt, PanBy, TiltBy
<1>3. CASE o = "jump-abs"
  <2>1. a[1] \in Pan /\ a[2] \in Tilt
    BY <1>1, <1>3 DEF Accepted
  <2>2. QED
    BY <1>2, <2>1, Zenon
<1>4. CASE o = "jump-rel"
  <2>1. a[1] \in PanBy /\ a[2] \in TiltBy
    BY <1>1, <1>4 DEF Accepted
  <2>2. QED
    BY <1>2, <2>1, Zenon
<1>5. QED
  BY <1>3, <1>4

\* The angles of a jump that was accepted are whole numbers.
LEMMA WholeAngles ==
  ASSUME NEW line, DOMAIN line = 1..Len(line), Len(line) \in Nat,
         NEW v \in {"jump-abs", "jump-rel"}, Given(line, v) # {}
  PROVE  Stored(line, v)[1] \in Int /\ Stored(line, v)[2] \in Int
<1> DEFINE k == CHOOSE k \in Given(line, v) : \A j \in Given(line, v) : j <= k
<1>1. k \in Given(line, v)
  BY LastGiven
<1> HIDE DEF k
<1>2. PICK o, a : o = line[k][1] /\ a = line[k][2]
  OBVIOUS
<1>3. Variable(o) = v /\ Accepted(o, a)
  BY <1>1, <1>2 DEF Given
<1>4. o = v
  BY <1>3 DEF Variable
<1>5. v \notin DOMAIN Words
  BY OptionsWithWords
<1>6. Stored(line, v) = a
  BY <1>2, <1>4, <1>5 DEF Stored, k
<1>7. QED
  BY <1>3, <1>4, <1>6, AcceptedAngles

LEMMA MoveStored ==
  ASSUME NEW line, DOMAIN line = 1..Len(line), Len(line) \in Nat, Given(line, "move") # {}
  PROVE  Stored(line, "move") \in DOMAIN Opposite
<1> DEFINE k == CHOOSE k \in Given(line, "move") : \A j \in Given(line, "move") : j <= k
<1>1. k \in Given(line, "move")
  BY LastGiven
<1>2. Stored(line, "move") = IF line[k][1] \in DOMAIN Words
                               THEN Words[line[k][1]][line[k][2]] ELSE line[k][2]
  BY DEF Stored
<1> HIDE DEF k
<1>3. PICK o, a : o = line[k][1] /\ a = line[k][2]
  OBVIOUS
<1>4. Variable(o) = "move" /\ Accepted(o, a)
  BY <1>1, <1>3 DEF Given
<1>5. o \in {"move", "move-reverse"}
  BY <1>4 DEF Variable
<1>6. o \in DOMAIN Words
  BY <1>5, OptionsWithWords
<1>7. a \in DOMAIN Words[o] /\ Stored(line, "move") = Words[o][a]
  BY <1>2, <1>3, <1>4, <1>5, <1>6 DEF Accepted
<1>8. CASE o = "move"
  <2>1. Words[o] = Same(DOMAIN Opposite)
    BY <1>8, OptionsWithWords
  <2>2. PICK D : D = DOMAIN Opposite
    OBVIOUS
  <2>3. a \in DOMAIN Same(D) /\ Stored(line, "move") = Same(D)[a]
    BY <1>7, <2>1, <2>2
  <2>4. QED
    BY <2>2, <2>3 DEF Same
<1>9. CASE o = "move-reverse"
  <2>1. \A d \in DOMAIN Opposite : Opposite[d] \in DOMAIN Opposite
    BY DEF Opposite
  <2>2. QED
    BY <1>7, <1>9, <2>1, OptionsWithWords
<1>10. QED
  BY <1>5, <1>8, <1>9

\* It is one message, the model's own direction; "stop" is the same on every model.
LEMMA MoveSent ==
  ASSUME NEW d \in DOMAIN Opposite
  PROVE  \E e \in DOMAIN Opposite :
           MoveSends(d) = << <<"send", <<"move", e>> >> >> /\ (d = "stop" => e = "stop")
<1>1. /\ DOMAIN Opposite = {"left", "right", "up", "down", "stop"}
      /\ Opposite[d] \in DOMAIN Opposite /\ Opposite["stop"] = "stop"
  BY DEF Opposite
<1>2. QED
  BY <1>1 DEF MoveSends, Send
LEMMA ProgramSteps ==
  ASSUME NEW line, Known(line)
  PROVE  Whole(Launched(line)) /\ (Tame(line) => Quiet(Launched(line)))
<1> DEFINE of(v) == Stored(line, v)
           a1 == SettingSends(line)
           a2 == If(line, "move", MoveSends(of("move")))
           a3 == If(line, "jump-abs", << <<"jump-abs", of("jump-abs")>> >>)
           a4 == If(line, "jump-rel", << <<"jump-rel", of("jump-rel")>> >>)
           a5 == If(line, "preset", GotoSends(Read(of("preset"))))
           a6 == If(line, "add_preset", Send("add", ""))
           a7 == If(line, "get-pos", << <<"get-pos", "">> >>)
           a8 == If(line, "set_home_position", HomeSends)
           a9 == If(line, "remove_preset", RemoveSends(Read(of("remove_preset"))))
           b1 == If(line, "cruise", CruiseSends(of("cruise")))
           b2 == If(line, "file", << <<"file", of("file")>> >>)
           b3 == If(line, "xxx", Send("xxx", ""))
<1>1. Quiet(a1)
  BY SettingsQuiet
<1>2. Whole(a2) /\ (Tame(line) => Quiet(a2))
  <2>1. CASE Given(line, "move") = {}
    BY <2>1, QuietIf, QuietIsWhole
  <2>2. CASE Given(line, "move") # {}
    <3>1. of("move") \in DOMAIN Opposite
      BY <2>2, MoveStored DEF Known
    <3> HIDE DEF of
    <3>2. PICK e \in DOMAIN Opposite : MoveSends(of("move")) = << <<"send", <<"move", e>> >> >>
      BY <3>1, MoveSent
    <3>3. Sound(<<"send", <<"move", e>> >>)
      BY DEF Sound, Moves
    <3>4. a2 = << <<"send", <<"move", e>> >> >>
      BY <2>2, <3>2 DEF If
    <3>5. QED
      BY <2>2, <3>3, <3>4, WholeOne DEF Tame
  <2>3. QED
    BY <2>1, <2>2
<1>3. ASSUME NEW v \in {"jump-abs", "jump-rel"}
      PROVE  Quiet(If(line, v, << <<v, of(v)>> >>))
  <2>1. CASE Given(line, v) = {}
    BY <2>1, QuietIf
  <2>2. CASE Given(line, v) # {}
    <3>1. of(v)[1] \in Int /\ of(v)[2] \in Int
      BY <2>2, WholeAngles DEF Known
    <3> HIDE DEF of
    <3>2. Sound(<<v, of(v)>>) /\ ~Moves(<<v, of(v)>>)
      BY <3>1 DEF Sound, Moves
    <3>3. Quiet(<< <<v, of(v)>> >>)
      BY <3>2, QuietOne
    <3>4. QED
      BY <3>3, QuietIf
  <2>3. QED
    BY <2>1, <2>2
<1>4. Quiet(a3) /\ Quiet(a4)
  BY <1>3
<1>5. Quiet(a5)
  <2>1. Quiet(GotoSends(Read(of("preset"))))
    BY QuietSend, QuietNone DEF GotoSends
  <2>2. QED
    BY <2>1, QuietIf
<1>6. Quiet(a6) /\ Quiet(b3)
  BY QuietSend, QuietIf
<1>7. Quiet(a7)
  <2>1. Sound(<<"get-pos", "">>) /\ ~Moves(<<"get-pos", "">>)
    BY DEF Sound, Moves
  <2>2. QED
    BY <2>1, QuietOne, QuietIf
<1>8. Quiet(a8)
  <2>1. Quiet(HomeSends)
    BY QuietSend, QuietBoth DEF HomeSends
  <2>2. QED
    BY <2>1, QuietIf
<1>9. Quiet(a9)
  BY RemoveQuiet, QuietIf
<1>10. Quiet(b1)
  BY CruiseQuiet, QuietIf
<1>11. Whole(b2) /\ (Tame(line) => Quiet(b2))
  <2>1. CASE Given(line, "file") = {}
    BY <2>1, QuietIf, QuietIsWhole
  <2>2. CASE Given(line, "file") # {}
    <3>1. /\ of("file")[1] # "jump"
          /\ of("file")[1] = "move" => of("file")[2] \in DOMAIN Opposite
      BY <2>2 DEF Known
    <3> HIDE DEF of
    <3>2. Sound(<<"file", of("file")>>)
      BY <3>1 DEF Sound, Moves
    <3>3. b2 = << <<"file", of("file")>> >>
      BY <2>2 DEF If
    <3>4. QED
      BY <2>2, <3>2, <3>3, WholeOne DEF Tame
  <2>3. QED
    BY <2>1, <2>2
<1>12. Program(line) =
         a1 \o a2 \o a3 \o a4 \o a5 \o a6 \o a7 \o a8 \o a9 \o b1 \o b2 \o b3
  BY DEF Program
<1> HIDE DEF a1, a2, a3, a4, a5, a6, a7, a8, a9, b1, b2, b3
<1>13. Whole(a1 \o a2 \o a3 \o a4 \o a5 \o a6)
  BY <1>1, <1>2, <1>4, <1>5, <1>6, QuietIsWhole, WholeBoth
<1>14. Whole(a1 \o a2 \o a3 \o a4 \o a5 \o a6 \o a7 \o a8 \o a9 \o b1 \o b2 \o b3)
  BY <1>6, <1>7, <1>8, <1>9, <1>10, <1>11, <1>13, QuietIsWhole, WholeBoth
<1>15. ASSUME Tame(line)
       PROVE  Quiet(a1 \o a2 \o a3 \o a4 \o a5 \o a6 \o a7 \o a8 \o a9 \o b1 \o b2 \o b3)
  <2>1. Quiet(a1 \o a2 \o a3 \o a4 \o a5 \o a6)
    BY <1>1, <1>2, <1>4, <1>5, <1>6, <1>15, QuietBoth
  <2>2. QED
    BY <1>6, <1>7, <1>8, <1>9, <1>10, <1>11, <1>15, <2>1, QuietBoth
<1>16. QED
  BY <1>12, <1>14, <1>15, QuietNone, QuietIsWhole DEF Launched

\* A line with one option.
LEMMA OneOption ==
  ASSUME NEW o, NEW a
  PROVE  /\ DOMAIN << <<o, a>> >> = 1..1 /\ Len(<< <<o, a>> >>) = 1
         /\ << <<o, a>> >>[1] = <<o, a>>
         /\ \A v : Given(<< <<o, a>> >>, v) = IF Variable(o) = v /\ Accepted(o, a) THEN {1} ELSE {}
<1> DEFINE line == << <<o, a>> >>
<1>1. DOMAIN line = 1..1 /\ Len(line) = 1 /\ line[1] = <<o, a>>
  OBVIOUS
<1>2. \A k : k \in 1..1 <=> k = 1
  OBVIOUS
<1> HIDE DEF line
<1>3. \A k \in DOMAIN line : line[k][1] = o /\ line[k][2] = a
  BY <1>1, <1>2
<1>4. ASSUME NEW v
      PROVE  Given(line, v) = IF Variable(o) = v /\ Accepted(o, a) THEN {1} ELSE {}
  BY <1>1, <1>2, <1>3 DEF Given
<1>5. QED
  BY <1>1, <1>4 DEF line

LEMMA ScriptLineTame ==
  ASSUME NEW o \in {"get-pos", "add_preset", "remove_preset", "set_home_position", "preset",
                    "missing argument"},
         NEW a
  PROVE  Tame(<< <<o, a>> >>)
<1>1. Variable(o) # "move" /\ Variable(o) # "file"
  BY DEF Variable
<1>2. QED
  BY <1>1, OneOption DEF Tame, Known

\* What "ipc_cmd -m" sends.
LEMMA MoveLine ==
  ASSUME NEW d
  PROVE  Launched(<< <<"move", d>> >>) = IF d \in DOMAIN Opposite THEN MoveSends(d) ELSE <<>>
<1> DEFINE line == << <<"move", d>> >>
<1>1. /\ DOMAIN line = 1..1 /\ Len(line) = 1 /\ line[1] = <<"move", d>>
      /\ \A v : Given(line, v) = IF Variable("move") = v /\ Accepted("move", d) THEN {1} ELSE {}
  BY OneOption
<1> HIDE DEF line
<1>2. /\ "move" \in DOMAIN Words /\ Words["move"] = Same(DOMAIN Opposite)
      /\ DOMAIN Same(DOMAIN Opposite) = DOMAIN Opposite
  BY OptionsWithWords DEF Same
<1>3. Accepted("move", d) <=> d \in DOMAIN Opposite
  BY <1>2 DEF Accepted
<1>4. Variable("move") = "move"
  BY DEF Variable
<1>5. Refused(line) <=> d \notin DOMAIN Opposite
  <2>1. \A k : k \in 1..1 <=> k = 1
    OBVIOUS
  <2>2. line # <<>>
    BY <1>1
  <2>3. QED
    BY <1>1, <1>3, <2>1, <2>2 DEF Refused
<1>6. CASE d \notin DOMAIN Opposite
  BY <1>5, <1>6 DEF Launched, line
<1>7. CASE d \in DOMAIN Opposite
  <2>1. Given(line, "move") = {1} /\ \A v : v # "move" => Given(line, v) = {}
    BY <1>1, <1>3, <1>4, <1>7
  <2>2. Stored(line, "move") = d
    <3> DEFINE k == CHOOSE k \in Given(line, "move") : \A j \in Given(line, "move") : j <= k
    <3>1. 1 \in Given(line, "move") /\ \A j \in Given(line, "move") : j <= 1
      BY <2>1
    <3>2. k \in Given(line, "move")
      BY <3>1
    <3>3. k = 1
      BY <2>1, <3>2
    <3>4. Stored(line, "move") = IF line[k][1] \in DOMAIN Words
                                   THEN Words[line[k][1]][line[k][2]] ELSE line[k][2]
      BY DEF Stored
    <3> HIDE DEF k
    <3>5. line[k][1] = "move" /\ line[k][2] = d
      BY <1>1, <3>3
    <3>6. QED
      BY <1>2, <1>7, <3>4, <3>5 DEF Same
  <2>3. \A v, steps : v # "move" => If(line, v, steps) = <<>>
    BY <2>1 DEF If
  <2>4. If(line, "move", MoveSends(d)) = MoveSends(d)
    BY <2>1 DEF If
  <2>5. SettingSends(line) = <<>>
    BY <2>3 DEF SettingSends
  <2>6. Program(line) = <<>> \o MoveSends(d) \o <<>> \o <<>> \o <<>> \o <<>> \o <<>> \o <<>>
                          \o <<>> \o <<>> \o <<>> \o <<>>
    BY <2>2, <2>3, <2>4, <2>5 DEF Program
  <2>7. \E S : MoveSends(d) \in Seq(S)
    <3>1. PICK x : MoveSends(d) = <<x>>
      BY DEF MoveSends, Send
    <3>2. <<x>> \in Seq({x})
      OBVIOUS
    <3>3. QED
      BY <3>1, <3>2
  <2> DEFINE m == MoveSends(d)
  <2> HIDE DEF m
  <2>8. m \o <<>> = m /\ <<>> \o m = m
    BY <2>7 DEF m
  <2>9. Program(line) = m
    BY <2>6, <2>8 DEF m
  <2>10. QED
    BY <1>5, <1>7, <2>9 DEF Launched, m, line
<1>8. QED
  BY <1>6, <1>7

--------------------------------------------------------------------------------
(* What moves the camera. *)

OneMove(d) == << <<"send", <<"move", d>> >> >>
Last(r) == work[r] = << Call("move", "stop") >>

\* What is left of a script that does not move the camera.
Scripted(w) ==
  /\ \E S : w \in Seq(S)
  /\ \A k \in 1..Len(w) : w[k][1] = "call" => Tame(w[k][2])

\* Where a run is: an ipc_cmd by itself; or at a script that moves nothing (or behind the
\* stop of ptz.sh), before the move of ptz.sh, or before its stop.
Shape(r) ==
  \/ byItself[r] /\ work[r] = <<>> /\ Whole(todo[r])
  \/ Scripted(work[r]) /\ (Quiet(todo[r]) \/ todo[r] = OneMove("stop"))
  \/ (\E d : work[r] = MoveScript(d)) /\ todo[r] = <<>>
  \/ Last(r) /\ (todo[r] = <<>> \/ \E e \in DOMAIN Opposite : todo[r] = OneMove(e))

ShapeInv ==
  /\ DOMAIN byItself = Procs
  /\ \A r \in Procs :
       /\ Shape(r)
       /\ phase[r] # "no" => Head(work[r])[1] \in {"add", "del"}

\* The messages under way, and the camera.
QueueInv ==
  /\ \E S : queue \in Seq(S)
  /\ \A k \in 1..Len(queue) :
       /\ queue[k][1] = "jump" => Jumped(queue[k][2])
       /\ queue[k][1] = "move" => queue[k][2] \in DOMAIN Opposite
  /\ Len(queue) <= QueueDepth
  /\ camera.pos \in Positions
  /\ camera.moving \in DOMAIN Opposite
  /\ camera = [pos |-> camera.pos, moving |-> camera.moving, presets |-> camera.presets]
  /\ DOMAIN camera.presets = Slots
  /\ \A s \in Slots : camera.presets[s] \in Positions \cup {NoPreset}

\* A stop is still to come: behind the k-th message of the queue, or from a run.
Will(r) == Last(r) \/ todo[r] = OneMove("stop")
IsStop(m) == m[1] = "move" /\ m[2] = "stop"
StopsBehind(k) ==
  (\E j \in k + 1..Len(queue) : IsStop(queue[j])) \/ \E r \in Procs : Will(r)

Stopped ==
  /\ \A k \in 1..Len(queue) :
       queue[k][1] = "move" /\ queue[k][2] # "stop" => StopsBehind(k)
  /\ camera.moving # "stop" => StopsBehind(0)

\* ... unless the last move was nobody's to stop.
StopInv == ~loose => Stopped

LEMMA WholeTail ==
  ASSUME NEW s, Whole(s), s # <<>>
  PROVE  Whole(Tail(s)) /\ Sound(Head(s))
<1>1. PICK S : s \in Seq(S)
  BY DEF Whole
<1>2. PICK t : t = Tail(s)
  OBVIOUS
<1>3. /\ t \in Seq(S) /\ Len(t) = Len(s) - 1 /\ Len(s) \in Nat \ {0}
      /\ \A k \in 1..Len(t) : t[k] = s[k + 1]
      /\ Head(s) = s[1]
  BY <1>1, <1>2
<1>4. ASSUME NEW k \in 1..Len(t) PROVE Sound(t[k])
  <2>1. k + 1 \in 1..Len(s)
    BY <1>3
  <2>2. QED
    BY <1>3, <2>1 DEF Whole
<1>5. Whole(t)
  BY <1>3, <1>4 DEF Whole
<1>6. 1 \in 1..Len(s)
  BY <1>3
<1>7. QED
  BY <1>2, <1>3, <1>5, <1>6 DEF Whole

LEMMA QuietTail ==
  ASSUME NEW s, Quiet(s), s # <<>>
  PROVE  Quiet(Tail(s)) /\ Sound(Head(s)) /\ ~Moves(Head(s))
<1>1. PICK S : s \in Seq(S)
  BY DEF Quiet
<1>2. PICK t : t = Tail(s)
  OBVIOUS
<1>3. /\ t \in Seq(S) /\ Len(t) = Len(s) - 1 /\ Len(s) \in Nat \ {0}
      /\ \A k \in 1..Len(t) : t[k] = s[k + 1]
      /\ Head(s) = s[1]
  BY <1>1, <1>2
<1>4. ASSUME NEW k \in 1..Len(t) PROVE Sound(t[k]) /\ ~Moves(t[k])
  <2>1. k + 1 \in 1..Len(s)
    BY <1>3
  <2>2. QED
    BY <1>3, <2>1 DEF Quiet
<1>5. Quiet(t)
  BY <1>3, <1>4 DEF Quiet
<1>6. 1 \in 1..Len(s)
  BY <1>3
<1>7. QED
  BY <1>2, <1>3, <1>5, <1>6 DEF Quiet

LEMMA ScriptedTail ==
  ASSUME NEW w, Scripted(w), w # <<>>
  PROVE  Scripted(Tail(w)) /\ (Head(w)[1] = "call" => Tame(Head(w)[2]))
<1>1. PICK S : w \in Seq(S)
  BY DEF Scripted
<1>2. PICK t : t = Tail(w)
  OBVIOUS
<1>3. /\ t \in Seq(S) /\ Len(t) = Len(w) - 1 /\ Len(w) \in Nat \ {0}
      /\ \A k \in 1..Len(t) : t[k] = w[k + 1]
      /\ Head(w) = w[1]
  BY <1>1, <1>2
<1>4. ASSUME NEW k \in 1..Len(t) PROVE t[k][1] = "call" => Tame(t[k][2])
  <2>1. k + 1 \in 1..Len(w)
    BY <1>3
  <2>2. QED
    BY <1>3, <2>1 DEF Scripted
<1>5. Scripted(t)
  BY <1>3, <1>4 DEF Scripted
<1>6. 1 \in 1..Len(w)
  BY <1>3
<1>7. QED
  BY <1>2, <1>3, <1>5, <1>6 DEF Scripted

LEMMA ScriptedNone ==
  Scripted(<<>>)
<1>1. <<>> \in Seq({}) /\ Len(<<>>) = 0
  OBVIOUS
<1>2. QED
  BY <1>1 DEF Scripted

\* The stop of ptz.sh is no such script.
LEMMA StopIsNotScripted ==
  ~Scripted(<< Call("move", "stop") >>)
<1> DEFINE w == << Call("move", "stop") >>
<1>1. Len(w) = 1 /\ w[1] = <<"call", << <<"move", "stop">> >> >>
  BY DEF Call
<1>2. Accepted("move", "stop") /\ Variable("move") = "move"
  <2>1. "stop" \in DOMAIN Opposite /\ DOMAIN Same(DOMAIN Opposite) = DOMAIN Opposite
    BY DEF Opposite, Same
  <2>2. QED
    BY <2>1, OptionsWithWords DEF Accepted, Variable
<1>3. Given(<< <<"move", "stop">> >>, "move") = {1}
  BY <1>2, OneOption
<1>4. ~Tame(<< <<"move", "stop">> >>)
  BY <1>3 DEF Tame
<1>5. 1 \in 1..1 /\ w[1][1] = "call" /\ w[1][2] = << <<"move", "stop">> >>
  BY <1>1
<1> HIDE DEF w
<1>6. ~Scripted(w)
  BY <1>1, <1>4, <1>5 DEF Scripted
<1>7. QED
  BY <1>6 DEF w

\* The scripts.
LEMMA ScriptShape ==
  ASSUME NEW q \in Requests
  PROVE  Scripted(Script(q)) \/ \E d : Script(q) = MoveScript(d)
<1>1. q[1] \in {"add", "nameless", "del", "home", "go", "move"}
  BY PresetsAssumption
<1> DEFINE Ok(x) == x[1] = "call" => Tame(x[2])
<1>2. /\ Ok(Call("get-pos", "")) /\ Ok(<<"add", q[2]>>) /\ Ok(Call("add_preset", q[2]))
      /\ Ok(<<"del", q[2]>>) /\ Ok(Call("remove_preset", q[2]))
      /\ Ok(<<"del", Plain(0)>>) /\ Ok(<<"add", "Home">>) /\ Ok(Call("set_home_position", ""))
      /\ Ok(Call("preset", q[2])) /\ Ok(Call("missing argument", ""))
  BY ScriptLineTame DEF Call
<1>3. ASSUME NEW a, NEW b, NEW c, Ok(a), Ok(b), Ok(c)
      PROVE  Scripted(<<a>>) /\ Scripted(<<a, b>>) /\ Scripted(<<a, b, c>>)
  <2> HIDE DEF Ok
  <2>1. /\ <<a>> \in Seq({a, b, c}) /\ Len(<<a>>) = 1
        /\ <<a, b>> \in Seq({a, b, c}) /\ Len(<<a, b>>) = 2
        /\ <<a, b, c>> \in Seq({a, b, c}) /\ Len(<<a, b, c>>) = 3
    OBVIOUS
  <2>2. \A k \in 1..1 : Ok(<<a>>[k])
    BY <1>3
  <2>3. \A k \in 1..2 : Ok(<<a, b>>[k])
    BY <1>3
  <2>4. \A k \in 1..3 : Ok(<<a, b, c>>[k])
    BY <1>3
  <2>5. QED
    BY <2>1, <2>2, <2>3, <2>4, Zenon DEF Scripted, Ok
<1> HIDE DEF Ok
<1>4. CASE q[1] = "add"
  <2>1. Script(q) = << Call("get-pos", ""), <<"add", q[2]>>, Call("add_preset", q[2]) >>
    BY <1>4 DEF Script
  <2>2. QED
    BY <2>1, <1>2, <1>3
<1>5. CASE q[1] = "del"
  <2>1. Script(q) = << <<"del", q[2]>>, Call("remove_preset", q[2]) >>
    BY <1>5 DEF Script
  <2>2. QED
    BY <2>1, <1>2, <1>3
<1>6. CASE q[1] = "home"
  <2>1. Script(q) = << <<"del", Plain(0)>>, <<"add", "Home">>, Call("set_home_position", "") >>
    BY <1>6 DEF Script
  <2>2. QED
    BY <2>1, <1>2, <1>3
<1>7. CASE q[1] = "go"
  <2>1. Script(q) = << Call("preset", q[2]) >> \/ Script(q) = <<>>
    BY <1>7 DEF Script
  <2>2. QED
    BY <2>1, <1>2, <1>3, ScriptedNone
<1>8. CASE q[1] = "move"
  BY <1>8 DEF Script
<1>9. CASE q[1] = "nameless"
  <2>1. Script(q) = << Call("get-pos", ""), <<"add", q[2]>>, Call("missing argument", "") >>
    BY <1>9 DEF Script
  <2>2. QED
    BY <2>1, <1>2, <1>3
<1>10. QED
  BY <1>1, <1>4, <1>5, <1>6, <1>7, <1>8, <1>9

\* The distances of a jump are whole numbers, and the camera stays within its range.
LEMMA JumpWhole ==
  ASSUME NEW v, Jumped(v)
  PROVE  v[1][1] \in Int /\ v[1][2] \in Int
<1>1. PICK x \in Int, y \in Int : v[1] = JumpTo(<<x, y>>, v[2]) \/ v[1] = JumpBy(<<x, y>>)
  BY DEF Jumped
<1>2. PICK p \in Int, q \in Int : v[2][1] = p /\ v[2][2] = q
  BY DEF Jumped, Positions
<1>3. \A d \in Int : Round(d * 100 + 50 * 911, 911) \in Int
  BY SentX
<1>4. \A d \in Int : Round(d * 100 + 50 * 694, 694) \in Int
  BY SentY
<1>5. CASE v[1] = JumpBy(<<x, y>>)
  <2>1. PICK z \in Int : z = IF UpsideDown THEN -y ELSE y
    OBVIOUS
  <2>2. PICK a, b : a = Round(x * MaxX, 3600) /\ b = Round(z * MaxY, 1800)
    OBVIOUS
  <2>3. a \in Int /\ b \in Int
    BY <2>2, StepsX, StepsY
  <2>4. v[1] = <<Round(a * 100 + 50 * 911, 911), Round(b * 100 + 50 * 694, 694)>>
    BY <1>5, <2>1, <2>2 DEF JumpBy
  <2>5. QED
    BY <1>3, <1>4, <2>3, <2>4
<1>6. CASE v[1] = JumpTo(<<x, y>>, v[2])
  <2>1. PICK z \in Int : z = IF UpsideDown THEN 1800 - y ELSE y
    OBVIOUS
  <2>2. PICK i, j : i = Round(x * MaxX, 3600) /\ j = Round(z * MaxY, 1800)
    OBVIOUS
  <2>3. i \in Int /\ j \in Int
    BY <2>2, StepsX, StepsY
  <2>4. PICK a \in Int, b \in Int : a = i - p /\ b = j - q
    BY <2>3
  <2>5. v[1] = <<Round(a * 100 + 50 * 911, 911), Round(b * 100 + 50 * 694, 694)>>
    BY <1>2, <1>6, <2>1, <2>2, <2>4 DEF JumpTo
  <2>6. QED
    BY <1>3, <1>4, <2>4, <2>5
<1>7. QED
  BY <1>1, <1>5, <1>6

LEMMA ClampInRange ==
  ASSUME NEW n \in Int
  PROVE  Clamp(n, MaxX) \in 0..MaxX /\ Clamp(n, MaxY) \in 0..MaxY
  BY SMT DEF Clamp, MaxX, MaxY

LEMMA MovedInRange ==
  ASSUME NEW pos \in Positions, NEW jump, jump[1] \in Int, jump[2] \in Int
  PROVE  Moved(pos, jump) \in Positions
<1>1. PICK p \in Int, q \in Int : pos[1] = p /\ pos[2] = q
  BY DEF Positions
<1>2. PICK i \in Int, j \in Int : jump[1] = i /\ jump[2] = j
  OBVIOUS
<1>3. PICK a, b : a = Round((i - 50) * 911, 100) /\ b = Round((j - 50) * 694, 100)
  OBVIOUS
<1>4. Clamp(p + a, MaxX) \in 0..MaxX /\ Clamp(q + b, MaxY) \in 0..MaxY
  <2>1. a \in Int /\ b \in Int
    BY <1>3, TakenX, TakenY
  <2>2. PICK u \in Int, w \in Int : u = p + a /\ w = q + b
    BY <2>1
  <2>3. QED
    BY <2>2, ClampInRange
<1>5. Moved(pos, jump) = <<Clamp(p + a, MaxX), Clamp(q + b, MaxY)>>
  BY <1>1, <1>2, <1>3 DEF Moved
<1>6. QED
  BY <1>4, <1>5 DEF Positions

\* The camera after a message.
LEMMA CameraAfter ==
  ASSUME QueueInv, NEW m,
         m[1] = "jump" => Jumped(m[2]), m[1] = "move" => m[2] \in DOMAIN Opposite,
         NEW c, c = After(camera, m)
  PROVE  /\ c.pos \in Positions /\ c.moving \in DOMAIN Opposite
         /\ c = [pos |-> c.pos, moving |-> c.moving, presets |-> c.presets]
         /\ DOMAIN c.presets = Slots
         /\ \A s \in Slots : c.presets[s] \in Positions \cup {NoPreset}
         /\ c.moving = IF m[1] = "move" THEN m[2] ELSE camera.moving
<1>1. PICK pos, moving, presetsAt :
        camera = [pos |-> pos, moving |-> moving, presets |-> presetsAt]
  BY DEF QueueInv
<1>2. /\ camera.pos = pos /\ camera.moving = moving /\ camera.presets = presetsAt
      /\ pos \in Positions /\ moving \in DOMAIN Opposite /\ DOMAIN presetsAt = Slots
      /\ \A s \in Slots : presetsAt[s] \in Positions \cup {NoPreset}
  BY <1>1 DEF QueueInv
<1>3. CASE m[1] = "jump"
  <2>1. Moved(pos, m[2][1]) \in Positions
    BY <1>2, <1>3, JumpWhole, MovedInRange
  <2>2. c = [pos |-> Moved(pos, m[2][1]), moving |-> moving, presets |-> presetsAt]
    BY <1>1, <1>2, <1>3 DEF After
  <2>3. QED
    BY <1>2, <1>3, <2>1, <2>2
<1>4. CASE m[1] = "move"
  <2>1. c = [pos |-> pos, moving |-> m[2], presets |-> presetsAt]
    BY <1>1, <1>4 DEF After
  <2>2. QED
    BY <1>2, <1>4, <2>1
<1>5. CASE m[1] = "goto"
  <2>1. CASE m[2] \in Slots /\ presetsAt[m[2]] # NoPreset
    <3>1. c = [pos |-> presetsAt[m[2]], moving |-> moving, presets |-> presetsAt]
      BY <1>1, <1>5, <2>1 DEF After
    <3>2. QED
      BY <1>2, <1>5, <2>1, <3>1
  <2>2. CASE ~(m[2] \in Slots /\ presetsAt[m[2]] # NoPreset)
    <3>1. c = [pos |-> pos, moving |-> moving, presets |-> presetsAt]
      BY <1>1, <1>5, <2>2 DEF After
    <3>2. QED
      BY <1>2, <1>5, <3>1
  <2>3. QED
    BY <2>1, <2>2
<1>6. CASE m[1] = "add"
  <2>1. CASE Free(presetsAt) = {}
    <3>1. c = [pos |-> pos, moving |-> moving, presets |-> presetsAt]
      BY <1>1, <1>6, <2>1 DEF After
    <3>2. QED
      BY <1>2, <1>6, <3>1
  <2>2. CASE Free(presetsAt) # {}
    <3>1. PICK f : f = First(Free(presetsAt))
      OBVIOUS
    <3>2. c = [pos |-> pos, moving |-> moving, presets |-> [presetsAt EXCEPT ![f] = pos]]
      BY <1>1, <1>6, <2>2, <3>1 DEF After
    <3>3. QED
      BY <1>2, <1>6, <3>2
  <2>3. QED
    BY <2>1, <2>2
<1>7. CASE m[1] = "remove"
  <2>1. c = [pos |-> pos, moving |-> moving, presets |-> [presetsAt EXCEPT ![m[2]] = NoPreset]]
    BY <1>1, <1>7 DEF After
  <2>2. QED
    BY <1>2, <1>7, <2>1
<1>8. CASE m[1] \notin {"jump", "move", "goto", "add", "remove"}
  <2>1. c = [pos |-> pos, moving |-> moving, presets |-> presetsAt]
    BY <1>1, <1>8 DEF After
  <2>2. QED
    BY <1>2, <1>8, <2>1
<1>9. QED
  BY <1>3, <1>4, <1>5, <1>6, <1>7, <1>8

LEMMA ShapeStep ==
  ASSUME ShapeInv, NEW r \in Procs, Shape(r)', DOMAIN byItself' = Procs,
         phase'[r] # "no" => Head(work'[r])[1] \in {"add", "del"},
         \A p \in Procs : p # r =>
           /\ todo'[p] = todo[p] /\ work'[p] = work[p] /\ phase'[p] = phase[p]
           /\ byItself'[p] = byItself[p]
  PROVE  ShapeInv'
<1>1. ASSUME NEW p \in Procs, p # r PROVE Shape(p)'
  BY <1>1 DEF ShapeInv, Shape, Last
<1>2. QED
  BY <1>1 DEF ShapeInv

LEMMA QueueKept ==
  ASSUME QueueInv, UNCHANGED <<queue, camera>>
  PROVE  QueueInv'
  BY DEF QueueInv

LEMMA StopsKept ==
  ASSUME StopInv, UNCHANGED <<queue, camera>>,
         ~loose' => ~loose /\ \A p \in Procs : Will(p) => Will(p)'
  PROVE  StopInv'
<1> SUFFICES ASSUME ~loose' PROVE Stopped'
  BY DEF StopInv
<1>1. \A k : StopsBehind(k) => StopsBehind(k)'
  BY DEF StopsBehind
<1>2. Stopped
  BY DEF StopInv
<1>3. QED
  BY <1>1, <1>2 DEF Stopped

MoveInv == ShapeInv /\ QueueInv /\ StopInv

\* The end of add_del_preset, which never is before the stop of ptz.sh.
LEMMA MoveReturn ==
  ASSUME TableInv, MoveInv, NEW r \in Procs, NEW rest, Return(r, rest), phase[r] # "no",
         rest = <<>> \/ rest = Tail(work[r]), UNCHANGED <<cmdVars, byItself, loose>>
  PROVE  MoveInv'
<1>1. /\ phase'[r] = "no" /\ work'[r] = rest
      /\ \A p \in Procs : p # r =>
           todo'[p] = todo[p] /\ work'[p] = work[p] /\ phase'[p] = phase[p]
  BY DEF Return, TableInv, cmdVars
<1>2. todo[r] = <<>> /\ work[r] # <<>> /\ Head(work[r])[1] \in {"add", "del"}
  BY DEF TableInv, MoveInv, ShapeInv
<1>3. Scripted(work[r])
  <2>1. ASSUME NEW d PROVE work[r] # MoveScript(d)
    BY <1>2 DEF MoveScript, Call
  <2>2. work[r] # <<>> /\ ~Last(r)
    BY <1>2 DEF Last, Call
  <2>3. QED
    BY <2>1, <2>2 DEF MoveInv, ShapeInv, Shape
<1>4. Scripted(rest)
  BY <1>2, <1>3, ScriptedTail, ScriptedNone
<1>5. Shape(r)'
  <2>1. todo'[r] = <<>>
    BY <1>2 DEF cmdVars
  <2>2. QED
    BY <1>1, <1>4, <2>1, QuietNone DEF Shape
<1>6. ShapeInv'
  BY <1>1, <1>5, ShapeStep DEF MoveInv, ShapeInv
<1>7. ~Will(r)
  BY <1>2, <1>3, StopIsNotScripted DEF Will, Last, OneMove
<1>8. \A p \in Procs : Will(p) => Will(p)'
  BY <1>1, <1>7 DEF Will, Last
<1>9. QED
  BY <1>6, <1>8, QueueKept, StopsKept DEF MoveInv, cmdVars

\* A message that is no move to stop for goes to the end of the queue.
LEMMA StopsAppended ==
  ASSUME StopInv, NEW S, queue \in Seq(S), NEW m, queue' = Append(queue, m),
         UNCHANGED camera,
         \A p \in Procs : Will(p) => Will(p)' \/ IsStop(m),
         loose => loose' \/ IsStop(m),
         m[1] = "move" /\ m[2] # "stop" => loose' \/ \E p \in Procs : Will(p)'
  PROVE  StopInv'
<1> SUFFICES ASSUME ~loose' PROVE Stopped'
  BY DEF StopInv
<1>1. PICK t : t = queue'
  OBVIOUS
<1>2. /\ Len(t) = Len(queue) + 1 /\ Len(queue) \in Nat
      /\ t[Len(queue) + 1] = m
      /\ \A j \in 1..Len(queue) : t[j] = queue[j]
  BY <1>1, Longer
<1>3. ASSUME NEW k \in 0..Len(queue), IsStop(m) \/ StopsBehind(k) PROVE StopsBehind(k)'
  <2>1. ASSUME NEW j \in k + 1..Len(queue), IsStop(queue[j]) PROVE StopsBehind(k)'
    <3>1. j \in k + 1..Len(t) /\ j \in 1..Len(queue)
      BY <1>2
    <3>2. IsStop(t[j])
      BY <1>2, <2>1, <3>1
    <3>3. QED
      BY <1>1, <3>1, <3>2 DEF StopsBehind
  <2>2. CASE IsStop(m)
    <3>1. Len(queue) + 1 \in k + 1..Len(t)
      BY <1>2
    <3>2. QED
      BY <1>1, <1>2, <2>2, <3>1 DEF StopsBehind
  <2>3. ASSUME NEW p \in Procs, Will(p), ~IsStop(m) PROVE StopsBehind(k)'
    BY <2>3 DEF StopsBehind
  <2>4. QED
    BY <1>3, <2>1, <2>2, <2>3 DEF StopsBehind
<1>3a. IsStop(m) \/ Stopped
  BY DEF StopInv
<1>4. ASSUME NEW k \in 1..Len(t), t[k][1] = "move", t[k][2] # "stop" PROVE StopsBehind(k)'
  <2>1. CASE k = Len(queue) + 1
    BY <1>2, <1>4, <2>1 DEF StopsBehind
  <2>2. CASE k # Len(queue) + 1
    <3>1. k \in 1..Len(queue)
      BY <1>2, <2>2
    <3>2. IsStop(m) \/ StopsBehind(k)
      BY <1>2, <1>3a, <1>4, <3>1 DEF Stopped
    <3>3. k \in 0..Len(queue)
      BY <3>1
    <3>4. QED
      BY <1>3, <3>2, <3>3
  <2>3. QED
    BY <2>1, <2>2
<1>5. camera'.moving # "stop" => StopsBehind(0)'
  <2>1. 0 \in 0..Len(queue)
    BY <1>2
  <2>2. QED
    BY <1>3, <1>3a, <2>1 DEF Stopped
<1>6. QED
  BY <1>1, <1>4, <1>5 DEF Stopped

\* A step of ipc_cmd itself.
LEMMA CommandStep ==
  ASSUME TableInv, MoveInv, NEW r \in Procs,
         \/ SendMessage(r) \/ Cmd(ReadPosition(r))
         \/ Cmd(PrintPosition(r)) \/ Cmd(ReadFile(r))
  PROVE  MoveInv'
<1>1. /\ todo[r] # <<>> /\ UNCHANGED <<work, phase, camera, byItself>>
      /\ \A p \in Procs : p # r => todo'[p] = todo[p]
  BY DEF Cmd, SendMessage, SendNext, ReadPosition, PrintPosition, ReadFile, tableVars,
         runVars, TableInv
<1>2. PICK x : x = Head(todo[r])
  OBVIOUS
<1>3. /\ phase'[r] # "no" => Head(work'[r])[1] \in {"add", "del"}
      /\ DOMAIN byItself' = Procs
  BY <1>1 DEF MoveInv, ShapeInv
<1>4. CASE SendMessage(r)
  <2>1. /\ x[1] = "send" /\ queue' = Append(queue, x[2]) /\ Len(queue) < QueueDepth
        /\ todo'[r] = Tail(todo[r])
    BY <1>2, <1>4 DEF SendMessage, SendNext, Put, TableInv
  <2>2. PICK m : m = x[2]
    OBVIOUS
  <2>3. PICK S : queue \in Seq(S)
    BY DEF MoveInv, QueueInv
  <2>3a. loose' = IF m[1] # "move" THEN loose ELSE m[2] # "stop" /\ (loose \/ byItself[r])
    BY <1>2, <1>4, <2>2 DEF SendMessage
  <2>4. \/ byItself[r] /\ work[r] = <<>> /\ Whole(todo[r])
        \/ Scripted(work[r]) /\ Quiet(todo[r])
        \/ Scripted(work[r]) /\ todo[r] = OneMove("stop")
        \/ Last(r) /\ \E e \in DOMAIN Opposite : todo[r] = OneMove(e)
    BY <1>1 DEF MoveInv, ShapeInv, Shape
  <2>5. \A e : todo[r] = OneMove(e) =>
          m = <<"move", e>> /\ todo'[r] = <<>>
    BY <1>2, <2>1, <2>2 DEF OneMove
  <2>6. /\ m[1] = "jump" => Jumped(m[2])
        /\ m[1] = "move" => m[2] \in DOMAIN Opposite
    <3>0. CASE Whole(todo[r])
      <4>1. Sound(x)
        BY <1>1, <1>2, <3>0, WholeTail
      <4>2. QED
        BY <2>1, <2>2, <4>1 DEF Sound, Moves
    <3>1. CASE Quiet(todo[r])
      <4>1. Sound(x) /\ ~Moves(x)
        BY <1>1, <1>2, <3>1, QuietTail
      <4>2. QED
        BY <2>1, <2>2, <4>1 DEF Sound, Moves
    <3>2. CASE todo[r] = OneMove("stop")
      BY <2>5, <3>2 DEF Opposite
    <3>3. ASSUME NEW e \in DOMAIN Opposite, todo[r] = OneMove(e)
          PROVE  /\ m[1] = "jump" => Jumped(m[2])
                 /\ m[1] = "move" => m[2] \in DOMAIN Opposite
      <4>1. m[1] = "move" /\ m[2] = e
        BY <2>5, <3>3
      <4>2. QED
        BY <4>1
    <3>4. QED
      BY <2>4, <3>0, <3>1, <3>2, <3>3
  <2>7. Shape(r)'
    <3>0. CASE byItself[r] /\ work[r] = <<>> /\ Whole(todo[r])
      <4>1. Whole(todo'[r])
        BY <1>1, <2>1, <3>0, WholeTail
      <4>2. QED
        BY <1>1, <3>0, <4>1 DEF Shape
    <3>1. CASE Scripted(work[r]) /\ Quiet(todo[r])
      <4>1. Quiet(todo'[r])
        BY <1>1, <2>1, <3>1, QuietTail
      <4>2. QED
        BY <1>1, <3>1, <4>1 DEF Shape
    <3>2. CASE Scripted(work[r]) /\ todo[r] = OneMove("stop")
      <4>1. Quiet(todo'[r])
        BY <2>5, <3>2, QuietNone
      <4>2. QED
        BY <1>1, <3>2, <4>1 DEF Shape
    <3>3. CASE Last(r) /\ \E e \in DOMAIN Opposite : todo[r] = OneMove(e)
      <4>1. todo'[r] = <<>>
        BY <2>5, <3>3
      <4>2. QED
        BY <1>1, <3>3, <4>1 DEF Shape, Last
    <3>4. QED
      BY <2>4, <3>0, <3>1, <3>2, <3>3
  <2>8. ShapeInv'
    BY <1>1, <1>3, <2>7, ShapeStep DEF MoveInv
  <2>9. QueueInv'
    <3>1. PICK t : t = queue'
      OBVIOUS
    <3>2. /\ t \in Seq(S \cup {m}) /\ Len(t) = Len(queue) + 1 /\ Len(queue) \in Nat
          /\ t[Len(queue) + 1] = m
          /\ \A j \in 1..Len(queue) : t[j] = queue[j]
      <4>1. queue \in Seq(S \cup {m}) /\ m \in S \cup {m}
        BY <2>3
      <4>2. t = Append(queue, m)
        BY <2>1, <2>2, <3>1
      <4>3. QED
        BY <2>3, <4>1, <4>2, Longer
    <3>3. ASSUME NEW k \in 1..Len(t)
          PROVE  /\ t[k][1] = "jump" => Jumped(t[k][2])
                 /\ t[k][1] = "move" => t[k][2] \in DOMAIN Opposite
      <4>1. CASE k = Len(queue) + 1
        BY <2>6, <3>2, <4>1
      <4>2. CASE k \in 1..Len(queue)
        BY <3>2, <4>2 DEF MoveInv, QueueInv
      <4>3. QED
        BY <3>2, <4>1, <4>2
    <3>4. Len(t) <= QueueDepth
      BY <2>1, <3>2, IpcCmdAssumption
    <3>5. QED
      BY <1>1, <3>1, <3>2, <3>3, <3>4 DEF MoveInv, QueueInv
  <2>10. StopInv'
    <3>1. ASSUME NEW p \in Procs, Will(p) PROVE Will(p)' \/ IsStop(m)
      <4>1. CASE p # r
        BY <1>1, <3>1, <4>1 DEF Will, Last
      <4>2. CASE p = r /\ Last(r)
        BY <1>1, <4>2 DEF Will, Last
      <4>3. CASE p = r /\ todo[r] = OneMove("stop")
        BY <2>5, <4>3 DEF IsStop
      <4>4. QED
        BY <3>1, <4>1, <4>2, <4>3 DEF Will
    <3>2. ASSUME m[1] = "move", m[2] # "stop", ~byItself[r] PROVE Last(r)'
      <4>1. ~Quiet(todo[r])
        <5>1. Moves(x)
          BY <2>1, <2>2, <3>2 DEF Moves
        <5>2. QED
          BY <1>1, <1>2, <5>1, QuietTail
      <4>2. todo[r] # OneMove("stop")
        BY <2>5, <3>2
      <4>3. Last(r)
        BY <2>4, <3>2, <4>1, <4>2
      <4>4. QED
        BY <1>1, <4>3 DEF Last
    <3>3. m[1] = "move" /\ m[2] # "stop" => loose' \/ \E p \in Procs : Will(p)'
      BY <2>3a, <3>2 DEF Will
    <3>3a. loose => loose' \/ IsStop(m)
      BY <2>3a DEF IsStop
    <3>4. queue' = Append(queue, m)
      BY <2>1, <2>2
    <3>5. QED
      BY <1>1, <2>3, <3>1, <3>3, <3>3a, <3>4, StopsAppended DEF MoveInv
  <2>11. QED
    BY <2>8, <2>9, <2>10 DEF MoveInv
<1>5. CASE Cmd(ReadPosition(r)) \/ Cmd(PrintPosition(r)) \/ Cmd(ReadFile(r))
  <2>1. x[1] # "send" /\ UNCHANGED <<queue, loose>>
    BY <1>2, <1>5 DEF Cmd, ReadPosition, PrintPosition, ReadFile
  <2>2. \A e : todo[r] # OneMove(e)
    BY <1>2, <2>1 DEF OneMove
  <2>3. \/ byItself[r] /\ work[r] = <<>> /\ Whole(todo[r])
        \/ Scripted(work[r]) /\ Quiet(todo[r])
    BY <1>1, <2>2 DEF MoveInv, ShapeInv, Shape
  <2>4. /\ Whole(Tail(todo[r])) /\ Sound(x)
        /\ Quiet(todo[r]) => Quiet(Tail(todo[r])) /\ ~Moves(x)
    BY <1>1, <1>2, <2>3, QuietTail, WholeTail, QuietIsWhole
  <2>5. PICK s : todo'[r] = s /\ Whole(s) /\ (Quiet(todo[r]) => Quiet(s))
    <3>1. CASE Cmd(PrintPosition(r))
      <4>1. todo'[r] = Tail(todo[r])
        BY <3>1 DEF Cmd, PrintPosition, TableInv
      <4>2. QED
        BY <2>4, <4>1
    <3>2. CASE Cmd(ReadFile(r))
      <4>1. x[1] = "file" /\ todo'[r] = << <<"send", x[2]>> >> \o Tail(todo[r])
        BY <1>2, <3>2 DEF Cmd, ReadFile, TableInv
      <4>2. /\ Sound(<<"send", x[2]>>)
            /\ ~Moves(x) => ~Moves(<<"send", x[2]>>)
        BY <2>4, <4>1 DEF Sound, Moves
      <4>3. /\ Whole(<< <<"send", x[2]>> >>)
            /\ ~Moves(x) => Quiet(<< <<"send", x[2]>> >>)
        BY <4>2, QuietOne, WholeOne
      <4>4. QED
        BY <2>4, <4>1, <4>3, QuietBoth, WholeBoth
    <3>3. CASE Cmd(ReadPosition(r))
      <4>1. PICK xy, now, jump :
              /\ xy = x[2] /\ now = Degrees(camera.pos)
              /\ jump = IF x[1] = "jump-abs"
                          THEN <<JumpTo(xy, camera.pos), camera.pos, xy>>
                          ELSE <<JumpBy(xy), camera.pos, <<now[1] + xy[1], now[2] + xy[2]>> >>
        OBVIOUS
      <4>2. /\ x[1] \in {"jump-abs", "jump-rel"}
            /\ todo'[r] = Send("jump", jump) \o Tail(todo[r])
        BY <1>2, <3>3, <4>1 DEF Cmd, ReadPosition, TableInv
      <4>3. PICK i \in Int, j \in Int : i = xy[1] /\ j = xy[2]
        BY <2>4, <4>1, <4>2 DEF Sound
      <4>4. JumpTo(xy, camera.pos) = JumpTo(<<i, j>>, camera.pos) /\ JumpBy(xy) = JumpBy(<<i, j>>)
        BY <4>3 DEF JumpTo, JumpBy
      <4>5. camera.pos \in Positions
        BY DEF MoveInv, QueueInv
      <4>6. Jumped(jump)
        <5>1. CASE x[1] = "jump-abs"
          <6>1. jump[1] = JumpTo(<<i, j>>, jump[2]) /\ jump[2] = camera.pos /\ jump[3] = xy
            BY <4>1, <4>4, <5>1
          <6>2. QED
            BY <4>3, <4>5, <6>1 DEF Jumped
        <5>2. CASE x[1] # "jump-abs"
          <6>1. /\ jump[1] = JumpBy(<<i, j>>) /\ jump[2] = camera.pos
                /\ jump[3][1] = Degrees(jump[2])[1] + i /\ jump[3][2] = Degrees(jump[2])[2] + j
            BY <4>1, <4>3, <4>4, <5>2
          <6>2. QED
            BY <4>5, <6>1 DEF Jumped
        <5>3. QED
          BY <5>1, <5>2
      <4>7. Sound(<<"send", <<"jump", jump>> >>) /\ ~Moves(<<"send", <<"jump", jump>> >>)
        BY <4>6 DEF Sound, Moves
      <4>8. Quiet(Send("jump", jump))
        BY <4>7, QuietOne DEF Send
      <4>9. QED
        BY <2>4, <4>2, <4>8, QuietBoth, WholeBoth, QuietIsWhole
    <3>4. QED
      BY <1>5, <3>1, <3>2, <3>3
  <2>6. Shape(r)'
    BY <1>1, <2>3, <2>5 DEF Shape
  <2>7. ~Will(r)
    BY <2>2, <2>3, StopIsNotScripted DEF Will, Last
  <2>8. \A p \in Procs : Will(p) => Will(p)'
    BY <1>1, <2>7 DEF Will, Last
  <2>9. QED
    BY <1>1, <1>3, <2>1, <2>6, <2>8, ShapeStep, QueueKept, StopsKept DEF MoveInv
<1>6. QED
  BY <1>4, <1>5

\* The camera takes a message.
LEMMA HandleStep ==
  ASSUME TableInv, MoveInv, Cmd(Handle)
  PROVE  MoveInv'
<1>1. /\ queue # <<>> /\ camera' = After(camera, Head(queue)) /\ queue' = Tail(queue)
      /\ UNCHANGED <<todo, work, phase, byItself, loose>>
  BY DEF Cmd, Handle, tableVars, runVars
<1>2. PICK S : queue \in Seq(S)
  BY DEF MoveInv, QueueInv
<1>3. PICK t : t = queue'
  OBVIOUS
<1>4. /\ t \in Seq(S) /\ Len(t) = Len(queue) - 1 /\ Len(queue) \in Nat \ {0}
      /\ \A j \in 1..Len(t) : t[j] = queue[j + 1]
      /\ Head(queue) = queue[1]
  BY <1>1, <1>2, <1>3
<1>5. PICK m : m = queue[1]
  OBVIOUS
<1>6. /\ m[1] = "jump" => Jumped(m[2])
      /\ m[1] = "move" => m[2] \in DOMAIN Opposite
  <2>1. 1 \in 1..Len(queue)
    BY <1>4
  <2>2. QED
    BY <1>5, <2>1 DEF MoveInv, QueueInv
<1>7. PICK c : c = camera'
  OBVIOUS
<1>8. c = After(camera, m)
  BY <1>1, <1>4, <1>5, <1>7
<1>9. /\ c.pos \in Positions /\ c.moving \in DOMAIN Opposite
      /\ c = [pos |-> c.pos, moving |-> c.moving, presets |-> c.presets]
      /\ DOMAIN c.presets = Slots
      /\ \A s \in Slots : c.presets[s] \in Positions \cup {NoPreset}
      /\ c.moving = IF m[1] = "move" THEN m[2] ELSE camera.moving
  BY <1>6, <1>8, CameraAfter DEF MoveInv
<1>10. QueueInv'
  <2>1. ASSUME NEW k \in 1..Len(t)
        PROVE  /\ t[k][1] = "jump" => Jumped(t[k][2])
               /\ t[k][1] = "move" => t[k][2] \in DOMAIN Opposite
    <3>1. k + 1 \in 1..Len(queue)
      BY <1>4
    <3>2. QED
      BY <1>4, <3>1 DEF MoveInv, QueueInv
  <2>2. Len(t) <= QueueDepth
    BY <1>4, IpcCmdAssumption DEF MoveInv, QueueInv
  <2>3. QED
    BY <1>3, <1>4, <1>7, <1>9, <2>1, <2>2 DEF QueueInv
<1>11. ShapeInv'
  BY <1>1 DEF MoveInv, ShapeInv, Shape, Last
<1>12. \A p \in Procs : Will(p) <=> Will(p)'
  BY <1>1 DEF Will, Last
<1>13. ASSUME NEW k \in 1..Len(queue), StopsBehind(k) PROVE StopsBehind(k - 1)'
  <2>1. ASSUME NEW j \in k + 1..Len(queue), IsStop(queue[j]) PROVE StopsBehind(k - 1)'
    <3>1. j - 1 \in (k - 1) + 1..Len(t) /\ j - 1 \in 1..Len(t) /\ (j - 1) + 1 = j
      BY <1>4
    <3>2. IsStop(t[j - 1])
      BY <1>4, <2>1, <3>1
    <3>3. QED
      BY <1>3, <3>1, <3>2 DEF StopsBehind
  <2>2. QED
    BY <1>12, <1>13, <2>1 DEF StopsBehind
<1>14. StopInv'
  <2> SUFFICES ASSUME Stopped PROVE Stopped'
    BY <1>1 DEF MoveInv, StopInv
  <2>1. ASSUME NEW k \in 1..Len(t), t[k][1] = "move", t[k][2] # "stop" PROVE StopsBehind(k)'
    <3>1. k + 1 \in 1..Len(queue) /\ (k + 1) - 1 = k
      BY <1>4
    <3>2. StopsBehind(k + 1)
      BY <1>4, <2>1, <3>1 DEF Stopped
    <3>3. QED
      BY <1>13, <3>1, <3>2
  <2>2. ASSUME c.moving # "stop" PROVE StopsBehind(0)'
    <3>1. 1 \in 1..Len(queue) /\ 1 - 1 = 0
      BY <1>4
    <3>2. CASE m[1] = "move"
      <4>1. StopsBehind(1)
        BY <1>5, <1>9, <2>2, <3>1, <3>2 DEF Stopped
      <4>2. QED
        BY <1>13, <3>1, <4>1
    <3>3. CASE m[1] # "move"
      <4>1. StopsBehind(0)
        BY <1>9, <2>2, <3>3 DEF Stopped
      <4>2. ~IsStop(queue[1])
        BY <1>5, <3>3 DEF IsStop
      <4>3. StopsBehind(1)
        <5>1. \A j \in 0 + 1..Len(queue) : j = 1 \/ j \in 1 + 1..Len(queue)
          BY <1>4
        <5>2. QED
          BY <4>1, <4>2, <5>1 DEF StopsBehind
      <4>4. QED
        BY <1>13, <3>1, <4>3
    <3>4. QED
      BY <3>2, <3>3
  <2>3. QED
    BY <1>3, <1>7, <2>1, <2>2 DEF Stopped
<1>15. QED
  BY <1>10, <1>11, <1>14 DEF MoveInv

\* Each step keeps what the end of a move and the way of a jump rest on.
THEOREM MoveInvariant == PresetsSpec => []MoveInv
<1>1. PresetsInit => MoveInv
  <2> SUFFICES ASSUME PresetsInit PROVE MoveInv
    OBVIOUS
  <2>1. ShapeInv
    BY ScriptedNone, QuietNone DEF PresetsInit, CmdInit, ShapeInv, Shape
  <2>2. /\ queue = <<>> /\ Len(queue) = 0 /\ queue \in Seq({})
        /\ camera = [pos |-> StartPos, moving |-> "stop",
                     presets |-> [s \in Slots |-> NoPreset]]
    BY DEF PresetsInit, CmdInit
  <2>3. QueueInv
    BY <2>2, IpcCmdAssumption DEF QueueInv, Opposite
  <2>4. StopInv
    BY <2>2 DEF StopInv, Stopped
  <2>5. QED
    BY <2>1, <2>3, <2>4 DEF MoveInv
<1>2. TableInv /\ MoveInv /\ [PresetsNext]_vars => MoveInv'
  <2> SUFFICES ASSUME TableInv, MoveInv, [PresetsNext]_vars PROVE MoveInv'
    OBVIOUS
  <2>1. ASSUME NEW r \in Procs, Start(r) PROVE MoveInv'
    <3>1. /\ Idle(r) /\ UNCHANGED <<queue, camera, phase, loose>>
          /\ \A p \in Procs : p # r =>
               todo'[p] = todo[p] /\ work'[p] = work[p] /\ byItself'[p] = byItself[p]
          /\ DOMAIN byItself' = Procs
          /\ \/ \E q \in Requests : work'[r] = Script(q) /\ todo'[r] = <<>>
             \/ /\ work'[r] = <<>> /\ byItself'[r]
                /\ todo'[r] = <<>> \/ \E l \in Lines : todo'[r] = Launched(l)
      <4>1. /\ Idle(r) /\ UNCHANGED <<queue, camera, phase, loose>>
            /\ DOMAIN byItself = Procs
        BY <2>1 DEF Start, tableVars, MoveInv, ShapeInv
      <4>2. CASE /\ \E q \in Requests :
                      /\ work' = [work EXCEPT ![r] = Script(q)]
                      /\ byItself' = [byItself EXCEPT ![r] = FALSE]
                 /\ UNCHANGED todo
        BY <4>1, <4>2 DEF Idle, TableInv
      <4>3. CASE /\ \E l \in Lines : Begin(r, l) \/ BeginFails
                 /\ byItself' = [byItself EXCEPT ![r] = TRUE]
                 /\ UNCHANGED work
        BY <4>1, <4>3 DEF Idle, TableInv, Begin, BeginFails
      <4>4. QED
        BY <2>1, <4>2, <4>3 DEF Start
    <3>2. phase[r] = "no" /\ ~Will(r)
      BY <3>1 DEF Idle, TableInv, Will, Last, OneMove
    <3>3. Shape(r)'
      <4>1. ASSUME NEW q \in Requests, work'[r] = Script(q), todo'[r] = <<>> PROVE Shape(r)'
        BY <4>1, ScriptShape, QuietNone DEF Shape
      <4>2. ASSUME NEW l \in Lines, work'[r] = <<>>, byItself'[r], todo'[r] = Launched(l)
            PROVE  Shape(r)'
        <5>1. Known(l)
          BY LinesAssumption DEF Known
        <5>2. QED
          BY <4>2, <5>1, ProgramSteps DEF Shape
      <4>2a. ASSUME work'[r] = <<>>, todo'[r] = <<>> PROVE Shape(r)'
        BY <4>2a, QuietNone, ScriptedNone DEF Shape
      <4>3. QED
        BY <3>1, <4>1, <4>2, <4>2a
    <3>4. \A p \in Procs : Will(p) => Will(p)'
      BY <3>1, <3>2 DEF Will, Last
    <3>5. QED
      BY <3>1, <3>2, <3>3, <3>4, ShapeStep, QueueKept, StopsKept DEF MoveInv
  <2>2. ASSUME NEW r \in Procs, CallCmd(r) PROVE MoveInv'
    <3>1. /\ phase[r] = "no" /\ todo[r] = <<>> /\ work[r] # <<>> /\ Head(work[r])[1] = "call"
          /\ todo'[r] = Launched(Head(work[r])[2]) /\ work'[r] = Tail(work[r])
          /\ \A p \in Procs : p # r => todo'[p] = todo[p] /\ work'[p] = work[p]
          /\ UNCHANGED <<queue, camera, phase, byItself, loose>> /\ DOMAIN byItself' = Procs
      BY <2>2 DEF CallCmd, Begin, Goes, tableVars, TableInv, MoveInv, ShapeInv
    <3>2. CASE Last(r)
      <4>1. Head(work[r])[2] = << <<"move", "stop">> >> /\ Tail(work[r]) = <<>>
        BY <3>2 DEF Last, Call
      <4>2. "stop" \in DOMAIN Opposite
        BY DEF Opposite
      <4>3. todo'[r] = OneMove("stop")
        BY <3>1, <4>1, <4>2, MoveLine, MoveSent DEF OneMove
      <4>4. Shape(r)'
        BY <3>1, <4>1, <4>3, ScriptedNone DEF Shape
      <4>5. \A p \in Procs : Will(p) => Will(p)'
        BY <3>1, <4>3 DEF Will, Last
      <4>6. QED
        BY <3>1, <4>4, <4>5, ShapeStep, QueueKept, StopsKept DEF MoveInv
    <3>3. CASE ~Last(r)
      <4>1. ~Will(r)
        BY <3>1, <3>3 DEF Will, OneMove
      <4>2. \A p \in Procs : Will(p) => Will(p)'
        BY <3>1, <4>1 DEF Will, Last
      <4>3. ASSUME NEW d, work[r] = MoveScript(d) PROVE Shape(r)'
        <5>1. /\ Head(work[r])[2] = << <<"move", d>> >>
              /\ Tail(work[r]) = << Call("move", "stop") >>
          BY <4>3 DEF MoveScript, Call
        <5>2. Last(r)'
          BY <3>1, <5>1 DEF Last
        <5>3. todo'[r] = IF d \in DOMAIN Opposite THEN MoveSends(d) ELSE <<>>
          BY <3>1, <5>1, MoveLine, ZenonT(40)
        <5>4. todo'[r] = <<>> \/ \E e \in DOMAIN Opposite : todo'[r] = OneMove(e)
          BY <5>3, MoveSent DEF OneMove
        <5>5. QED
          BY <5>2, <5>4 DEF Shape
      <4>4. ASSUME Scripted(work[r]) PROVE Shape(r)'
        <5>1. Scripted(work'[r]) /\ Quiet(todo'[r])
          BY <3>1, <4>4, ScriptedTail, ProgramSteps DEF Tame
        <5>2. QED
          BY <5>1 DEF Shape
      <4>5. Shape(r)'
        BY <3>1, <3>3, <4>3, <4>4 DEF MoveInv, ShapeInv, Shape
      <4>6. QED
        BY <3>1, <4>2, <4>5, ShapeStep, QueueKept, StopsKept DEF MoveInv
    <3>4. QED
      BY <3>2, <3>3
  <2>2a. ASSUME NEW r \in Procs, CallFails(r) PROVE MoveInv'
    <3>1. /\ phase[r] = "no" /\ todo[r] = <<>> /\ work[r] # <<>> /\ todo'[r] = <<>>
          /\ \/ Head(work[r])[2][1][1] = "get-pos" /\ work'[r] = <<>>
             \/ Head(work[r])[2][1][1] # "get-pos" /\ work'[r] = Tail(work[r])
          /\ \A p \in Procs : p # r => todo'[p] = todo[p] /\ work'[p] = work[p]
          /\ UNCHANGED <<queue, camera, phase, byItself>> /\ DOMAIN byItself' = Procs
      <4>1. /\ Goes(r, "call") /\ UNCHANGED <<todo, queue, camera, tableVars, byItself>>
            /\ work' = [work EXCEPT ![r] = IF Head(work[r])[2][1][1] = "get-pos"
                                            THEN <<>> ELSE Tail(work[r])]
        BY <2>2a DEF CallFails, BeginFails
      <4>2. work'[r] = IF Head(work[r])[2][1][1] = "get-pos" THEN <<>> ELSE Tail(work[r])
        BY <4>1 DEF TableInv
      <4>3. /\ phase[r] = "no" /\ todo[r] = <<>> /\ work[r] # <<>> /\ todo'[r] = <<>>
            /\ \A p \in Procs : p # r => todo'[p] = todo[p] /\ work'[p] = work[p]
            /\ UNCHANGED <<queue, camera, phase, byItself>>
        BY <4>1 DEF Goes, tableVars, TableInv
      <4>4. DOMAIN byItself' = Procs
        BY <4>1 DEF MoveInv, ShapeInv
      <4>5. QED
        BY <4>2, <4>3, <4>4
    <3>2. ~loose' => ~loose
      BY <2>2a DEF CallFails
    <3>3. Last(r) => loose'
      <4>1. ASSUME Last(r) PROVE Head(work[r])[2][1] = <<"move", "stop">>
        BY <4>1 DEF Last, Call
      <4>2. QED
        BY <2>2a, <4>1 DEF CallFails
    <3>4. ~Last(r) => ~Will(r)
      BY <3>1 DEF Will, OneMove
    <3>5. ~loose' => ~loose /\ \A p \in Procs : Will(p) => Will(p)'
      BY <3>1, <3>2, <3>3, <3>4 DEF Will, Last
    <3>6. Shape(r)'
      <4>1. ASSUME NEW d, work[r] = MoveScript(d) PROVE Shape(r)'
        <5>1. /\ Head(work[r])[2][1][1] = "move"
              /\ Tail(work[r]) = << Call("move", "stop") >>
          BY <4>1 DEF MoveScript, Call
        <5>2. Last(r)'
          BY <3>1, <5>1 DEF Last
        <5>3. QED
          BY <3>1, <5>2 DEF Shape
      <4>2. ASSUME Scripted(work[r]) PROVE Shape(r)'
        <5>1. Scripted(work'[r])
          BY <3>1, <4>2, ScriptedTail, ScriptedNone
        <5>2. QED
          BY <3>1, <5>1, QuietNone DEF Shape
      <4>3. ASSUME Last(r) PROVE Shape(r)'
        <5>1. Tail(work[r]) = <<>>
          BY <4>3 DEF Last
        <5>2. QED
          BY <3>1, <5>1, ScriptedNone, QuietNone DEF Shape
      <4>4. QED
        BY <3>1, <4>1, <4>2, <4>3 DEF MoveInv, ShapeInv, Shape
    <3>7. QED
      BY <3>1, <3>5, <3>6, ShapeStep, QueueKept, StopsKept DEF MoveInv
  <2>3. ASSUME NEW r \in Procs, PositionFails(r) PROVE MoveInv'
    <3>1. /\ todo[r] # <<>> /\ Head(todo[r])[1] # "send"
          /\ todo'[r] = <<>> /\ work'[r] = <<>>
          /\ \A p \in Procs : p # r => todo'[p] = todo[p] /\ work'[p] = work[p]
          /\ UNCHANGED <<queue, camera, phase, byItself, loose>> /\ DOMAIN byItself' = Procs
      BY <2>3 DEF PositionFails, ReadFails, tableVars, TableInv, MoveInv, ShapeInv
    <3>2. phase[r] = "no"
      BY <3>1 DEF TableInv
    <3>3. \A e : todo[r] # OneMove(e)
      BY <3>1 DEF OneMove
    <3>4. ~Last(r)
      BY <3>1, <3>3, StopIsNotScripted DEF MoveInv, ShapeInv, Shape, Last
    <3>5. \A p \in Procs : Will(p) => Will(p)'
      BY <3>1, <3>3, <3>4 DEF Will, Last
    <3>6. Shape(r)'
      BY <3>1, ScriptedNone, QuietNone DEF Shape
    <3>7. QED
      BY <3>1, <3>2, <3>5, <3>6, ShapeStep, QueueKept, StopsKept DEF MoveInv
  <2>4. ASSUME NEW r \in Procs, Open(r) PROVE MoveInv'
    <3>1. /\ UNCHANGED <<work, todo, queue, camera, byItself, loose>>
          /\ DOMAIN byItself' = Procs
          /\ Head(work[r])[1] \in {"add", "del"}
          /\ \A p \in Procs : p # r => phase'[p] = phase[p]
      BY <2>4 DEF Open, Goes, cmdVars, runVars, TableInv, MoveInv, ShapeInv
    <3>2. Shape(r)'
      BY <3>1 DEF MoveInv, ShapeInv, Shape, Last
    <3>3. \A p \in Procs : Will(p) => Will(p)'
      BY <3>1 DEF Will, Last
    <3>4. QED
      BY <3>1, <3>2, <3>3, ShapeStep, QueueKept, StopsKept DEF MoveInv
  <2>5. ASSUME NEW r \in Procs, ReadLine(r) \/ Change(r) \/ Truncate(r) \/ WriteLine(r)
        PROVE  MoveInv'
    <3>1. phase[r] # "no" /\ UNCHANGED <<cmdVars, byItself, loose>>
      BY <2>5 DEF ReadLine, Change, Truncate, WriteLine, cmdVars, runVars
    <3>2. \/ Return(r, AfterRefusal(work[r])) \/ Return(r, Tail(work[r]))
          \/ /\ UNCHANGED work
             /\ UNCHANGED phase \/ phase' = [phase EXCEPT ![r] = "write"]
      BY <2>5 DEF ReadLine, Change, Truncate, WriteLine, runVars
    <3>3. CASE Return(r, AfterRefusal(work[r])) \/ Return(r, Tail(work[r]))
      BY <3>1, <3>3, MoveReturn DEF AfterRefusal
    <3>4. CASE /\ UNCHANGED work
               /\ UNCHANGED phase \/ phase' = [phase EXCEPT ![r] = "write"]
      <4>1. \A p \in Procs : phase'[p] # "no" => phase[p] # "no"
        BY <3>1, <3>4 DEF TableInv
      <4>2. ShapeInv'
        BY <3>1, <3>4, <4>1 DEF MoveInv, ShapeInv, Shape, Last, cmdVars
      <4>3. \A p \in Procs : Will(p) => Will(p)'
        BY <3>1, <3>4 DEF Will, Last, cmdVars
      <4>4. QED
        BY <3>1, <4>2, <4>3, QueueKept, StopsKept DEF MoveInv, cmdVars
    <3>5. QED
      BY <3>2, <3>3, <3>4
  <2>6. CASE UNCHANGED vars
    <3>1. UNCHANGED <<work, phase, todo, queue, camera, byItself, loose>>
      BY <2>6 DEF vars, cmdVars, tableVars, runVars
    <3>2. ShapeInv'
      BY <3>1 DEF MoveInv, ShapeInv, Shape, Last
    <3>3. \A p \in Procs : Will(p) => Will(p)'
      BY <3>1 DEF Will, Last
    <3>4. QED
      BY <3>1, <3>2, <3>3, QueueKept, StopsKept DEF MoveInv
  <2>7. QED
    BY <2>1, <2>2, <2>2a, <2>3, <2>4, <2>5, <2>6, CommandStep, HandleStep
       DEF PresetsNext, ScriptStep
<1>3. QED
  BY <1>1, <1>2, TableInvariant, PTL DEF PresetsSpec

\* The camera is where it can be, moves as it can, and its queue keeps its depth.
THEOREM CommandTypes == PresetsSpec => []CmdTypeOK
<1>1. TableInv /\ MoveInv => CmdTypeOK
  BY DEF TableInv, MoveInv, QueueInv, CmdTypeOK
<1>2. QED
  BY <1>1, TableInvariant, MoveInvariant, PTL

\* When every request is over the camera stands still, unless its last move was
\* nobody's to stop.
THEOREM CameraIsStopped == PresetsSpec => []CameraStops
<1>1. MoveInv => CameraStops
  <2> SUFFICES ASSUME MoveInv, AtRest, ~loose, camera.moving # "stop" PROVE FALSE
    BY DEF CameraStops
  <2>1. StopsBehind(0)
    BY DEF MoveInv, StopInv, Stopped
  <2>2. \A r \in Procs : ~Will(r)
    BY DEF AtRest, Idle, Will, Last, OneMove
  <2>3. Len(queue) = 0
    BY DEF AtRest
  <2>4. QED
    BY <2>1, <2>2, <2>3 DEF StopsBehind
<1>2. QED
  BY <1>1, MoveInvariant, PTL

\* Degrees in range, by their parts and as a pair.
LEMMA SameRange ==
  ASSUME NEW xy, InRange(xy), NEW x, NEW y, xy[1] = x, xy[2] = y
  PROVE  InRange(<<x, y>>) /\ x \in Int /\ y \in Int
<1>1. x \in 0..3600
  BY DEF InRange
<1>2. y \in 0..1800
  BY DEF InRange
<1>3. x \in Int /\ y \in Int
  BY <1>1, <1>2
<1>4. InRange(<<x, y>>)
  BY <1>1, <1>2 DEF InRange
<1>5. QED
  BY <1>3, <1>4

\* A jump that the camera takes from where it was when it was sent lands where it was to.
THEOREM JumpsLand == PresetsSpec => JumpLands
<1> DEFINE Lands ==
      /\ queue # <<>> /\ Head(queue)[1] = "jump" /\ queue' = Tail(queue)
      /\ Head(queue)[2][2] = camera.pos
      /\ InRange(Head(queue)[2][3])
      => Near(Degrees(camera'.pos), Head(queue)[2][3])
<1>1. MoveInv /\ [PresetsNext]_vars => [Lands]_cmdVars
  <2> SUFFICES ASSUME MoveInv, [PresetsNext]_vars,
                      queue # <<>>, Head(queue)[1] = "jump", queue' = Tail(queue),
                      Head(queue)[2][2] = camera.pos, InRange(Head(queue)[2][3])
               PROVE  Near(Degrees(camera'.pos), Head(queue)[2][3])
    OBVIOUS
  <2>1. PICK S : queue \in Seq(S)
    BY DEF MoveInv, QueueInv
  <2>2. Len(queue') = Len(queue) - 1 /\ Len(queue) \in Nat \ {0} /\ Head(queue) = queue[1]
    BY <2>1
  <2>3. queue' # queue
    <3>1. PICK k \in Nat : k = Len(queue)
      BY <2>2
    <3>2. k - 1 # k
      OBVIOUS
    <3>3. QED
      BY <2>2, <3>1, <3>2
  <2>4. \A m : queue' # Append(queue, m)
    <3>1. ASSUME NEW m, queue' = Append(queue, m) PROVE FALSE
      <4>1. Len(Append(queue, m)) = Len(queue) + 1
        BY <2>1, Longer
      <4>2. PICK k \in Nat : k = Len(queue)
        BY <2>2
      <4>3. k - 1 # k + 1
        OBVIOUS
      <4>4. QED
        BY <2>2, <3>1, <4>1, <4>2, <4>3
    <3>2. QED
      BY <3>1
  <2>5. Handle
    <3>1. \A r \in Procs : ~Start(r) /\ ~CallCmd(r) /\ ~CallFails(r) /\ ~PositionFails(r)
      BY <2>3 DEF Start, CallCmd, CallFails, PositionFails, ReadFails
    <3>2. \A r \in Procs : ~Open(r) /\ ~ReadLine(r) /\ ~Change(r) /\ ~Truncate(r) /\ ~WriteLine(r)
      BY <2>3 DEF Open, ReadLine, Change, Truncate, WriteLine, cmdVars
    <3>3. \A r \in Procs : ~SendMessage(r)
      BY <2>4 DEF SendMessage, SendNext, Put
    <3>4. \A r \in Procs : ~Cmd(ReadPosition(r)) /\ ~Cmd(PrintPosition(r)) /\ ~Cmd(ReadFile(r))
      BY <2>3 DEF Cmd, ReadPosition, PrintPosition, ReadFile
    <3>5. ~UNCHANGED vars
      BY <2>3 DEF vars, cmdVars
    <3>6. QED
      BY <3>1, <3>2, <3>3, <3>4, <3>5 DEF PresetsNext, ScriptStep, Cmd
  <2>6. PICK v : v = Head(queue)[2]
    OBVIOUS
  <2>7. Jumped(v) /\ v[2] = camera.pos /\ InRange(v[3])
    <3>1. 1 \in 1..Len(queue)
      BY <2>2
    <3>2. QED
      BY <2>2, <2>6, <3>1 DEF MoveInv, QueueInv
  <2>8. camera'.pos = Moved(camera.pos, v[1])
    <3>1. camera' = [camera EXCEPT !.pos = Moved(@, v[1])]
      BY <2>5, <2>6 DEF Handle, After
    <3>2. PICK p, mv, ps : camera = [pos |-> p, moving |-> mv, presets |-> ps]
      BY DEF MoveInv, QueueInv
    <3>3. QED
      BY <3>1, <3>2
  <2>9. PICK pos \in Positions : pos = camera.pos
    BY DEF MoveInv, QueueInv
  <2>10. PICK x \in Int, y \in Int :
           \/ v[1] = JumpTo(<<x, y>>, pos) /\ v[3][1] = x /\ v[3][2] = y
           \/ /\ v[1] = JumpBy(<<x, y>>)
              /\ v[3][1] = Degrees(pos)[1] + x /\ v[3][2] = Degrees(pos)[2] + y
    BY <2>7, <2>9 DEF Jumped
  <2>11. CASE v[1] = JumpTo(<<x, y>>, pos) /\ v[3][1] = x /\ v[3][2] = y
    <3>1. InRange(<<x, y>>)
      <4>1. PICK w : w = v[3]
        OBVIOUS
      <4>2. InRange(w) /\ w[1] = x /\ w[2] = y
        BY <2>7, <2>11, <4>1
      <4>3. QED
        BY <4>2, SameRange
    <3>2. Near(Degrees(Moved(pos, v[1])), <<x, y>>)
      BY <2>11, <3>1, AbsoluteJumpLands
    <3>3. QED
      BY <2>6, <2>8, <2>9, <2>11, <3>2 DEF Near
  <2>12. CASE /\ v[1] = JumpBy(<<x, y>>)
              /\ v[3][1] = Degrees(pos)[1] + x /\ v[3][2] = Degrees(pos)[2] + y
    <3>1. PICK g, h : g = Degrees(pos)[1] + x /\ h = Degrees(pos)[2] + y
      OBVIOUS
    <3>2. InRange(<<g, h>>) /\ g \in Int /\ h \in Int
      <4>1. PICK w : w = v[3]
        OBVIOUS
      <4>2. InRange(w) /\ w[1] = g /\ w[2] = h
        BY <2>7, <2>12, <3>1, <4>1
      <4>3. QED
        BY <4>2, SameRange
    <3>3. Near(Degrees(Moved(pos, v[1])), <<g, h>>)
      BY <2>12, <3>1, <3>2, RelativeJumpLands
    <3>4. QED
      BY <2>6, <2>8, <2>9, <2>12, <3>1, <3>3 DEF Near
  <2>13. QED
    BY <2>10, <2>11, <2>12
<1>2. QED
  BY <1>1, MoveInvariant, PTL DEF PresetsSpec, JumpLands

--------------------------------------------------------------------------------
(* The names and the presets of the camera, as long as runs do not overlap. *)

\* The numbers the camera has a preset for, and the set behind one message.
Held == {s \in Slots : camera.presets[s] # NoPreset}
Filled(X) == IF Slots \ X = {} THEN X ELSE X \cup {First(Slots \ X)}
Turn(X, m) ==
  IF m[1] = "add" THEN Filled(X) ELSE IF m[1] = "remove" THEN X \ {m[2]} ELSE X

\* The messages of q lead from X to Y: P has the sets between them.
Ends(q, X, Y) ==
  \E P : P[0] = X /\ P[Len(q)] = Y /\ \A k \in 1..Len(q) : P[k] = Turn(P[k - 1], q[k])

LEMMA FirstIsLeast ==
  ASSUME NEW T, T \subseteq Slots, T # {}
  PROVE  First(T) \in T /\ \A t \in T : First(T) <= t
<1>1. T \subseteq Nat
  BY IpcCmdAssumption DEF Slots
<1>2. \E m \in T : \A t \in T : m <= t
  BY <1>1, Least
<1>3. QED
  BY <1>2, Zenon DEF First

LEMMA TurnOfSlots ==
  ASSUME NEW X, X \subseteq Slots, NEW m
  PROVE  Turn(X, m) \subseteq Slots
<1>1. Slots \ X # {} => First(Slots \ X) \in Slots
  BY FirstIsLeast
<1>2. QED
  BY <1>1 DEF Turn, Filled

LEMMA EndsNone ==
  ASSUME NEW X, NEW Y
  PROVE  Ends(<<>>, X, Y) <=> X = Y
<1>1. Len(<<>>) = 0 /\ \A k : k \notin 1..0
  OBVIOUS
<1>2. ASSUME X = Y PROVE Ends(<<>>, X, Y)
  <2>1. [k \in {0} |-> X][0] = X
    OBVIOUS
  <2>2. QED
    BY <1>1, <1>2, <2>1 DEF Ends
<1>3. ASSUME Ends(<<>>, X, Y) PROVE X = Y
  BY <1>1, <1>3 DEF Ends
<1>4. QED
  BY <1>2, <1>3

LEMMA EndsMore ==
  ASSUME NEW S, NEW q \in Seq(S), NEW m, NEW X, NEW Y, Ends(q, X, Y)
  PROVE  Ends(Append(q, m), X, Turn(Y, m))
<1>1. PICK n \in Nat : n = Len(q)
  OBVIOUS
<1>2. PICK t : t = Append(q, m)
  OBVIOUS
<1>3. Len(t) = n + 1 /\ t[n + 1] = m /\ \A k \in 1..n : t[k] = q[k]
  BY <1>1, <1>2, Longer
<1>4. PICK P : P[0] = X /\ P[n] = Y /\ \A k \in 1..n : P[k] = Turn(P[k - 1], q[k])
  BY <1>1 DEF Ends
<1> DEFINE R == [k \in 0..n + 1 |-> IF k <= n THEN P[k] ELSE Turn(Y, m)]
<1>5. R[0] = X /\ R[n] = Y /\ R[n + 1] = Turn(Y, m)
  BY <1>4
<1>6. \A k \in 1..n : R[k] = P[k] /\ R[k - 1] = P[k - 1]
  OBVIOUS
<1> HIDE DEF R
<1>7. ASSUME NEW k \in 1..n + 1 PROVE R[k] = Turn(R[k - 1], t[k])
  <2>1. CASE k = n + 1
    <3>1. k - 1 = n
      BY <2>1
    <3>2. QED
      BY <1>3, <1>5, <2>1, <3>1
  <2>2. CASE k # n + 1
    <3>1. k \in 1..n
      BY <2>2
    <3>2. QED
      BY <1>3, <1>4, <1>6, <3>1
  <2>3. QED
    BY <2>1, <2>2
<1>8. Ends(t, X, Turn(Y, m))
  BY <1>3, <1>5, <1>7 DEF Ends
<1>9. QED
  BY <1>2, <1>8

LEMMA EndsTail ==
  ASSUME NEW S, NEW q \in Seq(S), q # <<>>, NEW X, NEW Y, Ends(q, X, Y)
  PROVE  Ends(Tail(q), Turn(X, Head(q)), Y)
<1>1. PICK t : t = Tail(q)
  OBVIOUS
<1>2. Len(q) \in Nat \ {0} /\ Head(q) = q[1] /\ Len(t) = Len(q) - 1
      /\ \A k \in 1..Len(t) : t[k] = q[k + 1]
  BY <1>1
<1>3. PICK n \in Nat : Len(q) = n + 1 /\ Len(t) = n
  BY <1>2
<1>4. PICK P : P[0] = X /\ P[n + 1] = Y /\ \A k \in 1..n + 1 : P[k] = Turn(P[k - 1], q[k])
  BY <1>3 DEF Ends
<1> DEFINE R == [k \in 0..n |-> P[k + 1]]
<1>5. /\ R[0] = P[1] /\ R[n] = P[n + 1]
      /\ \A k \in 1..n : R[k] = P[k + 1] /\ R[k - 1] = P[k]
  OBVIOUS
<1> HIDE DEF R
<1>6. R[0] = Turn(X, Head(q))
  <2>1. 1 \in 1..n + 1 /\ 1 - 1 = 0
    OBVIOUS
  <2>2. P[1] = Turn(P[0], q[1])
    BY <1>4, <2>1
  <2>3. QED
    BY <1>2, <1>4, <1>5, <2>2
<1>7. ASSUME NEW k \in 1..n PROVE R[k] = Turn(R[k - 1], t[k])
  <2>1. k + 1 \in 1..n + 1 /\ (k + 1) - 1 = k
    OBVIOUS
  <2>2. P[k + 1] = Turn(P[k], q[k + 1])
    BY <1>4, <2>1
  <2>3. t[k] = q[k + 1]
    BY <1>2, <1>3
  <2>4. QED
    BY <1>5, <2>2, <2>3
<1>8. Ends(t, Turn(X, Head(q)), Y)
  BY <1>3, <1>4, <1>5, <1>6, <1>7 DEF Ends
<1>9. QED
  BY <1>1, <1>8

\* What the camera holds behind a message.
LEMMA HeldAfter ==
  ASSUME QueueInv, NEW m, NEW c, c = After(camera, m)
  PROVE  {s \in Slots : c.presets[s] # NoPreset} = Turn(Held, m)
<1>1. PICK pos, moving, p : camera = [pos |-> pos, moving |-> moving, presets |-> p]
  BY DEF QueueInv
<1>2. camera.pos = pos /\ camera.presets = p /\ pos \in Positions /\ DOMAIN p = Slots
  BY <1>1 DEF QueueInv
<1>3. Held = {s \in Slots : p[s] # NoPreset}
  BY <1>2 DEF Held
<1>4. CASE m[1] \notin {"add", "remove"}
  <2>1. c.presets = p
    BY <1>1, <1>4 DEF After
  <2>2. QED
    BY <1>3, <1>4, <2>1 DEF Turn
<1>5. CASE m[1] = "remove"
  <2>1. c.presets = [p EXCEPT ![m[2]] = NoPreset]
    BY <1>1, <1>5 DEF After
  <2>2. \A s \in Slots : c.presets[s] = IF s = m[2] THEN NoPreset ELSE p[s]
    BY <1>2, <2>1
  <2>3. Turn(Held, m) = Held \ {m[2]}
    BY <1>5 DEF Turn
  <2>4. QED
    BY <1>3, <2>2, <2>3
<1>6. CASE m[1] = "add"
  <2>1. Free(p) = Slots \ Held /\ Turn(Held, m) = Filled(Held)
    BY <1>3, <1>6 DEF Free, Turn
  <2>2. CASE Free(p) = {}
    <3>1. c.presets = p
      BY <1>1, <1>6, <2>2 DEF After
    <3>2. QED
      BY <1>3, <2>1, <2>2, <3>1 DEF Filled
  <2>3. CASE Free(p) # {}
    <3>1. PICK f : f = First(Free(p))
      OBVIOUS
    <3>2. c.presets = [p EXCEPT ![f] = pos]
      BY <1>1, <1>6, <2>3, <3>1 DEF After
    <3>3. f \in Slots
      BY <2>1, <2>3, <3>1, FirstIsLeast
    <3>4. pos # NoPreset
      BY <1>2, OnlyTheScript
    <3>5. \A s \in Slots : c.presets[s] = IF s = f THEN pos ELSE p[s]
      BY <1>2, <3>2
    <3>6. Filled(Held) = Held \cup {f}
      BY <2>1, <2>3, <3>1 DEF Filled
    <3>7. QED
      BY <1>3, <2>1, <3>3, <3>4, <3>5, <3>6
  <2>4. QED
    BY <2>2, <2>3
<1>7. QED
  BY <1>4, <1>5, <1>6

\* A step of ipc_cmd that sends nothing about presets.
Still(x) == x[1] \in {"send", "file"} => x[2][1] \notin {"add", "remove"}
Calm(s) ==
  /\ \E S : s \in Seq(S)
  /\ \A k \in 1..Len(s) : Still(s[k])

LEMMA CalmBoth ==
  ASSUME NEW s, NEW t, Calm(s), Calm(t)
  PROVE  Calm(s \o t)
<1>1. PICK S, T : s \in Seq(S) /\ t \in Seq(T)
  BY DEF Calm
<1>2. PICK u : u = s \o t
  OBVIOUS
<1>3. /\ u \in Seq(S \cup T) /\ Len(u) = Len(s) + Len(t)
      /\ \A k \in 1..Len(u) :
              \/ k \in 1..Len(s) /\ u[k] = s[k]
              \/ k - Len(s) \in 1..Len(t) /\ u[k] = t[k - Len(s)]
  BY <1>1, <1>2, Joined
<1>4. ASSUME NEW k \in 1..Len(u) PROVE Still(u[k])
  BY <1>3 DEF Calm
<1>5. QED
  BY <1>2, <1>3, <1>4 DEF Calm

LEMMA CalmNone ==
  Calm(<<>>)
<1>1. <<>> \in Seq({}) /\ Len(<<>>) = 0
  OBVIOUS
<1>2. QED
  BY <1>1 DEF Calm

LEMMA CalmOne ==
  ASSUME NEW x, Still(x)
  PROVE  Calm(<<x>>)
<1>1. <<x>> \in Seq({x}) /\ Len(<<x>>) = 1 /\ <<x>>[1] = x
  OBVIOUS
<1>2. \A k \in 1..1 : k = 1
  OBVIOUS
<1>3. \A k \in 1..Len(<<x>>) : <<x>>[k] = x
  BY <1>1, <1>2
<1>4. QED
  BY <1>1, <1>3, Zenon DEF Calm

LEMMA CalmTail ==
  ASSUME NEW s, Calm(s), s # <<>>
  PROVE  Calm(Tail(s)) /\ Still(Head(s))
<1>1. PICK S : s \in Seq(S)
  BY DEF Calm
<1>2. PICK t : t = Tail(s)
  OBVIOUS
<1>3. /\ t \in Seq(S) /\ Len(t) = Len(s) - 1 /\ Len(s) \in Nat \ {0}
      /\ \A k \in 1..Len(t) : t[k] = s[k + 1]
      /\ Head(s) = s[1]
  BY <1>1, <1>2
<1>4. ASSUME NEW k \in 1..Len(t) PROVE Still(t[k])
  <2>1. k + 1 \in 1..Len(s)
    BY <1>3
  <2>2. QED
    BY <1>3, <2>1 DEF Calm
<1>5. Calm(t)
  BY <1>3, <1>4 DEF Calm
<1>6. 1 \in 1..Len(s)
  BY <1>3
<1>7. QED
  BY <1>2, <1>3, <1>5, <1>6 DEF Calm

LEMMA CalmSend ==
  ASSUME NEW name, NEW value, name \notin {"add", "remove"}
  PROVE  Calm(Send(name, value))
<1>1. Still(<<"send", <<name, value>> >>)
  BY DEF Still
<1>2. QED
  BY <1>1, CalmOne DEF Send

LEMMA CalmIf ==
  ASSUME NEW line, NEW v, NEW steps, Calm(steps) \/ Given(line, v) = {}
  PROVE  Calm(If(line, v, steps))
  BY CalmNone DEF If

\* The settings say nothing of presets.
LEMMA SettingsCalm ==
  ASSUME NEW line
  PROVE  Calm(SettingSends(line))
<1> DEFINE set(v) == If(line, v, Send(v, Stored(line, v)))
<1>1. /\ Calm(set("switch")) /\ Calm(set("sensitivity")) /\ Calm(set("led"))
      /\ Calm(set("save")) /\ Calm(set("ir")) /\ Calm(set("rotate"))
      /\ Calm(set("setalertallowstate_human"))
      /\ Calm(set("aihumandetection")) /\ Calm(set("aivehicledetection"))
      /\ Calm(set("aianimaldetection")) /\ Calm(set("aimotiondetection"))
      /\ Calm(set("facedetection")) /\ Calm(set("motiontracking")) /\ Calm(set("mic"))
      /\ Calm(set("sounddetection")) /\ Calm(set("babycrying"))
      /\ Calm(set("soundsensitivity"))
  BY CalmSend, CalmIf
<1> HIDE DEF set
<1>2. Calm(set("switch") \o set("sensitivity") \o set("led") \o set("save") \o set("ir"))
  BY <1>1, CalmBoth
<1>3. Calm(set("switch") \o set("sensitivity") \o set("led") \o set("save") \o set("ir")
           \o set("rotate") \o set("setalertallowstate_human")
           \o set("aihumandetection") \o set("aivehicledetection")
           \o set("aianimaldetection"))
  BY <1>1, <1>2, CalmBoth
<1>4. Calm(set("switch") \o set("sensitivity") \o set("led") \o set("save") \o set("ir")
           \o set("rotate") \o set("setalertallowstate_human")
           \o set("aihumandetection") \o set("aivehicledetection")
           \o set("aianimaldetection") \o set("aimotiondetection") \o set("facedetection")
           \o set("motiontracking") \o set("mic") \o set("sounddetection"))
  BY <1>1, <1>3, CalmBoth
<1>5. Calm(set("switch") \o set("sensitivity") \o set("led") \o set("save") \o set("ir")
           \o set("rotate") \o set("setalertallowstate_human")
           \o set("aihumandetection") \o set("aivehicledetection")
           \o set("aianimaldetection") \o set("aimotiondetection") \o set("facedetection")
           \o set("motiontracking") \o set("mic") \o set("sounddetection")
           \o set("babycrying") \o set("soundsensitivity"))
  BY <1>1, <1>4, CalmBoth
<1>6. QED
  BY <1>5 DEF SettingSends, set

\* A command line that leaves the presets alone sends nothing about them.
SetsNoPreset(line) ==
  /\ \A v \in {"add_preset", "set_home_position", "remove_preset"} : Given(line, v) = {}
  /\ Given(line, "file") # {} => Stored(line, "file")[1] \notin {"add", "remove"}

LEMMA ProgramCalm ==
  ASSUME NEW line, SetsNoPreset(line)
  PROVE  Calm(Launched(line))
<1> DEFINE of(v) == Stored(line, v)
           a1 == SettingSends(line)
           a2 == If(line, "move", MoveSends(of("move")))
           a3 == If(line, "jump-abs", << <<"jump-abs", of("jump-abs")>> >>)
           a4 == If(line, "jump-rel", << <<"jump-rel", of("jump-rel")>> >>)
           a5 == If(line, "preset", GotoSends(Read(of("preset"))))
           a6 == If(line, "add_preset", Send("add", ""))
           a7 == If(line, "get-pos", << <<"get-pos", "">> >>)
           a8 == If(line, "set_home_position", HomeSends)
           a9 == If(line, "remove_preset", RemoveSends(Read(of("remove_preset"))))
           b1 == If(line, "cruise", CruiseSends(of("cruise")))
           b2 == If(line, "file", << <<"file", of("file")>> >>)
           b3 == If(line, "xxx", Send("xxx", ""))
<1>1. Calm(a1)
  BY SettingsCalm
<1>2. Calm(a2)
  BY CalmSend, CalmIf DEF MoveSends
<1>3. ASSUME NEW v \in {"jump-abs", "jump-rel", "get-pos"}, NEW a
      PROVE  Calm(If(line, v, << <<v, a>> >>))
  <2>1. Still(<<v, a>>)
    BY DEF Still
  <2>2. QED
    BY <2>1, CalmOne, CalmIf
<1>4. Calm(a3) /\ Calm(a4) /\ Calm(a7)
  BY <1>3
<1>5. Calm(a5)
  <2>1. Calm(GotoSends(Read(of("preset"))))
    BY CalmSend, CalmNone DEF GotoSends
  <2>2. QED
    BY <2>1, CalmIf
<1>6. Calm(a6) /\ Calm(a8) /\ Calm(a9)
  BY CalmIf DEF SetsNoPreset
<1>7. Calm(b1)
  <2>1. PICK m : m = of("cruise")
    OBVIOUS
  <2>2. /\ Calm(IF m = "off" THEN Send("cruise", "off") ELSE Send("cruise", "on"))
        /\ Calm(IF m \in {"presets", "360"} THEN Send("cruise", m) ELSE <<>>)
    BY CalmSend, CalmNone
  <2>3. Calm(CruiseSends(m))
    BY <2>2, CalmBoth DEF CruiseSends
  <2>4. QED
    BY <2>1, <2>3, CalmIf
<1>8. Calm(b2)
  <2>1. CASE Given(line, "file") = {}
    BY <2>1, CalmIf
  <2>2. CASE Given(line, "file") # {}
    <3>1. Still(<<"file", of("file")>>)
      BY <2>2 DEF SetsNoPreset, Still
    <3>2. QED
      BY <3>1, CalmOne, CalmIf
  <2>3. QED
    BY <2>1, <2>2
<1>9. Calm(b3)
  BY CalmSend, CalmIf
<1>10. Program(line) =
         a1 \o a2 \o a3 \o a4 \o a5 \o a6 \o a7 \o a8 \o a9 \o b1 \o b2 \o b3
  BY DEF Program
<1> HIDE DEF a1, a2, a3, a4, a5, a6, a7, a8, a9, b1, b2, b3
<1>11. Calm(a1 \o a2 \o a3 \o a4 \o a5 \o a6)
  BY <1>1, <1>2, <1>4, <1>5, <1>6, CalmBoth
<1>12. Calm(a1 \o a2 \o a3 \o a4 \o a5 \o a6 \o a7 \o a8 \o a9 \o b1 \o b2 \o b3)
  BY <1>4, <1>6, <1>7, <1>8, <1>9, <1>11, CalmBoth
<1>13. QED
  BY <1>10, <1>12, CalmNone DEF Launched

\* What the calls of the script send that set presets.
LEMMA PresetLine ==
  ASSUME NEW o \in {"add_preset", "remove_preset", "set_home_position"}, NEW a
  PROVE  Launched(<< <<o, a>> >>) =
           CASE o = "add_preset" -> Send("add", "")
             [] o = "set_home_position" -> HomeSends
             [] o = "remove_preset" -> IF Read(a) \in Slots \cup {All} THEN RemoveSends(Read(a))
                                                                   ELSE <<>>
<1> DEFINE line == << <<o, a>> >>
           sends == CASE o = "add_preset" -> Send("add", "")
                      [] o = "set_home_position" -> HomeSends
                      [] o = "remove_preset" -> RemoveSends(Read(a))
<1>1. /\ DOMAIN line = 1..1 /\ Len(line) = 1 /\ line[1] = <<o, a>>
      /\ \A v : Given(line, v) = IF Variable(o) = v /\ Accepted(o, a) THEN {1} ELSE {}
  BY OneOption
<1> HIDE DEF line
<1>2. o \notin DOMAIN Words /\ Variable(o) = o
  BY OptionsWithWords DEF Variable
<1>3. Accepted(o, a) <=> o # "remove_preset" \/ Read(a) \in Slots \cup {All}
  BY <1>2 DEF Accepted
<1>4. Refused(line) <=> ~Accepted(o, a)
  <2>1. \A k : k \in 1..1 <=> k = 1
    OBVIOUS
  <2>2. line # <<>>
    BY <1>1
  <2>3. QED
    BY <1>1, <2>1, <2>2 DEF Refused
<1>5. CASE ~Accepted(o, a)
  BY <1>3, <1>4, <1>5 DEF Launched, line
<1>6. CASE Accepted(o, a)
  <2>1. Given(line, o) = {1} /\ \A v : v # o => Given(line, v) = {}
    BY <1>1, <1>2, <1>6
  <2>2. Stored(line, o) = a
    <3> DEFINE k == CHOOSE k \in Given(line, o) : \A j \in Given(line, o) : j <= k
    <3>1. 1 \in Given(line, o) /\ \A j \in Given(line, o) : j <= 1
      BY <2>1
    <3>2. k \in Given(line, o)
      BY <3>1
    <3>3. k = 1
      BY <2>1, <3>2
    <3>4. Stored(line, o) = IF line[k][1] \in DOMAIN Words
                              THEN Words[line[k][1]][line[k][2]] ELSE line[k][2]
      BY DEF Stored
    <3> HIDE DEF k
    <3>5. line[k][1] = o /\ line[k][2] = a
      BY <1>1, <3>3
    <3>6. QED
      BY <1>2, <3>4, <3>5
  <2>3. \A v, steps : v # o => If(line, v, steps) = <<>>
    BY <2>1 DEF If
  <2>4. \A steps : If(line, o, steps) = steps
    BY <2>1 DEF If
  <2>5. SettingSends(line) = <<>>
    BY <2>3 DEF SettingSends
  <2>6. Quiet(Send("add", "")) /\ Quiet(HomeSends) /\ Quiet(RemoveSends(Read(a)))
    BY QuietSend, QuietBoth, RemoveQuiet DEF HomeSends
  <2>7. \A s : Quiet(s) => s \o <<>> = s /\ <<>> \o s = s
    BY DEF Quiet
  <2> DEFINE m == sends
  <2>8. Quiet(m)
    BY <2>6
  <2>9. \/ Program(line) = <<>> \o <<>> \o <<>> \o <<>> \o <<>> \o m \o <<>> \o <<>>
                             \o <<>> \o <<>> \o <<>> \o <<>>
        \/ Program(line) = <<>> \o <<>> \o <<>> \o <<>> \o <<>> \o <<>> \o <<>> \o m
                             \o <<>> \o <<>> \o <<>> \o <<>>
        \/ Program(line) = <<>> \o <<>> \o <<>> \o <<>> \o <<>> \o <<>> \o <<>> \o <<>>
                             \o m \o <<>> \o <<>> \o <<>>
    <3>1. CASE o = "add_preset"
      <4>1. m = Send("add", "") /\ o # "set_home_position" /\ o # "remove_preset"
        BY <3>1
      <4> HIDE DEF m
      <4>2. If(line, "add_preset", Send("add", "")) = m
        BY <2>4, <3>1, <4>1
      <4>3. QED
        BY <2>3, <2>5, <3>1, <4>1, <4>2 DEF Program
    <3>2. CASE o = "set_home_position"
      <4>1. m = HomeSends /\ o # "add_preset" /\ o # "remove_preset"
        BY <3>2
      <4> HIDE DEF m
      <4>2. If(line, "set_home_position", HomeSends) = m
        BY <2>2, <2>4, <3>2, <4>1
      <4>3. QED
        BY <2>3, <2>5, <3>2, <4>1, <4>2 DEF Program
    <3>3. CASE o = "remove_preset"
      <4>1. m = RemoveSends(Read(a)) /\ o # "add_preset" /\ o # "set_home_position"
        BY <3>3
      <4> HIDE DEF m
      <4>2. If(line, "remove_preset", RemoveSends(Read(Stored(line, o)))) = m
        BY <2>2, <2>4, <3>3, <4>1
      <4>3. QED
        BY <2>3, <2>5, <3>3, <4>1, <4>2 DEF Program
    <3>4. QED
      BY <3>1, <3>2, <3>3
  <2> HIDE DEF m
  <2>10. Program(line) = m
    <3>1. m \o <<>> = m /\ <<>> \o m = m /\ <<>> \o <<>> = <<>>
      BY <2>7, <2>8, QuietNone
    <3>2. QED
      BY <2>9, <3>1
  <2>11. Launched(line) = sends
    BY <1>4, <1>6, <2>10 DEF Launched, m
  <2>12. QED
    BY <1>3, <1>6, <2>11 DEF line
<1>7. QED
  BY <1>5, <1>6

\* What ipc_cmd has still to send about presets, and where that leads from Y.
Removes(t) ==
  /\ \E S : t \in Seq(S)
  /\ \A k \in 1..Len(t) : t[k][1] = "send" /\ t[k][2][1] = "remove"
Gone(t) == {t[k][2][2] : k \in 1..Len(t)}

Sends(t, Y, Z) ==
  \/ Calm(t) /\ Z = Y
  \/ t = Send("add", "") /\ Z = Filled(Y)
  \/ t = HomeSends /\ Z = Filled(Y \ {0})
  \/ Removes(t) /\ Z = Y \ Gone(t)

LEMMA OneOrTwo ==
  ASSUME NEW x, NEW y
  PROVE  /\ Head(<<x>>) = x /\ Tail(<<x>>) = <<>>
         /\ Head(<<x, y>>) = x /\ Tail(<<x, y>>) = <<y>>
         /\ <<x>> \o <<y>> = <<x, y>> /\ <<x, y>> # <<>>
<1>1. Head(<<x>>) = x /\ Tail(<<x>>) = <<>>
  OBVIOUS
<1>2. Head(<<x, y>>) = x /\ Tail(<<x, y>>) = <<y>>
  OBVIOUS
<1>3. <<x, y>> # <<>>
  OBVIOUS
<1>4. <<x>> \o <<y>> = <<x, y>>
  <2>1. <<x>> \in Seq({x, y}) /\ <<y>> \in Seq({x, y}) /\ <<x, y>> \in Seq({x, y})
    OBVIOUS
  <2>2. PICK u, w : u = <<x>> \o <<y>> /\ w = <<x, y>>
    OBVIOUS
  <2>3. u \in Seq({x, y}) /\ Len(u) = 2 /\ u[1] = x /\ u[2] = y
    BY <2>1, <2>2
  <2>4. w \in Seq({x, y}) /\ Len(w) = 2 /\ w[1] = x /\ w[2] = y
    BY <2>1, <2>2
  <2>5. \A k \in 1..2 : u[k] = w[k]
    BY <2>3, <2>4
  <2>6. u = w
    BY <2>3, <2>4, <2>5
  <2>7. QED
    BY <2>2, <2>6
<1>5. QED
  BY <1>1, <1>2, <1>3, <1>4

LEMMA Message ==
  ASSUME NEW h, NEW a, NEW b, h = <<"send", <<a, b>> >>
  PROVE  h[1] = "send" /\ h[2] = <<a, b>> /\ h[2][1] = a /\ h[2][2] = b
  OBVIOUS

LEMMA HomeIsTwo ==
  HomeSends = << <<"send", <<"remove", 0>> >>, <<"send", <<"add", "">> >> >>
<1>1. PICK x, y : x = <<"send", <<"remove", 0>> >> /\ y = <<"send", <<"add", "">> >>
  OBVIOUS
<1>2. HomeSends = <<x>> \o <<y>>
  BY <1>1 DEF HomeSends, Send
<1>3. QED
  BY <1>1, <1>2, OneOrTwo

LEMMA FilledOfSlots ==
  ASSUME NEW X, X \subseteq Slots
  PROVE  Filled(X) \subseteq Slots
<1>1. Slots \ X # {} => First(Slots \ X) \in Slots
  BY FirstIsLeast
<1>2. QED
  BY <1>1 DEF Filled

LEMMA SendsOfSlots ==
  ASSUME NEW t, NEW Y, NEW Z, Sends(t, Y, Z), Y \subseteq Slots
  PROVE  Z \subseteq Slots
<1>1. Filled(Y) \subseteq Slots /\ Filled(Y \ {0}) \subseteq Slots
  BY FilledOfSlots
<1>2. QED
  BY <1>1 DEF Sends

LEMMA SendsNone ==
  ASSUME NEW Y, NEW Z
  PROVE  Sends(<<>>, Y, Z) <=> Z = Y
<1>1. <<>> # Send("add", "")
  BY DEF Send
<1>2. <<>> # HomeSends
  BY HomeIsTwo, OneOrTwo
<1>3. Gone(<<>>) = {}
  <2>1. Len(<<>>) = 0
    OBVIOUS
  <2>2. QED
    BY <2>1 DEF Gone
<1>4. Calm(<<>>)
  BY CalmNone
<1>5. QED
  BY <1>1, <1>2, <1>3, <1>4 DEF Sends

\* A message is sent.
LEMMA SendsTail ==
  ASSUME NEW t, NEW Y, NEW Z, Sends(t, Y, Z), t # <<>>, Head(t)[1] = "send"
  PROVE  Sends(Tail(t), Turn(Y, Head(t)[2]), Z)
<1>1. CASE Calm(t) /\ Z = Y
  <2>1. Calm(Tail(t)) /\ Turn(Y, Head(t)[2]) = Y
    BY <1>1, CalmTail DEF Still, Turn
  <2>2. QED
    BY <1>1, <2>1 DEF Sends
<1>2. CASE t = Send("add", "") /\ Z = Filled(Y)
  <2>0. Head(t) = <<"send", <<"add", "">> >> /\ Tail(t) = <<>>
    BY <1>2, OneOrTwo DEF Send
  <2>h. PICK h : h = Head(t)
    OBVIOUS
  <2>i. h[2][1] = "add"
    BY <2>0, <2>h, Message
  <2>1. Head(t)[2][1] = "add"
    BY <2>h, <2>i, Zenon
  <2>2. Turn(Y, Head(t)[2]) = Z
    BY <1>2, <2>1 DEF Turn
  <2>3. Sends(<<>>, Z, Z)
    BY SendsNone
  <2>4. QED
    BY <2>0, <2>2, <2>3
<1>3. CASE t = HomeSends /\ Z = Filled(Y \ {0})
  <2>1. Head(t) = <<"send", <<"remove", 0>> >> /\ Tail(t) = << <<"send", <<"add", "">> >> >>
    BY <1>3, HomeIsTwo, OneOrTwo
  <2>h. PICK h : h = Head(t)
    OBVIOUS
  <2>i. h = <<"send", <<"remove", 0>> >>
    BY <2>1, <2>h
  <2>j. h[2][1] = "remove" /\ h[2][2] = 0
    BY <2>i, Message, Zenon
  <2>2. Head(t)[2][1] = "remove" /\ Head(t)[2][2] = 0 /\ Tail(t) = Send("add", "")
    BY <2>1, <2>h, <2>j, Zenon DEF Send
  <2>3. Turn(Y, Head(t)[2]) = Y \ {0}
    BY <2>2 DEF Turn
  <2>4. QED
    BY <1>3, <2>2, <2>3 DEF Sends
<1>4. CASE Removes(t) /\ Z = Y \ Gone(t)
  <2>1. PICK S : t \in Seq(S)
    BY <1>4 DEF Removes
  <2>2. PICK u : u = Tail(t)
    OBVIOUS
  <2>3. /\ u \in Seq(S) /\ Len(u) = Len(t) - 1 /\ Len(t) \in Nat \ {0}
        /\ \A k \in 1..Len(u) : u[k] = t[k + 1]
        /\ Head(t) = t[1]
    BY <2>1, <2>2
  <2>4. \A k \in 1..Len(u) : k + 1 \in 1..Len(t)
    BY <2>3
  <2>5. Removes(u)
    BY <1>4, <2>3, <2>4 DEF Removes
  <2>6. 1 \in 1..Len(t) /\ \A k \in 1..Len(t) : k = 1 \/ (k - 1 \in 1..Len(u) /\ (k - 1) + 1 = k)
    BY <2>3
  <2>7. Gone(t) = {t[1][2][2]} \cup Gone(u)
    <3>1. ASSUME NEW g \in Gone(t) PROVE g \in {t[1][2][2]} \cup Gone(u)
      <4>1. PICK k \in 1..Len(t) : g = t[k][2][2]
        BY DEF Gone
      <4>2. CASE k = 1
        BY <4>1, <4>2
      <4>3. CASE k - 1 \in 1..Len(u) /\ (k - 1) + 1 = k
        <5>1. u[k - 1] = t[k]
          BY <2>3, <4>3
        <5>2. g = u[k - 1][2][2]
          BY <4>1, <5>1
        <5>3. QED
          BY <4>3, <5>2 DEF Gone
      <4>4. QED
        BY <2>6, <4>2, <4>3
    <3>2. ASSUME NEW g \in {t[1][2][2]} \cup Gone(u) PROVE g \in Gone(t)
      BY <2>3, <2>4, <2>6 DEF Gone
    <3>3. QED
      BY <3>1, <3>2
  <2>8. Turn(Y, Head(t)[2]) = Y \ {t[1][2][2]}
    BY <1>4, <2>3, <2>6 DEF Turn, Removes
  <2>9. Z = (Y \ {t[1][2][2]}) \ Gone(u)
    BY <1>4, <2>7
  <2>10. QED
    BY <2>2, <2>5, <2>8, <2>9 DEF Sends
<1>5. QED
  BY <1>1, <1>2, <1>3, <1>4 DEF Sends

\* A step that sends nothing yet is before no message about presets.
LEMMA SendsOther ==
  ASSUME NEW t, NEW Y, NEW Z, Sends(t, Y, Z), t # <<>>, Head(t)[1] # "send"
  PROVE  Calm(t) /\ Z = Y
<1>1. t # Send("add", "")
  <2>1. Head(Send("add", "")) = <<"send", <<"add", "">> >>
    BY OneOrTwo DEF Send
  <2>2. Head(Send("add", ""))[1] = "send"
    BY <2>1, Message
  <2>3. QED
    BY <2>2
<1>2. t # HomeSends
  <2>1. Head(HomeSends) = <<"send", <<"remove", 0>> >>
    BY HomeIsTwo, OneOrTwo
  <2>2. Head(HomeSends)[1] = "send"
    BY <2>1, Message
  <2>3. QED
    BY <2>2
<1>3. ~Removes(t)
  <2>1. ASSUME Removes(t) PROVE FALSE
    <3>1. PICK S : t \in Seq(S)
      BY <2>1 DEF Removes
    <3>2. 1 \in 1..Len(t) /\ Head(t) = t[1]
      BY <3>1
    <3>3. QED
      BY <2>1, <3>2 DEF Removes
  <2>2. QED
    BY <2>1
<1>4. QED
  BY <1>1, <1>2, <1>3 DEF Sends

\* The numbers that a removal takes out of the camera, and out of the table.
Removed(n) == IF n = All THEN Slots ELSE {n}
Dropped(text) == {s \in Slots : Deletes(text, s)}

\* A number that both take.
Shared(text) ==
  Accepted("remove_preset", text) => \E s \in Slots : Deletes(text, s)

LEMMA RemovesRemoved ==
  ASSUME NEW n
  PROVE  Removes(RemoveSends(n)) /\ Gone(RemoveSends(n)) = Removed(n)
<1>1. CASE n = All
  <2> DEFINE x(k) == <<"send", <<"remove", k - 1>> >>
             s == [k \in 1..NumPresets |-> x(k)]
  <2>1. RemoveSends(n) = s
    BY <1>1 DEF RemoveSends, Send
  <2>2. s \in Seq({x(k) : k \in 1..NumPresets}) /\ Len(s) = NumPresets
    <3>1. s \in [1..NumPresets -> {x(k) : k \in 1..NumPresets}]
      OBVIOUS
    <3>2. QED
      BY <3>1, IpcCmdAssumption, Listed
  <2>3. \A k \in 1..NumPresets : s[k] = <<"send", <<"remove", k - 1>> >>
    OBVIOUS
  <2> HIDE DEF s
  <2>4. \A k \in 1..NumPresets : s[k][1] = "send" /\ s[k][2][1] = "remove" /\ s[k][2][2] = k - 1
    BY <2>3
  <2>5. Removes(s)
    BY <2>2, <2>4 DEF Removes
  <2>6. Gone(s) = {k - 1 : k \in 1..NumPresets}
    BY <2>2, <2>4 DEF Gone
  <2>7. {k - 1 : k \in 1..NumPresets} = Slots
    <3>1. ASSUME NEW i \in Slots PROVE i + 1 \in 1..NumPresets /\ i = (i + 1) - 1
      BY IpcCmdAssumption DEF Slots
    <3>2. ASSUME NEW k \in 1..NumPresets PROVE k - 1 \in Slots
      BY IpcCmdAssumption DEF Slots
    <3>3. QED
      BY <3>1, <3>2
  <2>8. QED
    BY <1>1, <2>1, <2>5, <2>6, <2>7 DEF Removed
<1>2. CASE n # All
  <2> DEFINE s == << <<"send", <<"remove", n>> >> >>
  <2>1. RemoveSends(n) = s
    BY <1>2 DEF RemoveSends, Send
  <2>2. s \in Seq({s[1]}) /\ Len(s) = 1 /\ s[1] = <<"send", <<"remove", n>> >>
    OBVIOUS
  <2> HIDE DEF s
  <2>3. \A k \in 1..Len(s) : k = 1
    BY <2>2
  <2>4. 1 \in 1..Len(s)
    BY <2>2
  <2>5. s[1][1] = "send" /\ s[1][2][1] = "remove" /\ s[1][2][2] = n
    BY <2>2
  <2>6. Removes(s)
    BY <2>2, <2>3, <2>5 DEF Removes
  <2>7. Gone(s) = {n}
    BY <2>3, <2>4, <2>5 DEF Gone
  <2>8. QED
    BY <1>2, <2>1, <2>6, <2>7 DEF Removed
<1>3. QED
  BY <1>1, <1>2

LEMMA Texts ==
  ASSUME NEW s \in Slots
  PROVE  /\ Read(Plain(s)) = s /\ Read(AllWord) = All /\ s # All
         /\ Plain(s) # AllWord
         /\ \A t : Plain(t) = Plain(s) => t = s
<1>1. s # All
  BY IpcCmdAssumption DEF Slots, All
<1>2. Read(Plain(s)) = s /\ Read(AllWord) = All
  BY DEF Read, Plain, AllWord
<1>3. Plain(s)[1] = "plain" /\ AllWord[1] = "word"
  BY DEF Plain, AllWord
<1>4. \A t : Read(Plain(t)) = t
  BY DEF Read, Plain
<1>5. QED
  BY <1>1, <1>2, <1>3, <1>4

LEMMA Removable ==
  ASSUME NEW text
  PROVE  Accepted("remove_preset", text) <=> Read(text) \in Slots \cup {All}
<1>1. "remove_preset" \notin DOMAIN Words
  BY OptionsWithWords
<1>2. QED
  BY <1>1 DEF Accepted

\* What both take is the same for both; what ipc_cmd does not take names no line.
LEMMA DroppedIsRemoved ==
  ASSUME NEW text, Shared(text)
  PROVE  Dropped(text) = IF Read(text) \in Slots \cup {All} THEN Removed(Read(text)) ELSE {}
<1>1. \A s \in Slots : Deletes(text, s) <=> text = Plain(s) \/ text = AllWord
  BY DEF Deletes
<1>2. CASE text = AllWord
  <2>1. Read(text) = All
    BY <1>2 DEF Read, AllWord
  <2>2. Dropped(text) = Slots
    BY <1>1, <1>2 DEF Dropped
  <2>3. QED
    BY <2>1, <2>2 DEF Removed
<1>3. ASSUME NEW s \in Slots, text = Plain(s)
      PROVE  Dropped(text) = Removed(Read(text)) /\ Read(text) \in Slots
  <2>1. Read(text) = s /\ s # All /\ text # AllWord /\ \A t : text = Plain(t) => t = s
    BY <1>3, Texts
  <2>2. \A t \in Slots : Deletes(text, t) <=> t = s
    BY <1>1, <1>3, <2>1
  <2>3. Dropped(text) = {s}
    BY <2>2 DEF Dropped
  <2>4. QED
    BY <2>1, <2>3 DEF Removed
<1>4. CASE text # AllWord /\ \A s \in Slots : text # Plain(s)
  <2>1. \A s \in Slots : ~Deletes(text, s)
    BY <1>1, <1>4
  <2>2. Read(text) \notin Slots \cup {All}
    BY <2>1, Removable DEF Shared
  <2>3. QED
    BY <2>1, <2>2 DEF Dropped
<1>5. QED
  BY <1>2, <1>3, <1>4

\* What a script has still to do that asks for no change of the camera's presets the
\* names do not wait for themselves.
InTurn(w) ==
  \/ w = <<>>
  \/ \E n : \/ w = << Call("get-pos", ""), <<"add", n>>, Call("add_preset", n) >>
            \/ w = << <<"add", n>>, Call("add_preset", n) >>
            \/ w = << <<"del", n>>, Call("remove_preset", n) >> /\ Shared(n)
            \/ w = << Call("preset", n) >>
            \/ w = << Call("move", n), Call("move", "stop") >>
            \/ w = << Call("move", n) >>
  \/ w = << <<"del", Plain(0)>>, <<"add", "Home">>, Call("set_home_position", "") >>

\* The names T are ahead of the camera's presets X by what the script calls next.
Ahead(w, X, T) ==
  \/ \E n : w = << Call("add_preset", n) >> /\ T = Filled(X)
  \/ \E n : w = << Call("remove_preset", n) >> /\ T = X \ Dropped(n) /\ Shared(n)
  \/ w = << Call("set_home_position", "") >> /\ T = Filled(X \ {0})
  \/ w = << <<"add", "Home">>, Call("set_home_position", "") >> /\ T = X \ {0}

Later(t, w, X, T) == (InTurn(w) /\ T = X) \/ (t = <<>> /\ Ahead(w, X, T))

LEMMA Three ==
  ASSUME NEW x, NEW y, NEW z
  PROVE  Head(<<x, y, z>>) = x /\ Tail(<<x, y, z>>) = <<y, z>> /\ <<x, y, z>> # <<>>
  OBVIOUS

\* A step of a script that changes the table is not a call.
LEMMA ChangeIs ==
  ASSUME NEW x, NEW y
  PROVE  <<x, y>>[1] = x /\ <<x, y>>[2] = y
  OBVIOUS

LEMMA NotACall ==
  ASSUME NEW h, NEW n, h = <<"add", n>> \/ h = <<"del", n>>
  PROVE  /\ h[1] # "call" /\ h[2] = n
         /\ h = <<"add", n>> => h[1] = "add"
         /\ h = <<"del", n>> => h[1] = "del"
<1>1. CASE h = <<"add", n>>
  <2>1. h[1] = "add" /\ h[2] = n
    BY <1>1
  <2>2. "add" # "call" /\ "del" # "add"
    OBVIOUS
  <2>3. h # <<"del", n>>
    BY <2>1, <2>2
  <2>4. QED
    BY <2>1, <2>2, <2>3
<1>2. CASE h = <<"del", n>>
  <2>1. h[1] = "del" /\ h[2] = n
    BY <1>2
  <2>2. "del" # "call" /\ "del" # "add"
    OBVIOUS
  <2>3. h # <<"add", n>>
    BY <2>1, <2>2
  <2>4. QED
    BY <2>1, <2>2, <2>3
<1>3. QED
  BY <1>1, <1>2, Zenon

LEMMA HomeScript ==
  ASSUME NEW w, NEW n, w = << <<"del", n>>, <<"add", "Home">>, Call("set_home_position", "") >>
  PROVE  /\ Head(w) = <<"del", n>>
         /\ Tail(w) = << <<"add", "Home">>, Call("set_home_position", "") >>
<1>1. PICK x : x = <<"del", n>>
  OBVIOUS
<1>2. PICK y : y = <<"add", "Home">>
  OBVIOUS
<1>3. PICK z : z = Call("set_home_position", "")
  OBVIOUS
<1>4. w = <<x, y, z>>
  BY <1>1, <1>2, <1>3
<1>5. Head(<<x, y, z>>) = x /\ Tail(<<x, y, z>>) = <<y, z>>
  BY Three
<1>6. QED
  BY <1>1, <1>2, <1>3, <1>4, <1>5

LEMMA CallIs ==
  ASSUME NEW o, NEW a
  PROVE  Call(o, a)[1] = "call" /\ Call(o, a)[2] = << <<o, a>> >>
  BY DEF Call

LEMMA ScriptInTurn ==
  ASSUME NEW q \in Requests, ~Parts(q)
  PROVE  InTurn(Script(q))
<1>1. q[1] \in {"add", "del", "home", "go", "move"}
  BY PresetsAssumption DEF Parts
<1>2. CASE q[1] = "add"
  <2>1. Script(q) = << Call("get-pos", ""), <<"add", q[2]>>, Call("add_preset", q[2]) >>
    BY <1>2 DEF Script
  <2>2. QED
    BY <2>1 DEF InTurn
<1>3. CASE q[1] = "del"
  <2>1. Script(q) = << <<"del", q[2]>>, Call("remove_preset", q[2]) >>
    BY <1>3 DEF Script
  <2>2. Shared(q[2])
    BY <1>3 DEF Parts, Shared
  <2>3. QED
    BY <2>1, <2>2 DEF InTurn
<1>4. CASE q[1] = "home"
  <2>1. Script(q) = << <<"del", Plain(0)>>, <<"add", "Home">>, Call("set_home_position", "") >>
    BY <1>4 DEF Script
  <2>2. QED
    BY <2>1 DEF InTurn
<1>5. CASE q[1] = "go"
  <2>1. Script(q) = << Call("preset", q[2]) >> \/ Script(q) = <<>>
    BY <1>5 DEF Script
  <2>2. QED
    BY <2>1 DEF InTurn
<1>6. CASE q[1] = "move"
  <2>1. Script(q) = << Call("move", q[2]), Call("move", "stop") >>
    BY <1>6 DEF Script, MoveScript
  <2>2. QED
    BY <2>1 DEF InTurn
<1>7. QED
  BY <1>1, <1>2, <1>3, <1>4, <1>5, <1>6

\* The other calls of the scripts send nothing about presets.
LEMMA OtherLine ==
  ASSUME NEW o \in {"get-pos", "preset", "move"}, NEW a
  PROVE  Calm(Launched(<< <<o, a>> >>))
<1>1. Variable(o) \notin {"add_preset", "set_home_position", "remove_preset", "file"}
  BY DEF Variable
<1>2. SetsNoPreset(<< <<o, a>> >>)
  BY <1>1, OneOption DEF SetsNoPreset
<1>3. QED
  BY <1>2, ProgramCalm

LEMMA CallInTurn ==
  ASSUME NEW w, InTurn(w), w # <<>>, Head(w)[1] = "call"
  PROVE  Calm(Launched(Head(w)[2])) /\ InTurn(Tail(w))
<1>1. ASSUME NEW n, w = << Call("get-pos", ""), <<"add", n>>, Call("add_preset", n) >>
      PROVE  Calm(Launched(Head(w)[2])) /\ InTurn(Tail(w))
  <2>1. Head(w) = Call("get-pos", "") /\ Tail(w) = << <<"add", n>>, Call("add_preset", n) >>
    BY <1>1, Three
  <2>2. Head(w)[2] = << <<"get-pos", "">> >>
    BY <2>1, CallIs
  <2>3. Calm(Launched(Head(w)[2]))
    BY <2>2, OtherLine
  <2>4. InTurn(Tail(w))
    BY <2>1 DEF InTurn
  <2>5. QED
    BY <2>3, <2>4
<1>2. ASSUME NEW n, \/ w = << <<"add", n>>, Call("add_preset", n) >>
                    \/ w = << <<"del", n>>, Call("remove_preset", n) >>
                    \/ w = << <<"del", n>>, <<"add", "Home">>, Call("set_home_position", "") >>
      PROVE  FALSE
  <2>1. PICK h : h = Head(w)
    OBVIOUS
  <2>2. h = <<"add", n>> \/ h = <<"del", n>>
    <3>1. CASE w = << <<"add", n>>, Call("add_preset", n) >>
      BY <2>1, <3>1, OneOrTwo
    <3>2. CASE w = << <<"del", n>>, Call("remove_preset", n) >>
      BY <2>1, <3>2, OneOrTwo
    <3>3. CASE w = << <<"del", n>>, <<"add", "Home">>, Call("set_home_position", "") >>
      BY <2>1, <3>3, HomeScript
    <3>4. QED
      BY <1>2, <3>1, <3>2, <3>3, Zenon
  <2>3. h[1] # "call"
    BY <2>2, NotACall
  <2>4. QED
    BY <2>1, <2>3
<1>3. ASSUME NEW o \in {"preset", "move"}, NEW n, w = << Call(o, n) >>
      PROVE  Calm(Launched(Head(w)[2])) /\ InTurn(Tail(w))
  <2>1. Head(w) = Call(o, n) /\ Tail(w) = <<>>
    BY <1>3, OneOrTwo
  <2>2. Head(w)[2] = << <<o, n>> >>
    BY <2>1, CallIs
  <2>3. Calm(Launched(Head(w)[2]))
    BY <2>2, OtherLine
  <2>4. InTurn(Tail(w))
    BY <2>1 DEF InTurn
  <2>5. QED
    BY <2>3, <2>4
<1>4. ASSUME NEW n, w = << Call("move", n), Call("move", "stop") >>
      PROVE  Calm(Launched(Head(w)[2])) /\ InTurn(Tail(w))
  <2>1. Head(w) = Call("move", n) /\ Tail(w) = << Call("move", "stop") >>
    BY <1>4, OneOrTwo
  <2>2. Head(w)[2] = << <<"move", n>> >>
    BY <2>1, CallIs
  <2>3. Calm(Launched(Head(w)[2]))
    BY <2>2, OtherLine
  <2>4. InTurn(Tail(w))
    BY <2>1 DEF InTurn
  <2>5. QED
    BY <2>3, <2>4
<1>5. QED
  BY <1>1, <1>2, <1>3, <1>4 DEF InTurn

LEMMA AheadCall ==
  ASSUME NEW w, NEW X, X \subseteq Slots, NEW T, Ahead(w, X, T), Head(w)[1] = "call"
  PROVE  Sends(Launched(Head(w)[2]), X, T) /\ Tail(w) = <<>>
<1>1. ASSUME NEW n, w = << Call("add_preset", n) >>, T = Filled(X)
      PROVE  Sends(Launched(Head(w)[2]), X, T) /\ Tail(w) = <<>>
  <2>1. Head(w) = Call("add_preset", n) /\ Tail(w) = <<>>
    BY <1>1, OneOrTwo
  <2>2. Head(w)[2] = << <<"add_preset", n>> >>
    BY <2>1, CallIs
  <2>3. Launched(Head(w)[2]) = Send("add", "")
    BY <2>2, PresetLine
  <2>4. QED
    BY <1>1, <2>1, <2>3 DEF Sends
<1>2. ASSUME NEW n, w = << Call("remove_preset", n) >>, T = X \ Dropped(n), Shared(n)
      PROVE  Sends(Launched(Head(w)[2]), X, T) /\ Tail(w) = <<>>
  <2>1. Head(w) = Call("remove_preset", n) /\ Tail(w) = <<>>
    BY <1>2, OneOrTwo
  <2>2. Head(w)[2] = << <<"remove_preset", n>> >>
    BY <2>1, CallIs
  <2>3. PICK i : i = Read(n)
    OBVIOUS
  <2>4. Launched(Head(w)[2]) = IF i \in Slots \cup {All} THEN RemoveSends(i) ELSE <<>>
    BY <2>2, <2>3, PresetLine
  <2>5. T = X \ (IF i \in Slots \cup {All} THEN Removed(i) ELSE {})
    BY <1>2, <2>3, DroppedIsRemoved
  <2>6. CASE i \in Slots \cup {All}
    <3>1. Removes(RemoveSends(i)) /\ T = X \ Gone(RemoveSends(i))
      BY <2>5, <2>6, RemovesRemoved
    <3>2. QED
      BY <2>1, <2>4, <2>6, <3>1 DEF Sends
  <2>7. CASE i \notin Slots \cup {All}
    <3>1. T = X
      BY <2>5, <2>7
    <3>2. QED
      BY <2>1, <2>4, <2>7, <3>1, SendsNone
  <2>8. QED
    BY <2>6, <2>7
<1>3. ASSUME w = << Call("set_home_position", "") >>, T = Filled(X \ {0})
      PROVE  Sends(Launched(Head(w)[2]), X, T) /\ Tail(w) = <<>>
  <2>1. Head(w) = Call("set_home_position", "") /\ Tail(w) = <<>>
    BY <1>3, OneOrTwo
  <2>2. Head(w)[2] = << <<"set_home_position", "">> >>
    BY <2>1, CallIs
  <2>3. Launched(Head(w)[2]) = HomeSends
    BY <2>2, PresetLine
  <2>4. QED
    BY <1>3, <2>1, <2>3 DEF Sends
<1>4. w # << <<"add", "Home">>, Call("set_home_position", "") >>
  <2>1. Head(<< <<"add", "Home">>, Call("set_home_position", "") >>) = <<"add", "Home">>
    BY OneOrTwo
  <2>2. <<"add", "Home">>[1] # "call"
    BY NotACall
  <2>3. QED
    BY <2>1, <2>2
<1>5. QED
  BY <1>1, <1>2, <1>3, <1>4 DEF Ahead

\* The option of a call that the names wait for.
LEMMA AheadOption ==
  ASSUME NEW w, NEW X, NEW T, Ahead(w, X, T), Head(w)[1] = "call"
  PROVE  Head(w)[2][1][1] \in {"add_preset", "remove_preset", "set_home_position"}
<1>1. ASSUME NEW o, NEW a, w = << Call(o, a) >> PROVE Head(w)[2][1][1] = o
  <2>1. Head(w) = Call(o, a)
    BY <1>1, OneOrTwo
  <2>2. Call(o, a)[2][1][1] = o
    BY DEF Call
  <2>3. QED
    BY <2>1, <2>2
<1>2. w # << <<"add", "Home">>, Call("set_home_position", "") >>
  <2>1. Head(<< <<"add", "Home">>, Call("set_home_position", "") >>) = <<"add", "Home">>
    BY OneOrTwo
  <2>2. <<"add", "Home">>[1] # "call"
    BY NotACall
  <2>3. QED
    BY <2>1, <2>2
<1>3. QED
  BY <1>1, <1>2 DEF Ahead

\* The name is added to the table, or taken out of it.
LEMMA LaterChange ==
  ASSUME NEW w, NEW X, NEW T, Later(<<>>, w, X, T), w # <<>>, NEW n,
         NEW N, \/ Head(w) = <<"add", n>> /\ N = Filled(T)
                \/ Head(w) = <<"del", n>> /\ N = T \ Dropped(n)
  PROVE  Later(<<>>, Tail(w), X, N)
<1>0. PICK h : h = Head(w)
  OBVIOUS
<1>1. \/ h = <<"add", n>> /\ N = Filled(T)
      \/ h = <<"del", n>> /\ N = T \ Dropped(n)
  BY <1>0, Zenon
<1>2. \A o, a : Head(w) # Call(o, a)
  <2>1. h[1] # "call"
    BY <1>1, NotACall
  <2>2. QED
    BY <1>0, <2>1, CallIs
<1>9. ASSUME NEW i PROVE /\ h = <<"add", i>> => N = Filled(T)
                         /\ h = <<"del", i>> => N = T \ Dropped(i)
  <2>1. ASSUME h = <<"add", i>> PROVE N = Filled(T)
    <3>1. h # <<"del", n>>
      <4>1. h[1] = "add"
        BY <2>1, NotACall
      <4>2. QED
        BY <4>1, NotACall
    <3>2. QED
      BY <1>1, <3>1, Zenon
  <2>2. ASSUME h = <<"del", i>> PROVE N = T \ Dropped(i)
    <3>1. h[1] = "del" /\ h[2] = i
      BY <2>2, NotACall
    <3>2. h # <<"add", n>>
      BY <3>1, NotACall
    <3>3. N = T \ Dropped(n) /\ h = <<"del", n>>
      BY <1>1, <3>2, Zenon
    <3>4. n = i
      BY <3>1, <3>3, NotACall
    <3>5. QED
      BY <3>3, <3>4
  <2>3. QED
    BY <2>1, <2>2
<1>3. ASSUME NEW i, w = << <<"add", i>>, Call("add_preset", i) >>, T = X
      PROVE  Later(<<>>, Tail(w), X, N)
  <2>1. Head(w) = <<"add", i>> /\ Tail(w) = << Call("add_preset", i) >>
    BY <1>3, OneOrTwo
  <2>2. N = Filled(X)
    BY <1>0, <1>3, <1>9, <2>1, Zenon
  <2>3. QED
    BY <2>1, <2>2 DEF Later, Ahead
<1>4. ASSUME NEW i, w = << <<"del", i>>, Call("remove_preset", i) >>, T = X, Shared(i)
      PROVE  Later(<<>>, Tail(w), X, N)
  <2>1. Head(w) = <<"del", i>> /\ Tail(w) = << Call("remove_preset", i) >>
    BY <1>4, OneOrTwo
  <2>2. N = X \ Dropped(i)
    BY <1>0, <1>4, <1>9, <2>1, Zenon
  <2>3. QED
    BY <1>4, <2>1, <2>2 DEF Later, Ahead
<1>5. ASSUME w = << <<"del", Plain(0)>>, <<"add", "Home">>, Call("set_home_position", "") >>,
             T = X
      PROVE  Later(<<>>, Tail(w), X, N)
  <2>1. /\ Head(w) = <<"del", Plain(0)>>
        /\ Tail(w) = << <<"add", "Home">>, Call("set_home_position", "") >>
    BY <1>5, HomeScript
  <2>2. N = X \ Dropped(Plain(0))
    <3>1. h = <<"del", Plain(0)>>
      BY <1>0, <2>1
    <3>2. N = T \ Dropped(Plain(0))
      BY <1>9, <3>1
    <3>3. QED
      BY <1>5, <3>2
  <2>3. Dropped(Plain(0)) = {0}
    <3>1. 0 \in Slots
      BY IpcCmdAssumption DEF Slots
    <3>2. Plain(0) # AllWord /\ \A t : Plain(t) = Plain(0) => t = 0
      BY <3>1, Texts
    <3>3. QED
      BY <3>1, <3>2 DEF Dropped, Deletes
  <2>4. QED
    BY <2>1, <2>2, <2>3 DEF Later, Ahead
<1>6. ASSUME w = << <<"add", "Home">>, Call("set_home_position", "") >>, T = X \ {0}
      PROVE  Later(<<>>, Tail(w), X, N)
  <2>1. Head(w) = <<"add", "Home">> /\ Tail(w) = << Call("set_home_position", "") >>
    BY <1>6, OneOrTwo
  <2>2. N = Filled(X \ {0})
    BY <1>0, <1>6, <1>9, <2>1, Zenon
  <2>3. QED
    BY <2>1, <2>2 DEF Later, Ahead
<1>7. ASSUME NEW o, NEW a PROVE /\ w # << Call(o, a) >>
                                /\ \A y : w # << Call(o, a), y >>
                                /\ \A y, z : w # << Call(o, a), y, z >>
  BY <1>2, OneOrTwo, Three
<1>8. QED
  BY <1>3, <1>4, <1>5, <1>6, <1>7 DEF Later, InTurn, Ahead

\* The option the second step of a script calls ipc_cmd with.
Second(w) == w[2][2][1][1]

LEMMA SecondCall ==
  ASSUME NEW x, NEW o, NEW a
  PROVE  Second(<<x, Call(o, a)>>) = o
<1>1. <<x, Call(o, a)>>[2] = Call(o, a)
  BY ChangeIs
<1>2. PICK l : l = << <<o, a>> >>
  OBVIOUS
<1>3. Call(o, a)[2] = l
  BY <1>2, CallIs
<1>4. l[1] = <<o, a>>
  BY <1>2
<1>5. <<o, a>>[1] = o
  BY ChangeIs
<1>6. QED
  BY <1>1, <1>3, <1>4, <1>5, Zenon DEF Second

\* A name that is not added.
LEMMA LaterRefused ==
  ASSUME NEW w, NEW X, NEW T, Later(<<>>, w, X, T), w # <<>>, Head(w)[1] = "add"
  PROVE  \/ AfterRefusal(w) = <<>> /\ T = X
         \/ AfterRefusal(w) # <<>> /\ T = X \ {0}
<1>1. \A o, a : Head(w) # Call(o, a)
  BY CallIs
<1>2. ASSUME NEW i, w = << <<"add", i>>, Call("add_preset", i) >>, T = X
      PROVE  AfterRefusal(w) = <<>>
  <2>1. Second(w) = "add_preset"
    BY <1>2, SecondCall, Zenon
  <2>2. Second(w) # "set_home_position"
    BY <2>1
  <2>3. QED
    BY <2>2 DEF AfterRefusal, Second
<1>3. ASSUME w = << <<"add", "Home">>, Call("set_home_position", "") >>
      PROVE  AfterRefusal(w) # <<>>
  <2>1. w[1] = <<"add", "Home">>
    BY <1>3, ChangeIs, Zenon
  <2>2. Second(w) = "set_home_position"
    BY <1>3, SecondCall, Zenon
  <2>3. Tail(w) = << Call("set_home_position", "") >>
    BY <1>3, OneOrTwo
  <2>4. << Call("set_home_position", "") >> # <<>>
    OBVIOUS
  <2>5. QED
    BY <2>1, <2>2, <2>3, <2>4, Zenon DEF AfterRefusal, Second
<1>4. ASSUME NEW o, NEW a PROVE /\ w # << Call(o, a) >>
                                /\ \A y : w # << Call(o, a), y >>
                                /\ \A y, z : w # << Call(o, a), y, z >>
  BY <1>1, OneOrTwo, Three
<1>5. ASSUME NEW i PROVE /\ \A y : w # << <<"del", i>>, y >>
                         /\ \A y, z : w # << <<"del", i>>, y, z >>
  <2>1. <<"del", i>>[1] # "add"
    <3>1. "del" # "add"
      OBVIOUS
    <3>2. QED
      BY <3>1, ChangeIs, Zenon
  <2>2. QED
    BY <2>1, OneOrTwo, Three
<1>6. QED
  BY <1>2, <1>3, <1>4, <1>5 DEF Later, InTurn, Ahead

\* FIRST_AVAIL of a run that reads is the least number without a name among the lines
\* it has seen.
Lowest(r) ==
  /\ \A s \in Slots : s < at[r] - 1 /\ table[s + 1][2] = NoName => firstAvail[r] <= s
  /\ \/ firstAvail[r] = NumPresets
     \/ firstAvail[r] < at[r] - 1 /\ table[firstAvail[r] + 1][2] = NoName

LowInv == ~overlapped => \A r \in Procs : phase[r] = "read" => Lowest(r)

LEMMA LowKept ==
  ASSUME LowInv, UNCHANGED <<table, phase, at, firstAvail>>, ~overlapped' => ~overlapped
  PROVE  LowInv'
<1>1. \A r : Lowest(r)' = Lowest(r)
  BY DEF Lowest
<1>2. QED
  BY <1>1 DEF LowInv

\* A run that reads no more: nobody reads.
LEMMA LowLeft ==
  ASSUME TableInv, UniqueInv, NEW r \in Procs, phase[r] # "no", phase'[r] # "read",
         \A q \in Procs : q # r => phase'[q] = phase[q], UNCHANGED overlapped
  PROVE  LowInv'
<1>1. ASSUME ~overlapped PROVE \A q \in Procs : q # r => phase[q] = "no"
  BY <1>1, OthersAway DEF UniqueInv
<1>2. ASSUME ~overlapped', NEW q \in Procs, phase'[q] = "read" PROVE FALSE
  BY <1>1, <1>2
<1>3. QED
  BY <1>2 DEF LowInv

LEMMA LowInvariant == PresetsSpec => []LowInv
<1>1. PresetsInit => LowInv
  BY DEF PresetsInit, LowInv
<1>2. TableInv /\ UniqueInv /\ LowInv /\ [PresetsNext]_vars => LowInv'
  <2> SUFFICES ASSUME TableInv, UniqueInv, LowInv, [PresetsNext]_vars PROVE LowInv'
    OBVIOUS
  <2>1. ASSUME NEW r \in Procs, Start(r) PROVE LowInv'
    <3>1. UNCHANGED <<table, phase, at, firstAvail>> /\ (~overlapped' => ~overlapped)
      BY <2>1 DEF Start, tableVars
    <3>2. QED
      BY <3>1, LowKept
  <2>2. ASSUME NEW r \in Procs,
               \/ CallCmd(r) \/ CallFails(r) \/ PositionFails(r) \/ SendMessage(r)
               \/ Cmd(ReadPosition(r)) \/ Cmd(PrintPosition(r)) \/ Cmd(ReadFile(r))
        PROVE  LowInv'
    <3>1. UNCHANGED <<table, phase, at, firstAvail, overlapped>>
      BY <2>2 DEF CallCmd, CallFails, PositionFails, SendMessage, Cmd, tableVars, runVars
    <3>2. QED
      BY <3>1, LowKept
  <2>3. CASE Cmd(Handle) \/ UNCHANGED vars
    <3>1. UNCHANGED <<table, phase, at, firstAvail, overlapped>>
      BY <2>3 DEF Cmd, tableVars, runVars, vars
    <3>2. QED
      BY <3>1, LowKept
  <2>4. ASSUME NEW r \in Procs, Open(r) PROVE LowInv'
    <3>1. /\ phase[r] = "no" /\ phase'[r] = "read" /\ work[r] # <<>>
          /\ \A q \in Procs : q # r => phase'[q] = phase[q]
          /\ UNCHANGED <<table, at, firstAvail, overlapped>>
      BY <2>4 DEF Open, Goes, runVars, TableInv
    <3>2. ASSUME ~overlapped, NEW q \in Procs, phase'[q] = "read" PROVE Lowest(q)'
      <4>1. phase[r] = "no" => Away(r)
        BY <3>2 DEF UniqueInv, Alone
      <4>2. at'[r] = 1 /\ firstAvail'[r] = NumPresets
        BY <3>1, <4>1 DEF Away
      <4>3. \A s \in Slots : ~(s < at'[r] - 1)
        BY <4>2 DEF Slots
      <4>4. Lowest(r)'
        BY <4>2, <4>3 DEF Lowest
      <4>5. CASE q # r
        BY <3>1, <3>2, <4>5 DEF UniqueInv, Alone, OneRun, Idle, TableInv
      <4>6. QED
        BY <4>4, <4>5
    <3>3. QED
      BY <3>1, <3>2 DEF LowInv
  <2>5. ASSUME NEW r \in Procs, ReadLine(r) PROVE LowInv'
    <3>1. phase[r] = "read" /\ UNCHANGED <<table, overlapped>>
      BY <2>5 DEF ReadLine
    <3>2. PICK l \in NextLines(r) :
            IF SameName(Head(work[r]), l)
              THEN Return(r, AfterRefusal(work[r]))
              ELSE /\ firstAvail' = [firstAvail EXCEPT ![r] = Kept(@, l)]
                   /\ at' = [at EXCEPT ![r] = IF astray[r] THEN @ ELSE @ + 1]
                   /\ UNCHANGED phase
      BY <2>5 DEF ReadLine
    <3>3. CASE SameName(Head(work[r]), l)
      <4>1. Return(r, AfterRefusal(work[r]))
        BY <3>2, <3>3
      <4>2. phase'[r] = "no" /\ \A q \in Procs : q # r => phase'[q] = phase[q]
        BY <4>1, NamesReturn DEF UniqueInv
      <4>3. QED
        BY <3>1, <4>2, LowLeft
    <3>4. CASE ~SameName(Head(work[r]), l)
      <4>1. /\ \A q \in Procs : q # r =>
                 at'[q] = at[q] /\ firstAvail'[q] = firstAvail[q]
            /\ ~astray[r] => at'[r] = at[r] + 1
            /\ firstAvail'[r] = Kept(firstAvail[r], l)
            /\ UNCHANGED phase
        BY <3>2, <3>4 DEF TableInv, UniqueInv, WorkInv
      <4>2. ASSUME ~overlapped, NEW q \in Procs, phase'[q] = "read" PROVE Lowest(q)'
        <5>1. q = r
          BY <3>1, <4>1, <4>2, OthersAway DEF UniqueInv
        <5>2. Reading(r) /\ Complete /\ Lowest(r)
          BY <3>1, <4>2, OthersAway DEF UniqueInv, Alone, LowInv
        <5>2a. at[r] \in DOMAIN table /\ l = table[at[r]] /\ ~astray[r]
          BY <3>2, <5>2 DEF NextLines, Reading
        <5>3. PICK k \in 1..NumPresets : at[r] = k
          BY <5>2, <5>2a DEF Complete, TableInv
        <5>4. l[1] = k - 1 /\ table[k][2] = l[2]
          BY <5>2, <5>2a, <5>3 DEF Complete
        <5>5. PICK f \in 0..NumPresets : firstAvail[r] = f
          BY <5>2 DEF Reading
        <5>6. /\ \A s \in Slots : s < k - 1 /\ table[s + 1][2] = NoName => f <= s
              /\ f = NumPresets \/ (f < k - 1 /\ table[f + 1][2] = NoName)
          BY <5>2, <5>3, <5>5 DEF Lowest
        <5>7. PICK g : g = firstAvail'[r]
          OBVIOUS
        <5>8. g = IF l[2] = NoName /\ k - 1 < f THEN k - 1 ELSE f
          BY <4>1, <5>4, <5>5, <5>7 DEF Kept
        <5>9. ASSUME NEW s \in Slots, s < k, table[s + 1][2] = NoName PROVE g <= s
          <6>1. s \in Int /\ k \in Int /\ f \in Int
            BY IpcCmdAssumption DEF Slots
          <6>2. CASE s < k - 1
            <7>1. f <= s
              BY <5>6, <5>9, <6>2
            <7>2. QED
              BY <5>8, <6>1, <6>2, <7>1
          <6>3. CASE s = k - 1
            <7>1. s + 1 = k
              BY <6>1, <6>3
            <7>2. l[2] = NoName
              BY <5>4, <5>9, <7>1
            <7>3. QED
              BY <5>8, <6>1, <6>3, <7>2
          <6>4. QED
            BY <5>9, <6>1, <6>2, <6>3
        <5>10. g = NumPresets \/ (g < k /\ table[g + 1][2] = NoName)
          <6>1. CASE l[2] = NoName /\ k - 1 < f
            <7>1. g = k - 1 /\ g + 1 = k /\ g < k
              BY <5>8, <6>1
            <7>2. QED
              BY <5>4, <6>1, <7>1
          <6>2. CASE ~(l[2] = NoName /\ k - 1 < f)
            <7>1. g = f
              BY <5>8, <6>2
            <7>2. f < k - 1 => f < k
              OBVIOUS
            <7>3. QED
              BY <5>6, <7>1, <7>2
          <6>3. QED
            BY <6>1, <6>2
        <5>11. at'[r] - 1 = k
          BY <4>1, <5>2a, <5>3
        <5>12. QED
          BY <3>1, <5>1, <5>7, <5>9, <5>10, <5>11 DEF Lowest
      <4>3. QED
        BY <3>1, <4>2 DEF LowInv
    <3>5. QED
      BY <3>3, <3>4
  <2>6. ASSUME NEW r \in Procs, Change(r) PROVE LowInv'
    <3>1. phase[r] = "read" /\ UNCHANGED overlapped
      BY <2>6 DEF Change
    <3>2. phase'[r] # "read" /\ \A q \in Procs : q # r => phase'[q] = phase[q]
      <4>1. CASE Return(r, AfterRefusal(work[r]))
        BY <4>1, NamesReturn DEF UniqueInv
      <4>2. CASE phase' = [phase EXCEPT ![r] = "write"]
        BY <4>2 DEF TableInv
      <4>3. QED
        BY <2>6, <4>1, <4>2 DEF Change
    <3>3. QED
      BY <3>1, <3>2, LowLeft
  <2>7. ASSUME NEW r \in Procs, Truncate(r) \/ WriteLine(r) PROVE LowInv'
    <3>1. phase[r] = "write" /\ UNCHANGED overlapped
      BY <2>7 DEF Truncate, WriteLine, runVars
    <3>2. phase'[r] # "read" /\ \A q \in Procs : q # r => phase'[q] = phase[q]
      <4>1. CASE Return(r, Tail(work[r]))
        BY <4>1, NamesReturn DEF UniqueInv
      <4>2. CASE UNCHANGED phase
        BY <3>1, <4>2
      <4>3. QED
        BY <2>7, <4>1, <4>2 DEF Truncate, WriteLine
    <3>3. QED
      BY <3>1, <3>2, LowLeft
  <2>8. QED
    BY <2>1, <2>2, <2>3, <2>4, <2>5, <2>6, <2>7 DEF PresetsNext, ScriptStep
<1>3. QED
  BY <1>1, <1>2, TableInvariant, UniqueInvariant, PTL DEF PresetsSpec

\* The numbers that have a name: in the file, and in what a run writes.
Taken == {s \in Slots : table[s + 1][2] # NoName}
Named(r) == {s \in Slots : presets[r][s] # NoName}

\* The names as r is making them, and what it does behind that.
NamesOf(r) == IF phase[r] = "write" THEN Named(r) ELSE Taken
Rests(r) == IF phase[r] = "write" THEN Tail(work[r]) ELSE work[r]

\* Behind the messages r has still to send the camera has X, and the names are X, or
\* ahead of it by the call that the script makes next.
Busy(r, Y) ==
  \E X \in SUBSET Slots : Sends(todo[r], Y, X) /\ Later(todo[r], Rests(r), X, NamesOf(r))

\* The camera has Y when it has handled what is under way to it.
InStep(Y) ==
  /\ Ends(queue, Held, Y)
  /\ (\A r \in Procs : Idle(r)) => Taken = Y
  /\ \A r \in Procs : ~Idle(r) => Busy(r, Y)

MatchInv == ~overlapped /\ ~parted => \E Y \in SUBSET Slots : InStep(Y)

LEMMA InTurnNone ==
  ASSUME NEW t, NEW X
  PROVE  InTurn(<<>>) /\ Later(t, <<>>, X, X)
  BY DEF InTurn, Later

LEMMA LaterNone ==
  ASSUME NEW t, NEW X, NEW T, Later(t, <<>>, X, T)
  PROVE  T = X
<1>1. /\ \A x : << x >> # <<>>
      /\ \A x, y : <<x, y>> # <<>>
  BY OneOrTwo
<1>2. ~Ahead(<<>>, X, T)
  BY <1>1 DEF Ahead
<1>3. QED
  BY <1>2 DEF Later

\* With something to send the names are not ahead.
LEMMA LaterSends ==
  ASSUME NEW t, NEW w, NEW X, NEW T, Later(t, w, X, T), t # <<>>
  PROVE  InTurn(w) /\ T = X
  BY DEF Later

\* What is to be shown of a step of the only run.
LEMMA MatchRun ==
  ASSUME NEW r \in Procs, NEW Y \in SUBSET Slots,
         \A q \in Procs : q # r => Idle(q)',
         phase'[r] = "write" => work'[r] # <<>>,
         Ends(queue, Held, Y)', Busy(r, Y)'
  PROVE  MatchInv'
<1>1. ASSUME Idle(r)' PROVE Taken' = Y
  <2>1. todo'[r] = <<>> /\ Rests(r)' = <<>> /\ NamesOf(r)' = Taken'
    BY <1>1 DEF Idle, Rests, NamesOf
  <2>2. PICK X \in SUBSET Slots : Sends(<<>>, Y, X) /\ Later(<<>>, <<>>, X, Taken')
    BY <2>1 DEF Busy
  <2>3. QED
    BY <2>2, SendsNone, LaterNone
<1>2. (\A q \in Procs : Idle(q)') => Taken' = Y
  BY <1>1
<1>3. \A q \in Procs : ~Idle(q)' => Busy(q, Y)'
  OBVIOUS
<1>4. InStep(Y)'
  BY <1>2, <1>3 DEF InStep
<1>5. QED
  BY <1>4 DEF MatchInv

\* The only run, and what it is at.
LEMMA OnlyRun ==
  ASSUME TableInv, UniqueInv, MatchInv, ~overlapped, ~parted, NEW r \in Procs, ~Idle(r)
  PROVE  /\ \A q \in Procs : q # r => Idle(q)
         /\ \E Y \in SUBSET Slots : Ends(queue, Held, Y) /\ Busy(r, Y)
  BY DEF UniqueInv, Alone, OneRun, MatchInv, InStep

\* ... when it has nothing to send.
LEMMA OnlyScript ==
  ASSUME TableInv, UniqueInv, MatchInv, ~overlapped, ~parted, NEW r \in Procs,
         todo[r] = <<>>, work[r] # <<>>
  PROVE  /\ ~Idle(r) /\ \A q \in Procs : q # r => Idle(q)
         /\ \E Y \in SUBSET Slots : Ends(queue, Held, Y) /\ Later(<<>>, Rests(r), Y, NamesOf(r))
<1>1. ~Idle(r)
  BY DEF Idle
<1>2. PICK Y \in SUBSET Slots : Ends(queue, Held, Y) /\ Busy(r, Y)
  BY <1>1, OnlyRun
<1>3. PICK X \in SUBSET Slots : Sends(<<>>, Y, X) /\ Later(<<>>, Rests(r), X, NamesOf(r))
  BY <1>2 DEF Busy
<1>4. X = Y
  BY <1>3, SendsNone
<1>5. QED
  BY <1>1, <1>2, <1>3, <1>4, OnlyRun

\* ... when it has.
LEMMA OnlyCommand ==
  ASSUME TableInv, UniqueInv, MatchInv, ~overlapped, ~parted, NEW r \in Procs,
         todo[r] # <<>>
  PROVE  /\ \A q \in Procs : q # r => Idle(q)
         /\ phase[r] = "no"
         /\ \E Y \in SUBSET Slots :
              Ends(queue, Held, Y) /\ Sends(todo[r], Y, Taken) /\ InTurn(work[r])
<1>1. ~Idle(r) /\ phase[r] = "no"
  BY DEF Idle, TableInv
<1>2. PICK Y \in SUBSET Slots : Ends(queue, Held, Y) /\ Busy(r, Y)
  BY <1>1, OnlyRun
<1>3. PICK X \in SUBSET Slots : Sends(todo[r], Y, X) /\ Later(todo[r], work[r], X, Taken)
  BY <1>1, <1>2 DEF Busy, Rests, NamesOf
<1>4. X = Taken /\ InTurn(work[r])
  BY <1>3, LaterSends
<1>5. QED
  BY <1>1, <1>2, <1>3, <1>4, OnlyRun

LEMMA MatchStart ==
  ASSUME TableInv, UniqueInv, MatchInv, NEW r \in Procs, Start(r)
  PROVE  MatchInv'
<1> SUFFICES ASSUME ~overlapped', ~parted' PROVE MatchInv'
  BY DEF MatchInv
<1>0. ~overlapped /\ ~parted
  <2>1. overlapped' = (overlapped \/ \E p \in Procs : ~Idle(p))
    BY DEF Start
  <2>2. (\E q \in Requests : parted' = (parted \/ Parts(q))) \/ parted' = parted
    BY DEF Start
  <2>3. ~overlapped
    BY <2>1
  <2>4. ~parted
    BY <2>2
  <2>5. QED
    BY <2>3, <2>4
<1>1. /\ \A q \in Procs : Idle(q)
      /\ UNCHANGED <<queue, camera, table, phase>>
      /\ \A q \in Procs : q # r => work'[q] = work[q] /\ todo'[q] = todo[q]
  BY DEF Start, Begin, BeginFails, tableVars, TableInv
<1>2. PICK Y \in SUBSET Slots : Ends(queue, Held, Y) /\ Taken = Y
  BY <1>0, <1>1 DEF MatchInv, InStep
<1>3. phase'[r] = "no" /\ \A q \in Procs : q # r => Idle(q)'
  BY <1>1 DEF Idle, TableInv
<1>4. Held' = Held /\ Taken' = Taken
  BY <1>1 DEF Held, Taken
<1>5. InTurn(work'[r]) /\ Sends(todo'[r], Y, Y)
  <2>1. ASSUME NEW q \in Requests, work' = [work EXCEPT ![r] = Script(q)],
               parted' = (parted \/ Parts(q)), UNCHANGED todo
        PROVE  InTurn(work'[r]) /\ Sends(todo'[r], Y, Y)
    <3>1. ~Parts(q)
      BY <2>1
    <3>2. work'[r] = Script(q) /\ todo'[r] = <<>>
      BY <1>1, <2>1 DEF TableInv, Idle
    <3>3. QED
      BY <3>1, <3>2, ScriptInTurn, SendsNone
  <2>2. ASSUME NEW l \in Lines, Begin(r, l), UNCHANGED work
        PROVE  InTurn(work'[r]) /\ Sends(todo'[r], Y, Y)
    <3>2. todo'[r] = Launched(l) /\ work'[r] = <<>>
      BY <1>1, <2>2 DEF Begin, TableInv, Idle
    <3>3. SetsNoPreset(l)
      BY OnlyTheScript DEF SetsNoPreset
    <3>4. Calm(Launched(l))
      BY <3>3, ProgramCalm
    <3>5. QED
      BY <3>2, <3>4, InTurnNone DEF Sends
  <2>3. CASE BeginFails /\ UNCHANGED work
    <3>1. todo'[r] = <<>> /\ work'[r] = <<>>
      BY <1>1, <2>3 DEF BeginFails, Idle
    <3>2. QED
      BY <3>1, InTurnNone, SendsNone
  <2>4. QED
    BY <2>1, <2>2, <2>3 DEF Start
<1>6. Busy(r, Y)'
  <2>1. Later(todo'[r], work'[r], Y, Taken')
    BY <1>2, <1>4, <1>5 DEF Later
  <2>2. QED
    BY <1>3, <1>5, <2>1 DEF Busy, Rests, NamesOf
<1>7. Ends(queue', Held', Y)
  BY <1>1, <1>2, <1>4
<1>8. QED
  BY <1>3, <1>6, <1>7, MatchRun

LEMMA MatchCall ==
  ASSUME TableInv, UniqueInv, MatchInv, NEW r \in Procs, CallCmd(r)
  PROVE  MatchInv'
<1> SUFFICES ASSUME ~overlapped', ~parted' PROVE MatchInv'
  BY DEF MatchInv
<1>1. /\ ~overlapped /\ ~parted /\ todo[r] = <<>> /\ work[r] # <<>> /\ phase[r] = "no"
      /\ Head(work[r])[1] = "call"
      /\ UNCHANGED <<queue, camera, table, phase>>
      /\ \A q \in Procs : q # r => work'[q] = work[q] /\ todo'[q] = todo[q]
      /\ todo'[r] = Launched(Head(work[r])[2]) /\ work'[r] = Tail(work[r])
  BY DEF CallCmd, Begin, Goes, tableVars, TableInv
<1>2. PICK Y \in SUBSET Slots : Ends(queue, Held, Y) /\ Later(<<>>, work[r], Y, Taken)
  BY <1>1, OnlyScript DEF Rests, NamesOf
<1>3. phase'[r] = "no" /\ \A q \in Procs : q # r => Idle(q)'
  BY <1>1, OnlyScript DEF Idle
<1>4. Held' = Held /\ Taken' = Taken
  BY <1>1 DEF Held, Taken
<1>5. Sends(todo'[r], Y, Taken) /\ InTurn(work'[r])
  <2>1. CASE InTurn(work[r]) /\ Taken = Y
    BY <1>1, <2>1, CallInTurn DEF Sends
  <2>2. CASE Ahead(work[r], Y, Taken)
    BY <1>1, <2>2, AheadCall, InTurnNone
  <2>3. QED
    BY <1>2, <2>1, <2>2 DEF Later
<1>6. Busy(r, Y)'
  <2>1. Later(todo'[r], work'[r], Taken, Taken') /\ Taken \in SUBSET Slots
    BY <1>4, <1>5 DEF Later, Taken
  <2>2. QED
    BY <1>3, <1>5, <2>1 DEF Busy, Rests, NamesOf
<1>7. Ends(queue', Held', Y)
  BY <1>1, <1>2, <1>4
<1>8. QED
  BY <1>3, <1>6, <1>7, MatchRun

\* A call that fails has sent nothing; the names are ahead only of calls that part.
LEMMA MatchCallFails ==
  ASSUME TableInv, UniqueInv, MatchInv, NEW r \in Procs, CallFails(r)
  PROVE  MatchInv'
<1> SUFFICES ASSUME ~overlapped', ~parted' PROVE MatchInv'
  BY DEF MatchInv
<1>0. /\ ~overlapped /\ ~parted
      /\ Head(work[r])[2][1][1] \notin {"add_preset", "remove_preset", "set_home_position"}
  BY DEF CallFails
<1>1. /\ todo[r] = <<>> /\ work[r] # <<>> /\ phase[r] = "no"
      /\ Head(work[r])[1] = "call"
      /\ UNCHANGED <<queue, camera, table, phase, todo>>
      /\ \A q \in Procs : q # r => work'[q] = work[q]
  BY DEF CallFails, BeginFails, Goes, tableVars, TableInv
<1>1a. work'[r] = <<>> \/ work'[r] = Tail(work[r])
  <2>1. work' = [work EXCEPT ![r] = IF Head(work[r])[2][1][1] = "get-pos"
                                      THEN <<>> ELSE Tail(work[r])]
    BY DEF CallFails
  <2>2. QED
    BY <2>1 DEF TableInv
<1>2. PICK Y \in SUBSET Slots : Ends(queue, Held, Y) /\ Later(<<>>, work[r], Y, Taken)
  BY <1>0, <1>1, OnlyScript DEF Rests, NamesOf
<1>3. phase'[r] = "no" /\ \A q \in Procs : q # r => Idle(q)'
  BY <1>0, <1>1, OnlyScript DEF Idle
<1>4. Held' = Held /\ Taken' = Taken
  BY <1>1 DEF Held, Taken
<1>5. InTurn(work'[r]) /\ Taken = Y
  <2>1. ~Ahead(work[r], Y, Taken)
    BY <1>0, <1>1, AheadOption
  <2>2. InTurn(work[r]) /\ Taken = Y
    BY <1>2, <2>1 DEF Later
  <2>3. QED
    BY <1>1, <1>1a, <2>2, CallInTurn, InTurnNone
<1>6. Busy(r, Y)'
  <2>1. Later(todo'[r], work'[r], Y, Taken') /\ todo'[r] = <<>>
    BY <1>1, <1>4, <1>5 DEF Later
  <2>2. QED
    BY <1>3, <2>1, SendsNone DEF Busy, Rests, NamesOf
<1>7. Ends(queue', Held', Y)
  BY <1>1, <1>2, <1>4
<1>8. QED
  BY <1>3, <1>6, <1>7, MatchRun

LEMMA MatchCommand ==
  ASSUME TableInv, UniqueInv, MatchInv, MoveInv, NEW r \in Procs,
         \/ PositionFails(r) \/ SendMessage(r) \/ Cmd(ReadPosition(r))
         \/ Cmd(PrintPosition(r)) \/ Cmd(ReadFile(r))
  PROVE  MatchInv'
<1> SUFFICES ASSUME ~overlapped', ~parted' PROVE MatchInv'
  BY DEF MatchInv
<1>1. /\ ~overlapped /\ ~parted /\ todo[r] # <<>>
      /\ UNCHANGED <<camera, table, phase>>
      /\ \A q \in Procs : q # r => work'[q] = work[q] /\ todo'[q] = todo[q]
  <2>1. CASE PositionFails(r)
    BY <2>1 DEF PositionFails, ReadFails, tableVars, TableInv
  <2>2. ASSUME NEW rest, todo' = [todo EXCEPT ![r] = rest], todo[r] # <<>>,
               UNCHANGED <<camera, tableVars, work, overlapped, parted>>
        PROVE  /\ ~overlapped /\ ~parted /\ todo[r] # <<>>
               /\ UNCHANGED <<camera, table, phase>>
               /\ \A q \in Procs : q # r => work'[q] = work[q] /\ todo'[q] = todo[q]
    BY <2>2 DEF tableVars, TableInv
  <2>3. CASE SendMessage(r)
    BY <2>2, <2>3 DEF SendMessage, SendNext, runVars
  <2>4. CASE Cmd(ReadPosition(r))
    BY <2>2, <2>4 DEF Cmd, ReadPosition, runVars
  <2>5. CASE Cmd(PrintPosition(r))
    BY <2>2, <2>5 DEF Cmd, PrintPosition, runVars
  <2>6. CASE Cmd(ReadFile(r))
    BY <2>2, <2>6 DEF Cmd, ReadFile, runVars
  <2>7. QED
    BY <2>1, <2>3, <2>4, <2>5, <2>6
<1>2. PICK Y \in SUBSET Slots :
        Ends(queue, Held, Y) /\ Sends(todo[r], Y, Taken) /\ InTurn(work[r])
  BY <1>1, OnlyCommand
<1>3. phase'[r] = "no" /\ \A q \in Procs : q # r => Idle(q)'
  BY <1>1, OnlyCommand DEF Idle
<1>4. Held' = Held /\ Taken' = Taken /\ Taken \in SUBSET Slots
  BY <1>1 DEF Held, Taken
<1>5. ASSUME NEW Z \in SUBSET Slots, Ends(queue', Held, Z), Sends(todo'[r], Z, Taken),
             InTurn(work'[r])
      PROVE  MatchInv'
  <2>1. Later(todo'[r], work'[r], Taken, Taken')
    BY <1>4, <1>5 DEF Later
  <2>2. Busy(r, Z)'
    BY <1>3, <1>4, <1>5, <2>1 DEF Busy, Rests, NamesOf
  <2>3. Ends(queue', Held', Z)
    BY <1>4, <1>5
  <2>4. QED
    BY <1>3, <2>2, <2>3, MatchRun
<1>6. PICK x : x = Head(todo[r])
  OBVIOUS
<1>7. CASE SendMessage(r)
  <2>1. /\ x[1] = "send" /\ queue' = Append(queue, x[2])
        /\ todo'[r] = Tail(todo[r]) /\ work'[r] = work[r]
    BY <1>6, <1>7 DEF SendMessage, SendNext, Put, runVars, TableInv
  <2>2. Sends(todo'[r], Turn(Y, x[2]), Taken)
    BY <1>1, <1>2, <1>6, <2>1, SendsTail
  <2>3. Turn(Y, x[2]) \in SUBSET Slots
    BY TurnOfSlots
  <2>4. PICK S : queue \in Seq(S)
    BY DEF MoveInv, QueueInv
  <2>5. Ends(queue', Held, Turn(Y, x[2]))
    BY <1>2, <2>1, <2>4, EndsMore
  <2>6. QED
    BY <1>2, <1>5, <2>1, <2>2, <2>3, <2>5
<1>8. CASE ~SendMessage(r)
  <2>1. x[1] # "send" /\ UNCHANGED queue
    BY <1>6, <1>8 DEF PositionFails, ReadFails, Cmd, ReadPosition, PrintPosition, ReadFile
  <2>2. Calm(todo[r]) /\ Taken = Y
    BY <1>1, <1>2, <1>6, <2>1, SendsOther
  <2>3. Calm(Tail(todo[r])) /\ Still(x)
    BY <1>1, <1>6, <2>2, CalmTail
  <2>4. Calm(todo'[r]) /\ InTurn(work'[r])
    <3>1. CASE PositionFails(r)
      <4>1. todo'[r] = <<>> /\ work'[r] = <<>>
        BY <3>1 DEF PositionFails, ReadFails, TableInv
      <4>2. QED
        BY <4>1, CalmNone, InTurnNone
    <3>2. CASE Cmd(PrintPosition(r))
      <4>1. todo'[r] = Tail(todo[r]) /\ work'[r] = work[r]
        BY <3>2 DEF Cmd, PrintPosition, runVars, TableInv
      <4>2. QED
        BY <1>2, <2>3, <4>1
    <3>3. CASE Cmd(ReadFile(r))
      <4>1. /\ x[1] = "file" /\ todo'[r] = << <<"send", x[2]>> >> \o Tail(todo[r])
            /\ work'[r] = work[r]
        BY <1>6, <3>3 DEF Cmd, ReadFile, runVars, TableInv
      <4>2. Still(<<"send", x[2]>>)
        BY <2>3, <4>1 DEF Still
      <4>3. QED
        BY <1>2, <2>3, <4>1, <4>2, CalmOne, CalmBoth
    <3>4. CASE Cmd(ReadPosition(r))
      <4>1. /\ \E jump : todo'[r] = Send("jump", jump) \o Tail(todo[r])
            /\ work'[r] = work[r]
        BY <3>4 DEF Cmd, ReadPosition, runVars, TableInv
      <4>2. \A jump : Calm(Send("jump", jump))
        BY CalmSend
      <4>3. QED
        BY <1>2, <2>3, <4>1, <4>2, CalmBoth
    <3>5. QED
      BY <1>8, <3>1, <3>2, <3>3, <3>4
  <2>5. Sends(todo'[r], Y, Taken)
    BY <2>2, <2>4 DEF Sends
  <2>6. QED
    BY <1>2, <1>5, <2>1, <2>4, <2>5
<1>9. QED
  BY <1>7, <1>8

LEMMA MatchHandle ==
  ASSUME TableInv, MatchInv, MoveInv, Cmd(Handle)
  PROVE  MatchInv'
<1> SUFFICES ASSUME ~overlapped', ~parted' PROVE MatchInv'
  BY DEF MatchInv
<1>1. /\ ~overlapped /\ ~parted /\ queue # <<>>
      /\ queue' = Tail(queue) /\ camera' = After(camera, Head(queue))
      /\ UNCHANGED <<table, phase, work, presets, todo>>
  BY DEF Cmd, Handle, tableVars, runVars
<1>2. PICK Y \in SUBSET Slots : InStep(Y)
  BY <1>1 DEF MatchInv
<1>3. PICK S : queue \in Seq(S)
  BY DEF MoveInv, QueueInv
<1>4. Held' = Turn(Held, Head(queue))
  <2>1. PICK c : c = camera'
    OBVIOUS
  <2>2. {s \in Slots : c.presets[s] # NoPreset} = Turn(Held, Head(queue))
    BY <1>1, <2>1, HeldAfter DEF MoveInv
  <2>3. QED
    BY <2>1, <2>2 DEF Held
<1>5. Ends(queue', Held', Y)
  BY <1>1, <1>2, <1>3, <1>4, EndsTail DEF InStep
<1>6. /\ Taken' = Taken /\ \A q \in Procs : Idle(q)' = Idle(q)
      /\ \A q \in Procs : Busy(q, Y) => Busy(q, Y)'
  BY <1>1 DEF Taken, Idle, Busy, Rests, NamesOf, Named
<1>7. InStep(Y)'
  BY <1>2, <1>5, <1>6 DEF InStep
<1>8. QED
  BY <1>7 DEF MatchInv

\* A step at the table that keeps what the run makes of the names, and is behind them.
LEMMA MatchTable ==
  ASSUME TableInv, UniqueInv, MatchInv, NEW r \in Procs, phase[r] # "no",
         \A q \in Procs : q # r => work'[q] = work[q], UNCHANGED cmdVars,
         ~overlapped' => ~overlapped, ~parted' => ~parted,
         phase'[r] = "write" => work'[r] # <<>>,
         \A Y \in SUBSET Slots :
           ~overlapped' /\ ~parted' /\ Later(<<>>, Rests(r), Y, NamesOf(r))
             => Later(<<>>, Rests(r)', Y, NamesOf(r)')
  PROVE  MatchInv'
<1> SUFFICES ASSUME ~overlapped', ~parted' PROVE MatchInv'
  BY DEF MatchInv
<1>1. todo[r] = <<>> /\ work[r] # <<>> /\ UNCHANGED <<todo, queue, camera>>
  BY DEF TableInv, cmdVars
<1>2. PICK Y \in SUBSET Slots : Ends(queue, Held, Y) /\ Later(<<>>, Rests(r), Y, NamesOf(r))
  BY <1>1, OnlyScript
<1>3. \A q \in Procs : q # r => Idle(q)'
  BY <1>1, OnlyScript DEF Idle
<1>4. Ends(queue', Held', Y)
  BY <1>1, <1>2 DEF Held
<1>5. Busy(r, Y)'
  <2>1. Later(<<>>, Rests(r)', Y, NamesOf(r)')
    BY <1>2
  <2>2. Sends(<<>>, Y, Y)
    BY SendsNone
  <2>3. QED
    BY <1>1, <2>1, <2>2 DEF Busy
<1>6. QED
  BY <1>3, <1>4, <1>5, MatchRun

\* A name that is not added, because it is there or there is no line for it.
LEMMA MatchRefusal ==
  ASSUME TableInv, UniqueInv, MatchInv, NEW r \in Procs, phase[r] = "read",
         Return(r, AfterRefusal(work[r])), Head(work[r])[1] = "add",
         UNCHANGED <<cmdVars, table>>,
         ~overlapped' => ~overlapped, ~parted' => ~parted,
         ~overlapped' /\ ~parted' => AfterRefusal(work[r]) = <<>> \/ Taken = Slots
  PROVE  MatchInv'
<1>1. /\ phase'[r] = "no" /\ \A q \in Procs : q # r => work'[q] = work[q]
      /\ work'[r] = AfterRefusal(work[r]) /\ work[r] # <<>>
  BY DEF Return, TableInv
<1>2. Rests(r)' = AfterRefusal(work[r]) /\ NamesOf(r)' = Taken
  BY <1>1 DEF Rests, NamesOf, Taken
<1>3. Rests(r) = work[r] /\ NamesOf(r) = Taken
  BY DEF Rests, NamesOf
<1>4. ASSUME NEW Y \in SUBSET Slots, ~overlapped', ~parted',
             Later(<<>>, work[r], Y, Taken)
      PROVE  Later(<<>>, AfterRefusal(work[r]), Y, Taken)
  <2>1. \/ AfterRefusal(work[r]) = <<>> /\ Taken = Y
        \/ AfterRefusal(work[r]) # <<>> /\ Taken = Y \ {0}
    BY <1>1, <1>4, LaterRefused
  <2>2. 0 \in Slots
    BY IpcCmdAssumption DEF Slots
  <2>3. ~(Taken = Slots /\ Taken = Y \ {0})
    BY <2>2
  <2>4. AfterRefusal(work[r]) = <<>> /\ Taken = Y
    BY <1>4, <2>1, <2>3
  <2>5. QED
    BY <2>4, InTurnNone
<1>5. \A Y \in SUBSET Slots :
        ~overlapped' /\ ~parted' /\ Later(<<>>, Rests(r), Y, NamesOf(r))
          => Later(<<>>, Rests(r)', Y, NamesOf(r)')
  BY <1>2, <1>3, <1>4
<1>6. QED
  BY <1>1, <1>5, MatchTable

LEMMA MatchRead ==
  ASSUME TableInv, UniqueInv, MatchInv, NEW r \in Procs, ReadLine(r)
  PROVE  MatchInv'
<1>1. /\ phase[r] = "read" /\ UNCHANGED <<cmdVars, table, overlapped>>
      /\ work[r] # <<>>
  BY DEF ReadLine, TableInv
<1>2. PICK l \in NextLines(r) :
        IF SameName(Head(work[r]), l)
          THEN /\ Return(r, AfterRefusal(work[r]))
               /\ parted' = (parted \/ AfterRefusal(work[r]) # <<>>)
          ELSE UNCHANGED <<phase, work, parted>>
  BY DEF ReadLine
<1>3. CASE SameName(Head(work[r]), l)
  <2>1. /\ Return(r, AfterRefusal(work[r]))
        /\ parted' = (parted \/ AfterRefusal(work[r]) # <<>>)
    BY <1>2, <1>3
  <2>2. Head(work[r])[1] = "add"
    <3>1. PICK h : h = Head(work[r])
      OBVIOUS
    <3>2. h = <<"add", l[2]>>
      BY <1>3, <3>1 DEF SameName
    <3>3. h[1] = "add"
      BY <3>2, NotACall
    <3>4. QED
      BY <3>1, <3>3, Zenon
  <2>3. (~parted' => ~parted) /\ (~parted' => AfterRefusal(work[r]) = <<>>)
    BY <2>1, Zenon
  <2>4. QED
    BY <1>1, <2>1, <2>2, <2>3, MatchRefusal
<1>4. CASE ~SameName(Head(work[r]), l)
  <2>1. UNCHANGED <<phase, work, parted>>
    BY <1>2, <1>4
  <2>2. Rests(r)' = Rests(r) /\ NamesOf(r)' = NamesOf(r) /\ phase'[r] # "write"
    BY <1>1, <2>1 DEF Rests, NamesOf, Taken
  <2>3. QED
    BY <1>1, <2>1, <2>2, MatchTable
<1>5. QED
  BY <1>3, <1>4

\* The lines are read: the names are those of the file, with one more or without some.
LEMMA NamesChanged ==
  ASSUME TableInv, UniqueInv, LowInv, ~overlapped, NEW r \in Procs, phase[r] = "read",
         astray[r] \/ at[r] > Len(table)
  PROVE  /\ Head(work[r])[1] = "add" /\ firstAvail[r] = NumPresets => Taken = Slots
         /\ Head(work[r])[1] = "add" /\ firstAvail[r] # NumPresets =>
              {s \in Slots : NewTable(r, "add", Head(work[r])[2])[s] # NoName}
                = Filled(Taken)
         /\ \A n : {s \in Slots : NewTable(r, "del", n)[s] # NoName} = Taken \ Dropped(n)
<1>1. Reading(r) /\ Complete /\ Lowest(r)
  BY OthersAway DEF UniqueInv, Alone, LowInv
<1>2. at[r] - 1 = NumPresets
  BY <1>1, IpcCmdAssumption DEF Reading, Complete
<1>3. \A s \in Slots : s < at[r] - 1 /\ s \in Int
  BY <1>2, IpcCmdAssumption DEF Slots
<1>4. DOMAIN presets[r] = Slots /\ \A s \in Slots : presets[r][s] = table[s + 1][2]
  BY <1>1, <1>3 DEF Reading
<1>5. PICK f \in 0..NumPresets : firstAvail[r] = f
  BY <1>1 DEF Reading
<1>6. /\ \A s \in Slots : s \notin Taken => f <= s
      /\ f = NumPresets \/ (f \in Slots /\ f \notin Taken)
  <2>1. \A s \in Slots : s \notin Taken => f <= s
    BY <1>1, <1>3, <1>5 DEF Lowest, Taken
  <2>2. f = NumPresets \/ f \in Slots
    BY IpcCmdAssumption DEF Slots
  <2>3. f = NumPresets \/ f \notin Taken
    BY <1>1, <1>5 DEF Lowest, Taken
  <2>4. QED
    BY <2>1, <2>2, <2>3
<1>7. ASSUME f = NumPresets PROVE Taken = Slots
  <2>1. \A s \in Slots : ~(f <= s)
    BY <1>7, IpcCmdAssumption DEF Slots
  <2>2. QED
    BY <1>6, <2>1 DEF Taken
<1>8. ASSUME Head(work[r])[1] = "add", f # NumPresets, NEW a, a = Head(work[r])[2]
      PROVE  {s \in Slots : NewTable(r, "add", a)[s] # NoName} = Filled(Taken)
  <2>1. f \in Slots /\ f \notin Taken
    BY <1>6, <1>8
  <2>2. First(Slots \ Taken) = f
    <3>1. Slots \ Taken # {} /\ f \in Slots \ Taken
      BY <2>1
    <3>2. PICK g : g = First(Slots \ Taken)
      OBVIOUS
    <3>3. g \in Slots \ Taken /\ g <= f
      BY <3>1, <3>2, FirstIsLeast
    <3>4. f <= g
      BY <1>6, <3>3
    <3>5. f \in Int /\ g \in Int
      BY <2>1, <3>3 DEF Slots
    <3>6. QED
      BY <3>2, <3>3, <3>4, <3>5
  <2>3. Filled(Taken) = Taken \cup {f}
    BY <2>1, <2>2 DEF Filled
  <2>4. a # NoName
    <3>1. table[f + 1][2] = NoName
      BY <2>1 DEF Taken
    <3>2. table[f + 1][2] # a
      BY <1>1, <1>3, <1>8, <2>1 DEF Reading
    <3>3. QED
      BY <3>1, <3>2
  <2>5. NewTable(r, "add", a) = [presets[r] EXCEPT ![f] = a]
    BY <1>5 DEF NewTable
  <2>6. ASSUME NEW s \in Slots
        PROVE  NewTable(r, "add", a)[s] = IF s = f THEN a ELSE table[s + 1][2]
    BY <1>4, <2>5
  <2>7. QED
    BY <2>1, <2>3, <2>4, <2>6 DEF Taken
<1>9. ASSUME NEW n
      PROVE  {s \in Slots : NewTable(r, "del", n)[s] # NoName} = Taken \ Dropped(n)
  <2>1. NewTable(r, "del", n) =
          [s \in Slots |-> IF Deletes(n, s) THEN NoName ELSE presets[r][s]]
    BY DEF NewTable
  <2>2. ASSUME NEW s \in Slots
        PROVE  NewTable(r, "del", n)[s] # NoName <=> s \in Taken /\ s \notin Dropped(n)
    <3>1. NewTable(r, "del", n)[s] = IF Deletes(n, s) THEN NoName ELSE table[s + 1][2]
      BY <1>4, <2>1
    <3>2. Deletes(n, s) <=> s \in Dropped(n)
      BY DEF Dropped
    <3>3. QED
      BY <3>1, <3>2 DEF Taken
  <2>3. QED
    BY <2>2 DEF Taken
<1>10. QED
  BY <1>5, <1>7, <1>8, <1>9

LEMMA MatchChange ==
  ASSUME TableInv, UniqueInv, LowInv, MatchInv, MoveInv, NEW r \in Procs, Change(r)
  PROVE  MatchInv'
<1>1. /\ phase[r] = "read" /\ (astray[r] \/ at[r] > Len(table)) /\ work[r] # <<>>
      /\ UNCHANGED <<cmdVars, table, overlapped, parted>>
  BY DEF Change, TableInv
<1>2. CASE Head(work[r])[1] = "add" /\ firstAvail[r] = NumPresets
  <2>1. Return(r, AfterRefusal(work[r]))
    BY <1>2 DEF Change
  <2>2. ~overlapped => Taken = Slots
    BY <1>1, <1>2, NamesChanged
  <2>3. QED
    BY <1>1, <1>2, <2>1, <2>2, MatchRefusal
<1>3. CASE ~(Head(work[r])[1] = "add" /\ firstAvail[r] = NumPresets)
  <2>1. PICK what, n : what = Head(work[r])[1] /\ n = Head(work[r])[2]
    OBVIOUS
  <2>2. /\ phase'[r] = "write" /\ UNCHANGED work /\ presets'[r] = NewTable(r, what, n)
    BY <1>3, <2>1 DEF Change, TableInv, UniqueInv, WorkInv
  <2>3. what \in {"add", "del"} /\ Head(work[r]) = <<what, n>>
    BY <1>1, <2>1, HeadIsCommand DEF MoveInv, ShapeInv, UniqueInv
  <2>4. Rests(r) = work[r] /\ NamesOf(r) = Taken
    BY <1>1 DEF Rests, NamesOf
  <2>5. Rests(r)' = Tail(work[r])
    BY <2>2 DEF Rests
  <2>6. NamesOf(r)' = {s \in Slots : NewTable(r, what, n)[s] # NoName}
    BY <2>2 DEF NamesOf, Named
  <2>7. ASSUME NEW Y \in SUBSET Slots, ~overlapped, Later(<<>>, work[r], Y, Taken)
        PROVE  Later(<<>>, Tail(work[r]), Y, NamesOf(r)')
    <3>1. CASE what = "add"
      <4>1. NamesOf(r)' = Filled(Taken)
        BY <1>1, <1>3, <2>1, <2>6, <2>7, <3>1, NamesChanged
      <4>2. Head(work[r]) = <<"add", n>>
        BY <2>3, <3>1
      <4>3. QED
        BY <1>1, <2>7, <4>1, <4>2, LaterChange
    <3>2. CASE what = "del"
      <4>1. NamesOf(r)' = Taken \ Dropped(n)
        BY <1>1, <2>6, <2>7, <3>2, NamesChanged
      <4>2. Head(work[r]) = <<"del", n>>
        BY <2>3, <3>2
      <4>3. QED
        BY <1>1, <2>7, <4>1, <4>2, LaterChange
    <3>3. QED
      BY <2>3, <3>1, <3>2
  <2>8. QED
    BY <1>1, <2>2, <2>4, <2>5, <2>7, MatchTable
<1>4. QED
  BY <1>2, <1>3

LEMMA MatchOpen ==
  ASSUME TableInv, UniqueInv, MatchInv, NEW r \in Procs, Open(r)
  PROVE  MatchInv'
<1> SUFFICES ASSUME ~overlapped', ~parted' PROVE MatchInv'
  BY DEF MatchInv
<1>1. /\ phase[r] = "no" /\ phase'[r] = "read" /\ work[r] # <<>> /\ todo[r] = <<>>
      /\ ~overlapped /\ ~parted /\ UNCHANGED <<todo, queue, camera, table, work>>
  BY DEF Open, Goes, TableInv, cmdVars, runVars
<1>2. PICK Y \in SUBSET Slots : Ends(queue, Held, Y) /\ Later(<<>>, work[r], Y, Taken)
  BY <1>1, OnlyScript DEF Rests, NamesOf
<1>3. \A q \in Procs : q # r => Idle(q)'
  BY <1>1, OnlyScript DEF Idle
<1>4. Ends(queue', Held', Y) /\ Sends(todo'[r], Y, Y)
  BY <1>1, <1>2, SendsNone DEF Held
<1>5. Later(todo'[r], Rests(r)', Y, NamesOf(r)')
  BY <1>1, <1>2 DEF Rests, NamesOf, Taken
<1>6. Busy(r, Y)'
  BY <1>4, <1>5 DEF Busy
<1>7. QED
  BY <1>1, <1>3, <1>4, <1>6, MatchRun

\* The table is the names of the run that has written its last line.
LEMMA LastLine ==
  ASSUME TableInv, UniqueInv, ~overlapped, NEW r \in Procs, WriteLine(r),
         ~(at[r] < NumPresets)
  PROVE  Taken' = Named(r)
<1>1. PICK k \in Nat : at[r] = k
  BY DEF TableInv
<1>2. PICK name : name = presets[r][k - 1]
  OBVIOUS
<1>3a. /\ phase[r] = "write" /\ k > 0
       /\ k # 1 => table' = Append(table, <<k - 1, name>>)
  BY <1>1, <1>2 DEF WriteLine, Written
<1>4. Writing(r)
  BY <1>3a DEF UniqueInv, Alone
<1>3. table' = Append(table, <<k - 1, name>>)
  <2>1. k # 1
    BY <1>1, IpcCmdAssumption
  <2>2. QED
    BY <1>3a, <2>1
<1>5. /\ k = NumPresets /\ Len(table) = k - 1
      /\ \A j \in 1..k - 1 : table[j] = <<j - 1, presets[r][j - 1]>>
  BY <1>1, <1>3a, <1>4, IpcCmdAssumption DEF Writing
<1>6. ASSUME NEW s \in Slots PROVE table'[s + 1][2] = presets[r][s]
  <2>1. s \in Int /\ k \in Int /\ s + 1 \in 1..k /\ (s + 1) - 1 = s
    BY <1>5, IpcCmdAssumption DEF Slots
  <2>2. CASE s + 1 = k
    <3>1. table'[s + 1] = <<k - 1, name>> /\ k - 1 = s
      BY <1>3, <1>5, <2>1, <2>2, Longer DEF TableInv
    <3>2. QED
      BY <1>2, <3>1
  <2>3. CASE s + 1 # k
    <3>1. s + 1 \in 1..k - 1
      BY <2>1, <2>3
    <3>2. table'[s + 1] = table[s + 1]
      BY <1>3, <1>5, <3>1, Longer DEF TableInv
    <3>3. table[s + 1] = <<s, presets[r][s]>>
      BY <1>5, <2>1, <3>1
    <3>4. QED
      BY <3>2, <3>3
  <2>4. QED
    BY <2>2, <2>3
<1>7. QED
  BY <1>6 DEF Taken, Named

LEMMA MatchWrite ==
  ASSUME TableInv, UniqueInv, MatchInv, NEW r \in Procs, Truncate(r) \/ WriteLine(r)
  PROVE  MatchInv'
<1>1. /\ phase[r] = "write" /\ work[r] # <<>>
      /\ UNCHANGED <<cmdVars, overlapped, parted>>
  BY DEF Truncate, WriteLine, TableInv, runVars
<1>2. Rests(r) = Tail(work[r]) /\ NamesOf(r) = Named(r)
  BY <1>1 DEF Rests, NamesOf
<1>3. CASE UNCHANGED <<phase, work, presets>>
  <2>1. Rests(r)' = Rests(r) /\ NamesOf(r)' = NamesOf(r)
    BY <1>1, <1>3 DEF Rests, NamesOf, Named
  <2>2. QED
    BY <1>1, <1>3, <2>1, MatchTable
<1>4. CASE ~UNCHANGED <<phase, work, presets>>
  <2>1. WriteLine(r) /\ ~(at[r] < NumPresets) /\ Return(r, Tail(work[r]))
    BY <1>4 DEF Truncate, WriteLine, runVars
  <2>2. /\ phase'[r] = "no" /\ work'[r] = Tail(work[r])
        /\ \A q \in Procs : q # r => work'[q] = work[q]
    BY <2>1 DEF Return, TableInv
  <2>3. Rests(r)' = Rests(r)
    BY <1>2, <2>2 DEF Rests
  <2>4. ~overlapped => NamesOf(r)' = NamesOf(r)
    BY <1>2, <2>1, <2>2, LastLine DEF NamesOf
  <2>5. QED
    BY <1>1, <2>2, <2>3, <2>4, MatchTable
<1>5. QED
  BY <1>3, <1>4

LEMMA MatchInvariant == PresetsSpec => []MatchInv
<1>1. PresetsInit => MatchInv
  <2> SUFFICES ASSUME PresetsInit PROVE MatchInv
    OBVIOUS
  <2>1. queue = <<>> /\ \A r \in Procs : Idle(r)
    BY DEF PresetsInit, CmdInit, Idle
  <2>2. Held = {}
    BY DEF PresetsInit, CmdInit, Held
  <2>3. Taken = {}
    <3>1. ASSUME NEW s \in Slots PROVE table[s + 1][2] = NoName
      <4>1. s + 1 \in 1..NumPresets
        BY IpcCmdAssumption DEF Slots
      <4>2. table[s + 1] = Line((s + 1) - 1)
        BY <4>1 DEF PresetsInit
      <4>3. QED
        BY <4>2 DEF Line
    <3>2. QED
      BY <3>1 DEF Taken
  <2>4. InStep({})
    BY <2>1, <2>2, <2>3, EndsNone DEF InStep
  <2>5. QED
    BY <2>4 DEF MatchInv
<1>2. /\ TableInv /\ UniqueInv /\ MoveInv /\ LowInv /\ MatchInv
      /\ [PresetsNext]_vars
      => MatchInv'
  <2> SUFFICES ASSUME TableInv, UniqueInv, MoveInv, LowInv, MatchInv, [PresetsNext]_vars
               PROVE  MatchInv'
    OBVIOUS
  <2>1. ASSUME NEW r \in Procs, Start(r) PROVE MatchInv'
    BY <2>1, MatchStart
  <2>2. ASSUME NEW r \in Procs, CallCmd(r) PROVE MatchInv'
    BY <2>2, MatchCall
  <2>2a. ASSUME NEW r \in Procs, CallFails(r) PROVE MatchInv'
    BY <2>2a, MatchCallFails
  <2>3. ASSUME NEW r \in Procs,
               \/ PositionFails(r) \/ SendMessage(r) \/ Cmd(ReadPosition(r))
               \/ Cmd(PrintPosition(r)) \/ Cmd(ReadFile(r))
        PROVE  MatchInv'
    BY <2>3, MatchCommand
  <2>4. CASE Cmd(Handle)
    BY <2>4, MatchHandle
  <2>5. ASSUME NEW r \in Procs, Open(r) PROVE MatchInv'
    BY <2>5, MatchOpen
  <2>6. ASSUME NEW r \in Procs, ReadLine(r) PROVE MatchInv'
    BY <2>6, MatchRead
  <2>7. ASSUME NEW r \in Procs, Change(r) PROVE MatchInv'
    BY <2>7, MatchChange
  <2>8. ASSUME NEW r \in Procs, Truncate(r) \/ WriteLine(r) PROVE MatchInv'
    BY <2>8, MatchWrite
  <2>9. CASE UNCHANGED vars
    <3>1. UNCHANGED <<todo, queue, camera, table, phase, work, presets, overlapped, parted>>
      BY <2>9 DEF vars, cmdVars, tableVars, runVars
    <3>2. /\ Taken' = Taken /\ Held' = Held
          /\ \A r : Idle(r)' = Idle(r) /\ \A Y : Busy(r, Y) => Busy(r, Y)'
      BY <3>1 DEF Taken, Held, Idle, Busy, Rests, NamesOf, Named
    <3>3. \A Y : InStep(Y) => InStep(Y)'
      BY <3>1, <3>2 DEF InStep
    <3>4. QED
      BY <3>1, <3>3 DEF MatchInv
  <2>10. QED
    BY <2>1, <2>2, <2>2a, <2>3, <2>4, <2>5, <2>6, <2>7, <2>8, <2>9
       DEF PresetsNext, ScriptStep
<1>3. QED
  BY <1>1, <1>2, TableInvariant, UniqueInvariant, MoveInvariant, LowInvariant, PTL
     DEF PresetsSpec

\* At rest, as long as runs have not overlapped and no request was one that only the
\* table or only the camera takes, a number has a name exactly when the camera has a
\* preset there.
THEOREM NamesMatchCamera == PresetsSpec => []TableMatchesCamera
<1>1. TableInv /\ UniqueInv /\ MatchInv => TableMatchesCamera
  <2> SUFFICES ASSUME TableInv, UniqueInv, MatchInv, AtRest, ~overlapped, ~parted,
                      NEW s \in Slots
               PROVE  NameOf(s) = NoName <=> camera.presets[s] = NoPreset
    BY DEF TableMatchesCamera
  <2>1. PICK Y \in SUBSET Slots : Ends(<<>>, Held, Y) /\ Taken = Y
    BY DEF MatchInv, InStep, AtRest
  <2>2. Taken = Held
    BY <2>1, EndsNone
  <2>3. Complete
    BY DEF TableInv, UniqueInv, Alone, AtRest, Idle
  <2>4. NameOf(s) = table[s + 1][2]
    BY <2>3, NameOfLine
  <2>5. QED
    BY <2>2, <2>4 DEF Taken, Held
<1>2. QED
  BY <1>1, TableInvariant, UniqueInvariant, MatchInvariant, PTL
================================================================================
