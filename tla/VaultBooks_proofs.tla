-------------------------- MODULE VaultBooks_proofs --------------------------
(***************************************************************************)
(* The accounts of a vault under the open page policy (OpenPage), VaultInv, *)
(* and the order of its service, SameRowOrder, for requests, banks, sizes   *)
(* and times as in VaultController_proofs.  The read and write pipelines    *)
(* first, whose bursts do not meet (Traffic); then the response buffer,     *)
(* whose reserved space is what is owed (Account), the pending reads, which *)
(* are the reads under way (Counted), the locks of atomics and the places   *)
(* for their write-backs (Locks), and the requests to a row (Order).        *)
(***************************************************************************)
EXTENDS VaultController_proofs

-----------------------------------------------------------------------------
(* The data bus.  The accesses of each kind wait in a line for their turn: *)
(* reads for the data to return, writes for the data to be sent.           *)

Pending == [cmd : Asked, left : Int]
\* p: the accesses of kind e, which have their turn n cycles after they arrive.
Line(p, e, n, age) ==
    /\ \A i \in 1 .. Len(p) : p[i].left >= 0 /\ p[i].left + age[e][p[i].cmd.bank] <= n
    /\ \A i, j \in 1 .. Len(p) : i < j => p[j].left >= p[i].left + BL + 1
\* c: the access that has its turn, for another left cycles.
Busy(c, left, p, e, n, age) ==
    c # NoCMD => /\ 1 <= left /\ left <= BL /\ left + age[e][c.bank] <= n + BL + 1
                 /\ \A i \in 1 .. Len(p) : p[i].left >= left
\* Command c arrives.
Joined(p, c, e, n) == IF c.type = e THEN Append(p, [cmd |-> c, left |-> n]) ELSE p
\* A cycle passes.
Due(p) == p # <<>> /\ p[1].left = 0
LeftOf(p) == CountDown(IF Due(p) THEN Tail(p) ELSE p)
\* c and left become d and l.
Turns(p, c, left, d, l) ==
    /\ Due(p) => d = p[1].cmd /\ l = BL
    /\ ~Due(p) => IF c # NoCMD /\ left # 1 THEN d = c /\ l = left - 1 ELSE d = NoCMD

\* What a buffer is once a command has arrived: longer by it if it is of the kind.
LEMMA JoinedIs ==
  ASSUME NEW p \in Seq(Pending), NEW c, NEW e, NEW n \in Nat, c.type = e => c \in Asked
  PROVE  /\ Joined(p, c, e, n) \in Seq(Pending)
         /\ c.type # e => Joined(p, c, e, n) = p
         /\ c.type = e => /\ Len(Joined(p, c, e, n)) = Len(p) + 1
                          /\ \A i \in 1 .. Len(p) : Joined(p, c, e, n)[i] = p[i]
                          /\ Joined(p, c, e, n)[Len(p) + 1].cmd = c
                          /\ Joined(p, c, e, n)[Len(p) + 1].left = n
<1>1. CASE c.type # e
  BY <1>1 DEF Joined
<1>2. CASE c.type = e
  <2>1. PICK x : x = [cmd |-> c, left |-> n]
    OBVIOUS
  <2>2. x \in Pending /\ x.cmd = c /\ x.left = n
    BY <1>2, <2>1 DEF Pending
  <2>3. Joined(p, c, e, n) = Append(p, x)
    BY <1>2, <2>1 DEF Joined
  <2>4. /\ Append(p, x) \in Seq(Pending) /\ Len(Append(p, x)) = Len(p) + 1
        /\ \A i \in 1 .. Len(p) : Append(p, x)[i] = p[i]
        /\ Append(p, x)[Len(p) + 1] = x
    BY <2>2, AppendProperties
  <2> QED BY <1>2, <2>2, <2>3, <2>4
<1> QED BY <1>1, <1>2

\* What waits in a buffer is an access of a request.
LEMMA PendingHas ==
  ASSUME NEW p \in Seq(Pending), NEW i \in 1 .. Len(p)
  PROVE  p[i].cmd \in Asked /\ p[i].cmd.bank \in Banks /\ p[i].left \in Int /\ p[i].cmd # NoCMD
<1>1. p[i] \in Pending
  OBVIOUS
<1>2. PICK x \in Pending : x = p[i]
  BY <1>1
<1>3. x.cmd \in Asked /\ x.left \in Int
  BY DEF Pending
<1> QED BY <1>2, <1>3, AskedHas

\* A cycle takes the access that is due and counts the others down.
LEMMA LeftOfIs ==
  ASSUME NEW p \in Seq(Pending), NEW n, n = IF Due(p) THEN 1 ELSE 0
  PROVE  /\ LeftOf(p) \in Seq(Pending) /\ Len(LeftOf(p)) = Len(p) - n /\ Len(p) \in Nat
         /\ \A i \in 1 .. Len(p) - n :
               /\ LeftOf(p)[i].cmd = p[i + n].cmd /\ LeftOf(p)[i].left = p[i + n].left - 1
               /\ i + n \in 1 .. Len(p)
         /\ Due(p) => 1 \in 1 .. Len(p)
<1>1. PICK q : q = IF Due(p) THEN Tail(p) ELSE p
  OBVIOUS
<1>2. q \in Seq(Pending) /\ Len(q) = Len(p) - n /\ Len(p) \in Nat /\ (Due(p) => 1 \in 1 .. Len(p))
      /\ \A i \in 1 .. Len(p) - n : q[i] = p[i + n] /\ i + n \in 1 .. Len(p)
  BY <1>1, TailOf DEF Due
<1>3. CountDown(q) \in Seq(Pending) /\ Len(CountDown(q)) = Len(q)
      /\ \A i \in 1 .. Len(q) : CountDown(q)[i].cmd = q[i].cmd /\ CountDown(q)[i].left = q[i].left - 1
  BY <1>2, CountDownIs DEF Pending
<1>4. LeftOf(p) = CountDown(q)
  BY <1>1 DEF LeftOf
<1>5. LeftOf(p) \in Seq(Pending) /\ Len(LeftOf(p)) = Len(p) - n
  BY <1>2, <1>3, <1>4
<1>6. ASSUME NEW i \in 1 .. Len(p) - n
      PROVE  LeftOf(p)[i].cmd = p[i + n].cmd /\ LeftOf(p)[i].left = p[i + n].left - 1
  <2>1. q[i] = p[i + n] /\ i \in 1 .. Len(q)
    BY <1>2
  <2> QED BY <1>3, <1>4, <2>1
<1> QED BY <1>2, <1>5, <1>6

\* The age of events that have not happened is not more than it was.
Younger(g, age, e) == \A b \in Banks : g[e][b] \in Nat /\ g[e][b] <= age[e][b]
\* The command that arrives keeps its distance.
Spaced(c, e, age) == c.type = e => c \in Asked /\ \A b \in Banks : age[e][b] >= BL + 1
\* A command that keeps its distance joins the line behind the others.
LEMMA JoinLine ==
  ASSUME NEW p \in Seq(Pending), NEW e \in {"READ", "WRITE"}, NEW n \in Nat, NEW age \in Ages,
         Line(p, e, n, age), NEW busy \in Asked \cup {NoCMD}, NEW left \in Nat, Busy(busy, left, p, e, n, age),
         NEW c, Spaced(c, e, age), NEW g, Younger(g, age, e), c.type = e => g[e][c.bank] = 0,
         NEW r, r = Joined(p, c, e, n)
  PROVE  Line(r, e, n, g) /\ Busy(busy, left, r, e, n, g)
<1>1. /\ r \in Seq(Pending) /\ Len(p) \in Nat
      /\ c.type # e => r = p
      /\ c.type = e => /\ Len(r) = Len(p) + 1 /\ \A i \in 1 .. Len(p) : r[i] = p[i]
                       /\ r[Len(p) + 1].cmd = c /\ r[Len(p) + 1].left = n
  BY JoinedIs DEF Spaced
<1>2. BL \in Nat
  BY Times
<1>3. ASSUME NEW i \in 1 .. Len(p)
      PROVE  /\ p[i].left \in Int /\ p[i].left >= 0 /\ p[i].left + g[e][p[i].cmd.bank] <= n
             /\ p[i].cmd.bank \in Banks
             /\ c.type = e => n >= p[i].left + BL + 1
  <2>1. p[i].cmd.bank \in Banks /\ p[i].left \in Int /\ e \in Events
    BY PendingHas DEF Events
  <2>2. PICK a, x, b, y : a = age[e][b] /\ x = p[i].left /\ b = p[i].cmd.bank /\ y = g[e][b]
    OBVIOUS
  <2>3. b \in Banks /\ x \in Int /\ x >= 0 /\ x + a <= n
    BY <2>1, <2>2 DEF Line
  <2>4. a \in Nat
    BY <2>1, <2>2, AgesOf
  <2>5. y \in Nat /\ y <= a
    BY <2>1, <2>2 DEF Younger
  <2>6. c.type = e => a >= BL + 1
    BY <2>2, <2>3 DEF Spaced
  <2>7. x + y <= n /\ (c.type = e => n >= x + BL + 1)
    BY <2>3, <2>4, <2>5, <2>6, <1>2
  <2> QED BY <2>2, <2>3, <2>7
<1>4. ASSUME NEW i \in 1 .. Len(r)
      PROVE  r[i].left >= 0 /\ r[i].left + g[e][r[i].cmd.bank] <= n
  <2>1. CASE i \in 1 .. Len(p)
    BY <1>1, <1>3, <2>1
  <2>2. CASE i \notin 1 .. Len(p)
    <3>1. c.type = e /\ i = Len(p) + 1
      BY <1>1, <2>2
    <3> QED BY <1>1, <3>1
  <2> QED BY <2>1, <2>2
<1>5. ASSUME NEW i \in 1 .. Len(r), NEW j \in 1 .. Len(r), i < j
      PROVE  r[j].left >= r[i].left + BL + 1
  <2>1. i \in 1 .. Len(p)
    BY <1>1, <1>5
  <2>2. CASE j \in 1 .. Len(p)
    BY <1>1, <1>5, <2>1, <2>2 DEF Line
  <2>3. CASE j \notin 1 .. Len(p)
    <3>1. c.type = e /\ j = Len(p) + 1
      BY <1>1, <2>3
    <3> QED BY <1>1, <1>3, <2>1, <3>1
  <2> QED BY <2>2, <2>3
<1>6. ASSUME busy # NoCMD
      PROVE  /\ 1 <= left /\ left <= BL /\ left + g[e][busy.bank] <= n + BL + 1
             /\ \A i \in 1 .. Len(r) : r[i].left >= left
  <2>1. busy.bank \in Banks /\ e \in Events
    BY <1>6, AskedHas DEF Events
  <2>2. PICK a, b, y : a = age[e][b] /\ b = busy.bank /\ y = g[e][b]
    OBVIOUS
  <2>3. 1 <= left /\ left <= BL /\ left + a <= n + BL + 1 /\ \A i \in 1 .. Len(p) : p[i].left >= left
    BY <1>6, <2>2 DEF Busy
  <2>4. a \in Nat
    BY <2>1, <2>2, AgesOf
  <2>5. y \in Nat /\ y <= a
    BY <2>1, <2>2 DEF Younger
  <2>6. c.type = e => a >= BL + 1
    BY <2>1, <2>2 DEF Spaced
  <2>7. left + y <= n + BL + 1 /\ (c.type = e => n >= left)
    BY <2>3, <2>4, <2>5, <2>6, <1>2
  <2>8. ASSUME NEW i \in 1 .. Len(r)
        PROVE  r[i].left >= left
    <3>1. CASE i \in 1 .. Len(p)
      BY <1>1, <2>3, <3>1
    <3>2. CASE i \notin 1 .. Len(p)
      <4>1. c.type = e /\ i = Len(p) + 1
        BY <1>1, <3>2
      <4> QED BY <1>1, <2>7, <4>1
    <3> QED BY <3>1, <3>2
  <2> QED BY <2>2, <2>3, <2>7, <2>8
<1> QED BY <1>4, <1>5, <1>6 DEF Line, Busy

\* A cycle keeps the line, and the access that is due finds its turn free.
LEMMA PassLine ==
  ASSUME NEW p \in Seq(Pending), NEW e \in {"READ", "WRITE"}, NEW n \in Nat, NEW g \in Ages,
         Line(p, e, n, g), NEW busy \in Asked \cup {NoCMD}, NEW left \in Nat, Busy(busy, left, p, e, n, g),
         NEW d, NEW l, Turns(p, busy, left, d, l), NEW r, r = LeftOf(p)
  PROVE  /\ Line(r, e, n, Older(g)) /\ Busy(d, l, r, e, n, Older(g))
         /\ Due(p) => busy = NoCMD
<1> DEFINE k == IF Due(p) THEN 1 ELSE 0
<1>1. /\ r \in Seq(Pending) /\ Len(r) = Len(p) - k /\ Len(p) \in Nat
      /\ \A i \in 1 .. Len(p) - k : /\ r[i].cmd = p[i + k].cmd /\ r[i].left = p[i + k].left - 1
                                    /\ i + k \in 1 .. Len(p)
      /\ Due(p) => 1 \in 1 .. Len(p)
  BY LeftOfIs
<1>2. k \in Nat /\ (Due(p) => k = 1) /\ (~Due(p) => k = 0)
  OBVIOUS
<1> HIDE DEF k
<1>3. BL \in Nat /\ BL >= 1
  BY Times
<1>4. ASSUME NEW b \in Banks
      PROVE  Older(g)[e][b] \in Nat /\ Older(g)[e][b] <= g[e][b] + 1 /\ g[e][b] \in Nat
  <2>1. e \in Events /\ g[e][b] \in 0 .. HORIZON /\ HORIZON \in Nat
    BY AgesOf, HorizonFar DEF Events
  <2>2. Older(g)[e][b] = Min({g[e][b] + 1, HORIZON})
    BY <2>1, OlderIs
  <2>3. Min({g[e][b] + 1, HORIZON}) = IF g[e][b] + 1 <= HORIZON THEN g[e][b] + 1 ELSE HORIZON
    BY <2>1, MinOfTwo
  <2> QED BY <2>1, <2>2, <2>3
<1>5. ASSUME NEW i \in 1 .. Len(p)
      PROVE  /\ p[i].left \in Int /\ p[i].left >= 0 /\ p[i].left + g[e][p[i].cmd.bank] <= n
             /\ p[i].cmd.bank \in Banks /\ p[i].cmd # NoCMD /\ p[i].cmd \in Asked
  BY PendingHas DEF Line
<1>6. Due(p) => p[1].left = 0 /\ \A i \in 2 .. Len(p) : p[i].left >= BL + 1
  BY <1>1, <1>3 DEF Due, Line
<1>7. ~Due(p) => \A i \in 1 .. Len(p) : p[i].left >= 1
  <2>1. ASSUME ~Due(p), NEW i \in 1 .. Len(p)
        PROVE  p[i].left >= 1
    <3>1. 1 \in 1 .. Len(p) /\ p # <<>>
      BY <1>1
    <3>2. p[1].left \in Int /\ p[1].left >= 1
      BY <1>5, <2>1, <3>1 DEF Due
    <3>3. i = 1 \/ p[i].left >= p[1].left + BL + 1
      BY <1>1, <3>1 DEF Line
    <3> QED BY <1>3, <1>5, <3>2, <3>3
  <2> QED BY <2>1
<1>8. ASSUME NEW i \in 1 .. Len(r)
      PROVE  r[i].left >= 0 /\ r[i].left + Older(g)[e][r[i].cmd.bank] <= n /\ r[i].left \in Int
  <2>1. /\ r[i].cmd = p[i + k].cmd /\ r[i].left = p[i + k].left - 1 /\ i + k \in 1 .. Len(p)
    BY <1>1
  <2>2. p[i + k].left >= 1
    <3>1. CASE Due(p)
      BY <1>2, <1>3, <1>6, <2>1, <3>1, <1>1, <1>5
    <3>2. CASE ~Due(p)
      BY <1>2, <1>7, <2>1, <3>2
    <3> QED BY <3>1, <3>2
  <2>3. PICK x, b, y, z : x = p[i + k].left /\ b = p[i + k].cmd.bank /\ y = g[e][b] /\ z = Older(g)[e][b]
    OBVIOUS
  <2>4. x \in Int /\ x >= 1 /\ x + y <= n /\ y \in Nat /\ z \in Nat /\ z <= y + 1
    BY <1>4, <1>5, <2>1, <2>2, <2>3
  <2>5. Older(g)[e][r[i].cmd.bank] = z /\ r[i].left = x - 1
    BY <2>1, <2>3
  <2>6. x - 1 >= 0 /\ (x - 1) + z <= n /\ x - 1 \in Int
    BY <2>4
  <2> QED BY <2>5, <2>6
<1>9. ASSUME NEW i \in 1 .. Len(r), NEW j \in 1 .. Len(r), i < j
      PROVE  r[j].left >= r[i].left + BL + 1
  <2>1. /\ r[i].left = p[i + k].left - 1 /\ i + k \in 1 .. Len(p)
        /\ r[j].left = p[j + k].left - 1 /\ j + k \in 1 .. Len(p)
    BY <1>1
  <2>2. PICK x, y : x = i + k /\ y = j + k
    OBVIOUS
  <2>3. x < y
    BY <1>2, <1>9, <2>2
  <2>4. p[y].left >= p[x].left + BL + 1
    BY <2>1, <2>2, <2>3 DEF Line
  <2>5. p[y].left \in Int /\ p[x].left \in Int
    BY <1>5, <2>1, <2>2
  <2>6. PICK u, v : u = p[x].left /\ v = p[y].left
    OBVIOUS
  <2>7. r[i].left = u - 1 /\ r[j].left = v - 1 /\ u \in Int /\ v \in Int /\ v >= u + BL + 1
    BY <2>1, <2>2, <2>4, <2>5, <2>6
  <2>8. v - 1 >= (u - 1) + BL + 1
    BY <1>3, <2>7
  <2> QED BY <2>7, <2>8
<1>10. Due(p) => busy = NoCMD
  <2>1. ASSUME Due(p), busy # NoCMD
        PROVE  FALSE
    <3>1. 1 <= left /\ p[1].left >= left /\ p[1].left = 0
      BY <1>1, <1>6, <2>1 DEF Busy
    <3> QED BY <3>1
  <2> QED BY <2>1
<1>11. ASSUME d # NoCMD
       PROVE  /\ 1 <= l /\ l <= BL /\ l + Older(g)[e][d.bank] <= n + BL + 1
              /\ \A i \in 1 .. Len(r) : r[i].left >= l
  <2>1. CASE Due(p)
    <3>1. d = p[1].cmd /\ l = BL /\ 1 \in 1 .. Len(p)
      BY <1>1, <2>1 DEF Turns
    <3>2. PICK b, y, z : b = d.bank /\ y = g[e][b] /\ z = Older(g)[e][b]
      OBVIOUS
    <3>3. y \in Nat /\ y <= n /\ z \in Nat /\ z <= y + 1
      BY <1>4, <1>5, <1>6, <2>1, <3>1, <3>2
    <3>4. ASSUME NEW i \in 1 .. Len(r)
          PROVE  r[i].left >= BL
      BY <1>1, <1>2, <1>3, <1>5, <1>6, <2>1
    <3>5. Older(g)[e][d.bank] = z
      BY <3>2
    <3>6. BL + z <= n + BL + 1
      BY <1>3, <3>3
    <3> QED BY <1>3, <3>1, <3>4, <3>5, <3>6
  <2>2. CASE ~Due(p)
    <3>1. busy # NoCMD /\ left # 1 /\ d = busy /\ l = left - 1
      BY <1>11, <2>2 DEF Turns
    <3>2. busy.bank \in Banks
      BY <3>1, AskedHas
    <3>3. PICK b, y, z : b = d.bank /\ y = g[e][b] /\ z = Older(g)[e][b]
      OBVIOUS
    <3>4. y \in Nat /\ z \in Nat /\ z <= y + 1
      BY <1>4, <3>1, <3>2, <3>3
    <3>5. 1 <= left /\ left <= BL /\ left + y <= n + BL + 1 /\ \A i \in 1 .. Len(p) : p[i].left >= left
      BY <3>1, <3>3 DEF Busy
    <3>6. ASSUME NEW i \in 1 .. Len(r)
          PROVE  r[i].left >= l
      BY <1>1, <1>2, <1>5, <2>2, <3>1, <3>5
    <3>7. Older(g)[e][d.bank] = z
      BY <3>3
    <3>8. 1 <= left - 1 /\ left - 1 <= BL /\ (left - 1) + z <= n + BL + 1
      BY <1>3, <3>1, <3>4, <3>5
    <3> QED BY <3>1, <3>6, <3>7, <3>8
  <2> QED BY <2>1, <2>2
<1> QED BY <1>8, <1>9, <1>10, <1>11 DEF Line, Busy

-----------------------------------------------------------------------------
\* Reads p wait and rd returns in rl cycles, writes q wait and wd is sent for another
\* wl: when a read returns no write is sent.
Apart(p, rd, rl, q, wd, wl) ==
    /\ \A i \in 1 .. Len(p) : \A j \in 1 .. Len(q) :
           p[i].left + BL < q[j].left \/ p[i].left >= q[j].left
    /\ rd # NoCMD => \A j \in 1 .. Len(q) : rl <= q[j].left
    /\ rd # NoCMD /\ wd # NoCMD => rl >= wl
\* The command that arrives keeps its distance to those of the other kind.
Turned(c, age) ==
    /\ c.type = "READ" => \A b \in Banks : age["WRITE"][b] >= WL + 1
    /\ c.type = "WRITE" => \A b \in Banks : age["READ"][b] >= RL + BL + 1 - WL

\* A command at the turnaround distances keeps the bursts of reads and writes apart.
LEMMA JoinApart ==
  ASSUME NEW p \in Seq(Pending), NEW q \in Seq(Pending), NEW age \in Ages,
         Line(p, "READ", RL, age), Line(q, "WRITE", WL, age),
         NEW rd \in Asked \cup {NoCMD}, NEW rl \in Nat, Busy(rd, rl, p, "READ", RL, age),
         NEW wd, NEW wl, Apart(p, rd, rl, q, wd, wl),
         NEW c, c.type \in {"READ", "WRITE"} => c \in Asked, Turned(c, age)
  PROVE  Apart(Joined(p, c, "READ", RL), rd, rl, Joined(q, c, "WRITE", WL), wd, wl)
<1>0. RL \in Nat /\ WL \in Nat /\ BL \in Nat /\ Len(p) \in Nat /\ Len(q) \in Nat
  BY Delays, Times
<1>1. CASE c.type \notin {"READ", "WRITE"}
  BY <1>1 DEF Joined
<1>2. CASE c.type = "READ"
  <2>1. Joined(q, c, "WRITE", WL) = q
    BY <1>2 DEF Joined
  <2>2. ASSUME NEW j \in 1 .. Len(q)
        PROVE  FALSE
    <3>1. PICK x, b, a : x = q[j].left /\ b = q[j].cmd.bank /\ a = age["WRITE"][b]
      OBVIOUS
    <3>2. b \in Banks /\ x \in Int /\ x >= 0 /\ x + a <= WL
      BY <3>1, PendingHas DEF Line
    <3>3. a \in Nat /\ a >= WL + 1
      BY <1>2, <3>1, <3>2, AgesOf DEF Turned
    <3> QED BY <1>0, <3>2, <3>3
  <2>3. \A j \in 1 .. Len(q) : FALSE
    BY <2>2
  <2> QED BY <2>1, <2>3 DEF Apart
<1>3. CASE c.type = "WRITE"
  <2>0. Joined(p, c, "READ", RL) = p
    BY <1>3 DEF Joined
  <2>1. PICK r : r = Joined(q, c, "WRITE", WL)
    OBVIOUS
  <2>2. /\ Len(r) = Len(q) + 1 /\ (\A i \in 1 .. Len(q) : r[i] = q[i]) /\ r[Len(q) + 1].left = WL
    BY <1>0, <1>3, <2>1, JoinedIs
  <2>3. ASSUME NEW i \in 1 .. Len(p)
        PROVE  p[i].left + BL < WL
    <3>1. PICK x, b, a : x = p[i].left /\ b = p[i].cmd.bank /\ a = age["READ"][b]
      OBVIOUS
    <3>2. b \in Banks /\ x \in Int /\ x >= 0 /\ x + a <= RL
      BY <3>1, PendingHas DEF Line
    <3>3. a \in Nat /\ a >= RL + BL + 1 - WL
      BY <1>3, <3>1, <3>2, AgesOf DEF Turned
    <3>4. x + BL < WL
      BY <1>0, <3>2, <3>3
    <3> QED BY <3>1, <3>4
  <2>4. rd # NoCMD => rl <= WL
    <3>1. ASSUME rd # NoCMD
          PROVE  rl <= WL
      <4>1. PICK b, a : b = rd.bank /\ a = age["READ"][b]
        OBVIOUS
      <4>2. b \in Banks /\ rl + a <= RL + BL + 1
        BY <3>1, <4>1, AskedHas DEF Busy
      <4>3. a \in Nat /\ a >= RL + BL + 1 - WL
        BY <1>3, <4>1, <4>2, AgesOf DEF Turned
      <4> QED BY <1>0, <4>2, <4>3
    <3> QED BY <3>1
  <2>5. ASSUME NEW i \in 1 .. Len(p), NEW j \in 1 .. Len(r)
        PROVE  p[i].left + BL < r[j].left \/ p[i].left >= r[j].left
    <3>1. CASE j \in 1 .. Len(q)
      BY <2>2, <3>1 DEF Apart
    <3>2. CASE j \notin 1 .. Len(q)
      <4>1. j = Len(q) + 1
        BY <1>0, <2>2, <3>2
      <4> QED BY <2>2, <2>3, <4>1
    <3> QED BY <3>1, <3>2
  <2>6. ASSUME rd # NoCMD, NEW j \in 1 .. Len(r)
        PROVE  rl <= r[j].left
    <3>1. CASE j \in 1 .. Len(q)
      BY <2>2, <2>6, <3>1 DEF Apart
    <3>2. CASE j \notin 1 .. Len(q)
      <4>1. j = Len(q) + 1
        BY <1>0, <2>2, <3>2
      <4> QED BY <2>2, <2>4, <2>6, <4>1
    <3> QED BY <3>1, <3>2
  <2>7. rd # NoCMD /\ wd # NoCMD => rl >= wl
    BY DEF Apart
  <2> QED BY <2>0, <2>1, <2>5, <2>6, <2>7 DEF Apart
<1> QED BY <1>1, <1>2, <1>3

\* A cycle keeps them apart, and no write is on the bus when a read ends.
LEMMA PassApart ==
  ASSUME NEW p \in Seq(Pending), NEW q \in Seq(Pending), NEW g \in Ages,
         Line(p, "READ", RL, g), Line(q, "WRITE", WL, g),
         NEW rd \in Asked \cup {NoCMD}, NEW rl \in Nat, Busy(rd, rl, p, "READ", RL, g),
         NEW wd \in Asked \cup {NoCMD}, NEW wl \in Nat, Busy(wd, wl, q, "WRITE", WL, g),
         Apart(p, rd, rl, q, wd, wl),
         NEW rd1, NEW rl1, Turns(p, rd, rl, rd1, rl1), NEW wd1, NEW wl1, Turns(q, wd, wl, wd1, wl1)
  PROVE  /\ Apart(LeftOf(p), rd1, rl1, LeftOf(q), wd1, wl1)
         /\ rd # NoCMD /\ rl = 1 => wd1 = NoCMD
<1> DEFINE k == IF Due(p) THEN 1 ELSE 0
           m == IF Due(q) THEN 1 ELSE 0
<1>0. BL \in Nat /\ BL >= 1
  BY Times
<1>1. PICK p1, q1 : p1 = LeftOf(p) /\ q1 = LeftOf(q)
  OBVIOUS
<1>2. /\ Len(p1) = Len(p) - k /\ Len(p) \in Nat
      /\ \A i \in 1 .. Len(p) - k : p1[i].left = p[i + k].left - 1 /\ i + k \in 1 .. Len(p)
      /\ Due(p) => 1 \in 1 .. Len(p)
  BY <1>1, LeftOfIs
<1>3. /\ Len(q1) = Len(q) - m /\ Len(q) \in Nat
      /\ \A i \in 1 .. Len(q) - m : q1[i].left = q[i + m].left - 1 /\ i + m \in 1 .. Len(q)
      /\ Due(q) => 1 \in 1 .. Len(q)
  BY <1>1, LeftOfIs
<1>4. /\ k \in Nat /\ (Due(p) => k = 1) /\ (~Due(p) => k = 0)
      /\ m \in Nat /\ (Due(q) => m = 1) /\ (~Due(q) => m = 0)
  OBVIOUS
<1> HIDE DEF k, m
<1>5. /\ \A i \in 1 .. Len(p) : p[i].left \in Int
      /\ \A i \in 1 .. Len(q) : q[i].left \in Int /\ q[i].left >= 0
  BY PendingHas DEF Line
<1>6. Due(p) => p[1].left = 0
  BY DEF Due
<1>7. Due(q) => q[1].left = 0 /\ \A j \in 2 .. Len(q) : q[j].left >= BL + 1
  BY <1>0, <1>3 DEF Due, Line
<1>8. ~Due(q) => \A j \in 1 .. Len(q) : q[j].left >= 1
  <2>1. ASSUME ~Due(q), NEW j \in 1 .. Len(q)
        PROVE  q[j].left >= 1
    <3>1. 1 \in 1 .. Len(q) /\ q # <<>>
      BY <1>3
    <3>2. q[1].left \in Int /\ q[1].left >= 1
      BY <1>5, <2>1, <3>1 DEF Due
    <3>3. j = 1 \/ q[j].left >= q[1].left + BL + 1
      BY <1>3, <3>1 DEF Line
    <3> QED BY <1>0, <1>5, <3>2, <3>3
  <2> QED BY <2>1
<1>9. Due(p) => rd = NoCMD
  BY <1>2, <1>6 DEF Busy
<1>10. Due(q) => wd = NoCMD
  BY <1>3, <1>7 DEF Busy
<1>11. ASSUME NEW i \in 1 .. Len(p1), NEW j \in 1 .. Len(q1)
       PROVE  p1[i].left + BL < q1[j].left \/ p1[i].left >= q1[j].left
  <2>1. /\ p1[i].left = p[i + k].left - 1 /\ i + k \in 1 .. Len(p)
        /\ q1[j].left = q[j + m].left - 1 /\ j + m \in 1 .. Len(q)
    BY <1>2, <1>3
  <2>2. PICK x, y : x = p[i + k].left /\ y = q[j + m].left
    OBVIOUS
  <2>3. x \in Int /\ y \in Int /\ (x + BL < y \/ x >= y)
    BY <1>5, <2>1, <2>2 DEF Apart
  <2>4. (x - 1) + BL < y - 1 \/ x - 1 >= y - 1
    BY <1>0, <2>3
  <2> QED BY <2>1, <2>2, <2>4
<1>12. ASSUME rd1 # NoCMD, NEW j \in 1 .. Len(q1)
       PROVE  rl1 <= q1[j].left
  <2>1. q1[j].left = q[j + m].left - 1 /\ j + m \in 1 .. Len(q)
    BY <1>3
  <2>2. PICK y : y = q[j + m].left
    OBVIOUS
  <2>3. y \in Int /\ y >= 1
    <3>1. CASE Due(q)
      <4>1. j + m \in 2 .. Len(q)
        BY <1>3, <1>4, <2>1, <3>1
      <4> QED BY <1>0, <1>5, <1>7, <2>1, <2>2, <3>1, <4>1
    <3>2. CASE ~Due(q)
      BY <1>5, <1>8, <2>1, <2>2, <3>2
    <3> QED BY <3>1, <3>2
  <2>4. CASE Due(p)
    <3>1. rl1 = BL /\ p[1].left = 0 /\ 1 \in 1 .. Len(p)
      BY <1>2, <1>6, <2>4 DEF Turns
    <3>2. 0 + BL < y \/ 0 >= y
      BY <2>1, <2>2, <3>1 DEF Apart
    <3>3. BL <= y - 1
      BY <1>0, <2>3, <3>2
    <3> QED BY <2>1, <2>2, <3>1, <3>3
  <2>5. CASE ~Due(p)
    <3>1. rd # NoCMD /\ rl1 = rl - 1
      BY <1>12, <2>5 DEF Turns
    <3>2. rl <= y
      BY <2>1, <2>2, <3>1 DEF Apart
    <3>3. rl - 1 <= y - 1
      BY <2>3, <3>2
    <3> QED BY <2>1, <2>2, <3>1, <3>3
  <2> QED BY <2>4, <2>5
<1>13. ASSUME rd1 # NoCMD, wd1 # NoCMD
       PROVE  rl1 >= wl1
  <2>1. CASE Due(q)
    <3>1. wl1 = BL /\ q[1].left = 0 /\ 1 \in 1 .. Len(q)
      BY <1>3, <1>7, <2>1 DEF Turns
    <3>2. CASE Due(p)
      BY <1>0, <3>1, <3>2 DEF Turns
    <3>3. CASE ~Due(p)
      <4>1. rd # NoCMD
        BY <1>13, <3>3 DEF Turns
      <4>2. rl <= q[1].left /\ 1 <= rl
        BY <3>1, <4>1 DEF Apart, Busy
      <4> QED BY <3>1, <4>2
    <3> QED BY <3>2, <3>3
  <2>2. CASE ~Due(q)
    <3>1. wd # NoCMD /\ wl1 = wl - 1
      BY <1>13, <2>2 DEF Turns
    <3>2. 1 <= wl /\ wl <= BL
      BY <3>1 DEF Busy
    <3>3. CASE Due(p)
      <4>1. rl1 = BL
        BY <3>3 DEF Turns
      <4> QED BY <1>0, <3>1, <3>2, <4>1
    <3>4. CASE ~Due(p)
      <4>1. rd # NoCMD /\ rl1 = rl - 1
        BY <1>13, <3>4 DEF Turns
      <4>2. rl >= wl
        BY <3>1, <4>1 DEF Apart
      <4> QED BY <3>1, <4>1, <4>2
    <3> QED BY <3>3, <3>4
  <2> QED BY <2>1, <2>2
<1>14. ASSUME rd # NoCMD, rl = 1
       PROVE  wd1 = NoCMD
  <2>1. CASE Due(q)
    <3>1. q[1].left = 0 /\ 1 \in 1 .. Len(q)
      BY <1>3, <1>7, <2>1
    <3>2. rl <= q[1].left
      BY <1>14, <3>1 DEF Apart
    <3> QED BY <1>14, <3>1, <3>2
  <2>2. CASE ~Due(q)
    <3>1. wd # NoCMD => wl = 1
      <4>1. wd # NoCMD => 1 <= wl /\ rl >= wl
        BY <1>14 DEF Apart, Busy
      <4> QED BY <1>14, <4>1
    <3> QED BY <2>2, <3>1 DEF Turns
  <2> QED BY <2>1, <2>2
<1>15. Apart(p1, rd1, rl1, q1, wd1, wl1)
  BY <1>11, <1>12, <1>13 DEF Apart
<1> QED BY <1>1, <1>14, <1>15

-----------------------------------------------------------------------------
(* The data bus in a Cycle.                                                *)
\* The two lines and their heads: none is in the way of another.
Lanes(p, rd, rl, q, wd, wl, age) ==
    /\ Line(p, "READ", RL, age) /\ Busy(rd, rl, p, "READ", RL, age)
    /\ Line(q, "WRITE", WL, age) /\ Busy(wd, wl, q, "WRITE", WL, age)
    /\ Apart(p, rd, rl, q, wd, wl)
\* An operation of an atomic ends before the next read returns.
AtomicTurn(s) ==
    s.atomicCMD # NoCMD =>
        /\ Atomic(s.atomicCMD) /\ s.atomicOperLeft <= 1
        /\ s.readData # NoCMD => s.readLeft >= s.atomicOperLeft + 1
\* The write on the command bus is already in writeData, its age is not yet 0.
Traffic(s, age) ==
    /\ \E q \in Seq(Pending) :
          /\ s.writeData = Joined(q, s.cmdBus, "WRITE", WL)
          /\ Lanes(s.reads, s.readData, s.readLeft, q, s.dataBus, s.dataLeft, age)
    /\ AtomicTurn(s)
\* The length of a burst: blocks of up to 128 bytes.
ShortBursts == BL <= tCCD + 2

\* What the two pipelines hold.
LEMMA LanesTypes ==
  ASSUME NEW s \in VaultSet
  PROVE  /\ s.reads \in Seq(Pending) /\ s.writeData \in Seq(Pending)
         /\ s.readData \in Asked \cup {NoCMD} /\ s.readLeft \in Nat
         /\ s.dataBus \in Asked \cup {NoCMD} /\ s.dataLeft \in Nat
         /\ s.atomicCMD \in Asked \cup {NoCMD} /\ s.atomicOperLeft \in Nat
<1>1. VaultHas(s)
  BY VaultSetIs
<1>2. PendingReads \subseteq Pending /\ PendingWrites \subseteq Pending
  BY DEF PendingReads, PendingWrites, Pending, AskedReads, AskedWrites
<1>3. PICK p \in Seq(PendingReads) : p = s.reads
  BY <1>1 DEF VaultHas
<1>4. PICK q \in Seq(PendingWrites) : q = s.writeData
  BY <1>1 DEF VaultHas
<1>5. p \in Seq(Pending)
  BY <1>2
<1>6. q \in Seq(Pending)
  BY <1>2
<1>7. AskedReads \subseteq Asked /\ AskedWrites \subseteq Asked
  BY DEF AskedReads, AskedWrites
<1> QED BY <1>1, <1>3, <1>4, <1>5, <1>6, <1>7 DEF VaultHas

\* The command on the bus keeps its distance from those before it.
LEMMA BusSpaced ==
  ASSUME OpenPage, ShortBursts, NEW s, NEW age, Base(s, age), NEW c, c = s.cmdBus
  PROVE  /\ Spaced(c, "READ", age) /\ Spaced(c, "WRITE", age) /\ Turned(c, age)
         /\ c.type \in {"READ", "WRITE"} => c \in Asked
         /\ age \in Ages
<1>1. /\ age \in Ages /\ c \in Issued /\ (c # NoCMD => Arrives(s.bank, age, c))
  BY VaultSetIs DEF Base, Common, Timed, VaultHas
<1>2. /\ c.type \in {"READ", "WRITE"} => c \in Asked
      /\ c.type \in {"READ", "WRITE"} => c # NoCMD
  BY <1>1, IssuedHas, CloserHas
<1>3. \A b \in Banks : age["READ"][b] \in Nat /\ age["WRITE"][b] \in Nat
  BY <1>1, AgesOf
<1>4. PICK n : n = Later(tCCD, BL)
  OBVIOUS
<1>5. n >= BL /\ n \in Nat /\ BL \in Nat /\ tCCD \in Nat
  BY <1>4, Times DEF Later
<1>6. ASSUME c.type = "READ", NEW b \in Banks
      PROVE  age["READ"][b] >= BL + 1 /\ age["WRITE"][b] >= WL + 1
  <2>1. age["READ"][b] >= n + 1 /\ age["WRITE"][b] >= WRITE_TO_READ_DELAY_B + 1
    BY <1>1, <1>2, <1>4, <1>6 DEF Arrives
  <2>2. PICK x, y : x = age["READ"][b] /\ y = age["WRITE"][b]
    OBVIOUS
  <2>3. x \in Nat /\ y \in Nat /\ x >= n + 1
    BY <1>3, <2>1, <2>2
  <2>4. WRITE_TO_READ_DELAY_B \in Nat /\ WRITE_TO_READ_DELAY_B >= WL /\ WL \in Nat
    BY Times, Delays DEF WRITE_TO_READ_DELAY_B
  <2>5. PICK d : d = WRITE_TO_READ_DELAY_B
    OBVIOUS
  <2>6. y >= d + 1 /\ d >= WL /\ d \in Nat
    BY <2>1, <2>2, <2>4, <2>5
  <2>7. x >= BL + 1 /\ y >= WL + 1
    BY <1>5, <2>3, <2>4, <2>6
  <2> QED BY <2>2, <2>7
<1>7. ASSUME c.type = "WRITE", NEW b \in Banks
      PROVE  age["WRITE"][b] >= BL + 1 /\ age["READ"][b] >= RL + BL + 1 - WL
  <2>1. age["WRITE"][b] >= n + 1 /\ age["READ"][b] >= READ_TO_WRITE_DELAY + 1
    BY <1>1, <1>2, <1>4, <1>7 DEF Arrives
  <2>2. PICK x, y : x = age["READ"][b] /\ y = age["WRITE"][b]
    OBVIOUS
  <2>3. x \in Nat /\ y \in Nat /\ y >= n + 1
    BY <1>3, <2>1, <2>2
  <2>4. x >= RL + tCCD + 2 - WL + 1 /\ RL \in Nat /\ WL \in Nat
    BY <2>1, <2>2, Delays DEF READ_TO_WRITE_DELAY
  <2>5. x >= RL + BL + 1 - WL /\ y >= BL + 1
    BY <1>5, <2>3, <2>4 DEF ShortBursts
  <2> QED BY <2>2, <2>5
<1> QED BY <1>1, <1>2, <1>6, <1>7 DEF Spaced, Turned

\* A command arrives: both pipelines (DRAM::receiveCMD, VaultController.cpp:205-211).
LEMMA JoinLanes ==
  ASSUME NEW p \in Seq(Pending), NEW q \in Seq(Pending), NEW age \in Ages,
         NEW rd \in Asked \cup {NoCMD}, NEW rl \in Nat, NEW wd \in Asked \cup {NoCMD}, NEW wl \in Nat,
         Lanes(p, rd, rl, q, wd, wl, age),
         NEW c, c.type \in {"READ", "WRITE"} => c \in Asked,
         Spaced(c, "READ", age), Spaced(c, "WRITE", age), Turned(c, age),
         NEW g, Younger(g, age, "READ"), Younger(g, age, "WRITE"),
         c.type = "READ" => g["READ"][c.bank] = 0, c.type = "WRITE" => g["WRITE"][c.bank] = 0
  PROVE  Lanes(Joined(p, c, "READ", RL), rd, rl, Joined(q, c, "WRITE", WL), wd, wl, g)
<1>0. PICK x, y : x = Joined(p, c, "READ", RL) /\ y = Joined(q, c, "WRITE", WL)
  OBVIOUS
<1>1. RL \in Nat /\ WL \in Nat
  BY Delays
<1>3. Line(x, "READ", RL, g) /\ Busy(rd, rl, x, "READ", RL, g)
  BY <1>0, <1>1, JoinLine DEF Lanes
<1>4. Line(y, "WRITE", WL, g) /\ Busy(wd, wl, y, "WRITE", WL, g)
  BY <1>0, <1>1, JoinLine DEF Lanes
<1>5. Apart(x, rd, rl, y, wd, wl)
  BY <1>0, JoinApart DEF Lanes
<1> QED BY <1>0, <1>3, <1>4, <1>5 DEF Lanes

\* A cycle passes: both pipelines (DRAM::UpdateState, VaultController.cpp:310-347).
LEMMA PassLanes ==
  ASSUME NEW p \in Seq(Pending), NEW q \in Seq(Pending), NEW g \in Ages,
         NEW rd \in Asked \cup {NoCMD}, NEW rl \in Nat, NEW wd \in Asked \cup {NoCMD}, NEW wl \in Nat,
         Lanes(p, rd, rl, q, wd, wl, g),
         NEW rd1, NEW rl1, Turns(p, rd, rl, rd1, rl1), NEW wd1, NEW wl1, Turns(q, wd, wl, wd1, wl1)
  PROVE  /\ Lanes(LeftOf(p), rd1, rl1, LeftOf(q), wd1, wl1, Older(g))
         /\ rd # NoCMD /\ rl = 1 => wd1 = NoCMD
         /\ (Due(p) => rd = NoCMD) /\ (Due(q) => wd = NoCMD)
<1>0. PICK x, y : x = LeftOf(p) /\ y = LeftOf(q)
  OBVIOUS
<1>1. RL \in Nat /\ WL \in Nat
  BY Delays
<1>3. Line(x, "READ", RL, Older(g)) /\ Busy(rd1, rl1, x, "READ", RL, Older(g)) /\ (Due(p) => rd = NoCMD)
  BY <1>0, <1>1, PassLine DEF Lanes
<1>4. Line(y, "WRITE", WL, Older(g)) /\ Busy(wd1, wl1, y, "WRITE", WL, Older(g)) /\ (Due(q) => wd = NoCMD)
  BY <1>0, <1>1, PassLine DEF Lanes
<1>5. Apart(x, rd1, rl1, y, wd1, wl1) /\ (rd # NoCMD /\ rl = 1 => wd1 = NoCMD)
  BY <1>0, PassApart DEF Lanes
<1> QED BY <1>0, <1>3, <1>4, <1>5 DEF Lanes

-----------------------------------------------------------------------------
\* The bus in UpdateCountdown.
LEMMA CountdownBus ==
  ASSUME NEW s \in VaultSet, s.cmdBus # NoCMD => s.cmdLeft = 1, NEW due \in BOOLEAN,
         s.cmdBus # NoCMD => ReceiveCMD(s.bank, s.cmdBus) \in [Banks -> BankType],
         s.dataBus # NoCMD => s.dataLeft >= 1,
         NEW t, t = UpdateCountdown(s, due)
  PROVE  /\ t.reads = Joined(s.reads, s.cmdBus, "READ", RL)
         /\ t.writeData = LeftOf(s.writeData)
         /\ Turns(s.writeData, s.dataBus, s.dataLeft, t.dataBus, t.dataLeft)
<1>1. PICK s1 : s1 = CommandOut(s)
  OBVIOUS
<1>2. PICK s2 : s2 = DataOut(s1)
  OBVIOUS
<1>3. PICK s3 : s3 = WriteDataOut(s2)
  OBVIOUS
<1>4. t = Timer(s3, due)
  BY <1>1, <1>2, <1>3, Zenon DEF UpdateCountdown, Timer
<1>5. IsVault(s) /\ s.dataLeft \in Nat /\ s.cmdBus \in Issued
  BY VaultSetIs DEF VaultHas
<1>6. /\ Same(s, s1, {"cmdBus", "cmdLeft", "bank", "reads"})
      /\ s1.reads = IF s.cmdBus.type \in Reads THEN Append(s.reads, [cmd |-> s.cmdBus, left |-> RL])
                    ELSE s.reads
  BY <1>1, <1>5, CommandOutFrame
<1>7. /\ Same(s1, s2, {"dataBus", "dataLeft", "up", "pendingDataSize", "error"})
      /\ s1.dataBus = NoCMD => s2 = s1
      /\ s1.dataBus # NoCMD /\ s1.dataLeft > 1 => s2.dataBus = s1.dataBus /\ s2.dataLeft = s1.dataLeft - 1
      /\ s1.dataBus # NoCMD /\ ~(s1.dataLeft > 1) => s2.dataBus = NoCMD
  <2>1. IsVault(s1)
    BY <1>6 DEF Same
  <2> QED BY <1>2, <2>1, DataOutFrame
<1>8. /\ Same(s2, s3, {"dataBus", "dataLeft", "writeData", "error"})
      /\ WriteDue(s2) => s3.dataBus = s2.writeData[1].cmd /\ s3.dataLeft = BL
                         /\ s3.writeData = CountDown(Tail(s2.writeData))
      /\ ~WriteDue(s2) => s3.dataBus = s2.dataBus /\ s3.dataLeft = s2.dataLeft
                          /\ s3.writeData = CountDown(s2.writeData)
  <2>1. IsVault(s2)
    BY <1>7 DEF Same
  <2> QED BY <1>3, <2>1, WriteDataOutFrame
<1>9. Same(s3, t, {"refreshWaiting", "refreshes"})
  <2>0. IsVault(s3)
    BY <1>8 DEF Same
  <2>1. (due => Same(s3, t, {"refreshWaiting", "refreshes"})) /\ (~due => t = s3)
    BY <1>4, <2>0, TimerFrame
  <2> QED BY <2>1, <1>8, SameSelf DEF Same
<1>10. /\ s1.dataBus = s.dataBus /\ s1.dataLeft = s.dataLeft /\ s2.writeData = s.writeData
       /\ t.reads = s1.reads /\ t.writeData = s3.writeData /\ t.dataBus = s3.dataBus /\ t.dataLeft = s3.dataLeft
  BY <1>6, <1>7, <1>8, <1>9 DEF Same, Fields
<1>11. t.reads = Joined(s.reads, s.cmdBus, "READ", RL)
  <2>1. s.cmdBus.type \in Reads <=> s.cmdBus.type = "READ"
    BY <1>5, IssuedHas DEF Reads
  <2> QED BY <1>6, <1>10, <2>1, Zenon DEF Joined
<1>12. WriteDue(s2) <=> Due(s.writeData)
  BY <1>10, Zenon DEF WriteDue, Due
<1>13. t.writeData = LeftOf(s.writeData)
  BY <1>8, <1>10, <1>12 DEF LeftOf
<1>14. Turns(s.writeData, s.dataBus, s.dataLeft, t.dataBus, t.dataLeft)
  <2>1. CASE Due(s.writeData)
    BY <1>8, <1>10, <1>12, <2>1 DEF Turns
  <2>2. CASE ~Due(s.writeData)
    <3>1. t.dataBus = s2.dataBus /\ t.dataLeft = s2.dataLeft
      BY <1>8, <1>10, <1>12, <2>2
    <3>2. IF s.dataBus # NoCMD /\ s.dataLeft # 1 THEN s2.dataBus = s.dataBus /\ s2.dataLeft = s.dataLeft - 1
          ELSE s2.dataBus = NoCMD
      BY <1>5, <1>7, <1>10
    <3> QED BY <2>2, <3>1, <3>2 DEF Turns
  <2> QED BY <2>1, <2>2
<1> QED BY <1>11, <1>13, <1>14

\* The state at each stage of a Cycle that starts in s and ends in w.
Stages(s, taken, due, u, f, p, i, a, e, k, n, w) ==
    /\ u = UpdateCountdown(s, due) /\ f = Filled(s, taken, due) /\ p = CmdPop(f)
    /\ i = IssuePopped(p) /\ a = AtomicOperation(i) /\ e = EnablePowerdown(a)
    /\ k = Clocked(e) /\ n = Ended(k) /\ w = Begun(n)

\* Each stage in its type, the bus free for the command that is popped.
Staged(s, u, f, p, i, a, e, k, n, w) ==
    /\ s \in VaultSet /\ u \in VaultSet /\ f \in VaultSet /\ p \in VaultSet /\ i \in VaultSet
    /\ a \in VaultSet /\ e \in VaultSet /\ k \in VaultSet /\ n \in VaultSet /\ w \in VaultSet
    /\ Same(u, f, Converted \cup {"up"}) /\ Chains(f) /\ f.popped = NoCMD
    /\ u.cmdBus = NoCMD /\ f.cmdBus = NoCMD /\ p.cmdBus = NoCMD
    /\ Pops(f, p)
\* Every stage of a Cycle leaves a vault.
LEMMA StagesType ==
  ASSUME OpenPage, NEW s, NEW age, Base(s, age), NEW taken \in BOOLEAN, NEW due \in BOOLEAN,
         NEW u, NEW f, NEW p, NEW i, NEW a, NEW e, NEW k, NEW n, NEW w,
         Stages(s, taken, due, u, f, p, i, a, e, k, n, w)
  PROVE  Staged(s, u, f, p, i, a, e, k, n, w)
<1> USE DEF Stages
<1>1. s \in VaultSet /\ \A calm \in BOOLEAN : AtRest(s) = calm => Mid(u, Aged(s, age), calm)
  <2>1. \A calm \in BOOLEAN : AtRest(s) = calm => Mid(u, IF s.cmdBus = NoCMD THEN age ELSE Happened(age, s.cmdBus), calm)
    BY ArrivalMid
  <2> QED BY <2>1 DEF Base, Common, Aged
<1>2. PICK calm \in BOOLEAN : calm = AtRest(s)
  BY DEF AtRest
<1>3. u \in VaultSet /\ u.cmdBus = NoCMD
  BY <1>1, <1>2 DEF Mid, Common
<1>4. Mid(f, Aged(s, age), calm)
  BY <1>2, FilledMid DEF Aged
<1>5. f \in VaultSet /\ f.cmdBus = NoCMD /\ Chains(f) /\ f.popped = NoCMD
  BY <1>4 DEF Mid, Common, Orderly
<1>6. OPEN_PAGE
  BY OpenPageIs
<1>7. Same(u, f, Converted \cup {"up"})
  BY <1>3, <1>6, FilledFrame
<1>8. Popped(p, Aged(s, age), calm)
  BY <1>4, PopKeeps
<1>9. p \in VaultSet /\ p.cmdBus = NoCMD
  BY <1>8 DEF Popped
<1>10. Pops(f, p)
  BY <1>5, <1>6, CmdPopPops
<1>11. i \in VaultSet
  BY <1>9, IssueType
<1>12. a \in VaultSet
  BY <1>6, <1>11, AtomicType
<1>13. e \in VaultSet
  BY <1>12, PowerType
<1>14. k \in VaultSet
  BY <1>13, ClockedType
<1>15. n \in VaultSet
  BY <1>14, EndedType
<1>16. w \in VaultSet
  BY <1>15, BegunType
<1> QED BY <1>1, <1>3, <1>5, <1>7, <1>9, <1>10, <1>11, <1>12, <1>13, <1>14, <1>15, <1>16 DEF Staged

-----------------------------------------------------------------------------
\* The arrival of a command only makes its own bank's ages smaller.
LEMMA AgedYounger ==
  ASSUME NEW s, NEW age \in Ages, s.cmdBus \in Issued, NEW c, c = s.cmdBus, NEW g, g = Aged(s, age)
  PROVE  /\ g \in Ages /\ Younger(g, age, "READ") /\ Younger(g, age, "WRITE")
         /\ c.type = "READ" => g["READ"][c.bank] = 0
         /\ c.type = "WRITE" => g["WRITE"][c.bank] = 0
<1>0. \A b \in Banks : age["READ"][b] \in Nat /\ age["WRITE"][b] \in Nat
  BY AgesOf
<1>1. CASE c = NoCMD
  <2>1. g = age
    BY <1>1 DEF Aged
  <2>2. c.type = "NONE"
    BY <1>1, CloserHas
  <2> QED BY <1>0, <2>1, <2>2 DEF Younger
<1>2. CASE c # NoCMD
  <2>1. g = Happened(age, c)
    BY <1>2 DEF Aged
  <2>2. c \in Arrival /\ c.bank \in Banks
    BY <1>2, IssuedHas
  <2>3. g \in Ages
    BY <2>1, <2>2, HappenedIs
  <2>4. \A e \in Events : \A b \in Banks :
               g[e][b] = IF e = c.type /\ (b = c.bank \/ e = "REFRESH") THEN 0 ELSE age[e][b]
    BY <2>1, <2>2, HappenedIs
  <2>5. "READ" \in Events /\ "WRITE" \in Events
    BY DEF Events
  <2> QED BY <1>0, <2>2, <2>3, <2>4, <2>5 DEF Younger
<1> QED BY <1>1, <1>2

\* What is left of the atomic's operation and of the read that returns.
LEMMA EndedAtomic ==
  ASSUME NEW s \in VaultSet, NEW t, t = Ended(s), ReadEnds(s) => s.atomicCMD = NoCMD
  PROVE  /\ ~ReadEnds(s) => t.atomicCMD = s.atomicCMD /\ t.atomicOperLeft = s.atomicOperLeft
                            /\ t.readData = s.readData /\ t.readLeft = Later(s.readLeft - 1, 0)
         /\ ReadEnds(s) /\ t.atomicCMD # NoCMD => Atomic(t.atomicCMD) /\ t.atomicOperLeft = 1
         /\ ReadEnds(s) => t.readData = NoCMD
         /\ t.reads = s.reads /\ t.dataBus = s.dataBus /\ t.dataLeft = s.dataLeft
         /\ t.writeData = s.writeData /\ t.cmdBus = s.cmdBus
<1>1. IsVault(s)
  BY VaultSetIs
<1>2. /\ Same(s, t, {"readData", "readLeft", "pendingRead", "atomicCMD", "atomicOperLeft", "up",
                     "pendingDataSize", "error"})
      /\ ~ReadEnds(s) => Same(s, t, {"readLeft"}) /\ t.readLeft = Later(s.readLeft - 1, 0)
      /\ ReadEnds(s) => t.readData = NoCMD /\ Same(ReturnCommand(s, s.readData), t, {"readData", "readLeft"})
  BY <1>1, EndedFrame
<1>3. t.reads = s.reads /\ t.dataBus = s.dataBus /\ t.dataLeft = s.dataLeft
      /\ t.writeData = s.writeData /\ t.cmdBus = s.cmdBus
  BY <1>2 DEF Same, Fields
<1>4. ~ReadEnds(s) => t.atomicCMD = s.atomicCMD /\ t.atomicOperLeft = s.atomicOperLeft
                      /\ t.readData = s.readData
  BY <1>2 DEF Same, Fields
<1>5. ASSUME ReadEnds(s), t.atomicCMD # NoCMD
      PROVE  Atomic(t.atomicCMD) /\ t.atomicOperLeft = 1
  <2>1. PICK r : r = ReturnCommand(s, s.readData)
    OBVIOUS
  <2>2. PICK c : c = s.readData
    OBVIOUS
  <2>3. t.atomicCMD = r.atomicCMD /\ t.atomicOperLeft = r.atomicOperLeft
    BY <1>2, <1>5, <2>1 DEF Same, Fields
  <2>4. /\ s.dataBus # NoCMD \/ FoundIn(s, c) = {} => Same(s, r, {"error"})
        /\ s.dataBus = NoCMD /\ FoundIn(s, c) # {} => Returned(s, r, c)
    BY <1>1, <2>1, <2>2, ReturnFrame
  <2>5. CASE Same(s, r, {"error"})
    BY <1>5, <2>3, <2>5 DEF Same, Fields
  <2>6. CASE Returned(s, r, c)
    <3>1. CASE c.last /\ Atomic(c)
      BY <2>3, <2>6, <3>1 DEF Returned
    <3>2. CASE ~(c.last /\ Atomic(c))
      <4>1. r.atomicCMD = s.atomicCMD
        BY <2>6, <3>2 DEF Returned, Same, Fields
      <4> QED BY <1>5, <2>3, <4>1
    <3> QED BY <3>1, <3>2
  <2> QED BY <2>4, <2>5, <2>6
<1> QED BY <1>2, <1>3, <1>4, <1>5

\* A Cycle keeps Traffic; on its way no bus is taken twice.
LEMMA CycleTraffic ==
  ASSUME OpenPage, ShortBursts, NEW s, NEW age, Base(s, age), Traffic(s, age),
         NEW taken \in BOOLEAN, NEW due \in BOOLEAN,
         NEW u, NEW f, NEW p, NEW i, NEW a, NEW e, NEW k, NEW n, NEW w,
         Stages(s, taken, due, u, f, p, i, a, e, k, n, w)
  PROVE  /\ Traffic(w, Older(Aged(s, age)))
         /\ Due(s.writeData) => s.dataBus = NoCMD
         /\ s.dataBus # NoCMD => s.dataLeft >= 1
         /\ ReadEnds(k) => k.dataBus = NoCMD /\ k.atomicCMD = NoCMD
         /\ ReadDue(n) => n.readData = NoCMD
         /\ s.cmdBus.type = "WRITE" => s.writeData # <<>>
<1>0. /\ u = UpdateCountdown(s, due) /\ f = Filled(s, taken, due) /\ p = CmdPop(f)
      /\ i = IssuePopped(p) /\ a = AtomicOperation(i) /\ e = EnablePowerdown(a)
      /\ k = Clocked(e) /\ n = Ended(k) /\ w = Begun(n)
  BY DEF Stages
<1>1. /\ s \in VaultSet /\ u \in VaultSet /\ f \in VaultSet /\ p \in VaultSet /\ i \in VaultSet
      /\ a \in VaultSet /\ e \in VaultSet /\ k \in VaultSet /\ n \in VaultSet /\ w \in VaultSet
      /\ Same(u, f, Converted \cup {"up"}) /\ p.cmdBus = NoCMD /\ Pops(f, p)
  <2>1. Staged(s, u, f, p, i, a, e, k, n, w)
    BY StagesType
  <2> QED BY <2>1 DEF Staged
<1>2. PICK g : g = Aged(s, age)
  OBVIOUS
<1>3. PICK c : c = s.cmdBus
  OBVIOUS
<1>4. /\ Spaced(c, "READ", age) /\ Spaced(c, "WRITE", age) /\ Turned(c, age)
      /\ (c.type \in {"READ", "WRITE"} => c \in Asked) /\ age \in Ages
  BY <1>3, BusSpaced
<1>5. c \in Issued
  BY <1>1, <1>3, VaultSetIs DEF VaultHas
<1>6. /\ g \in Ages /\ Younger(g, age, "READ") /\ Younger(g, age, "WRITE")
      /\ c.type = "READ" => g["READ"][c.bank] = 0
      /\ c.type = "WRITE" => g["WRITE"][c.bank] = 0
  BY <1>2, <1>3, <1>4, <1>5, AgedYounger
<1>7. PICK q \in Seq(Pending) :
          /\ s.writeData = Joined(q, c, "WRITE", WL)
          /\ Lanes(s.reads, s.readData, s.readLeft, q, s.dataBus, s.dataLeft, age)
  BY <1>3 DEF Traffic
<1>8. PICK x, y, rd, rl, wd, wl : /\ x = Joined(s.reads, c, "READ", RL) /\ y = s.writeData
                                  /\ rd = s.readData /\ rl = s.readLeft /\ wd = s.dataBus /\ wl = s.dataLeft
  OBVIOUS
<1>9. /\ rd \in Asked \cup {NoCMD} /\ rl \in Nat /\ wd \in Asked \cup {NoCMD} /\ wl \in Nat
      /\ s.reads \in Seq(Pending)
  BY <1>1, <1>8, LanesTypes
<1>10. x \in Seq(Pending) /\ y \in Seq(Pending) /\ Lanes(x, rd, rl, y, wd, wl, g)
  <2>1. PICK z \in Seq(Pending) : z = s.reads
    BY <1>9
  <2>2. Lanes(z, rd, rl, q, wd, wl, age) /\ x = Joined(z, c, "READ", RL) /\ y = Joined(q, c, "WRITE", WL)
    BY <1>7, <1>8, <2>1
  <2>3. Lanes(Joined(z, c, "READ", RL), rd, rl, Joined(q, c, "WRITE", WL), wd, wl, g)
    BY <1>4, <1>6, <1>9, <2>2, JoinLanes
  <2>4. x \in Seq(Pending) /\ y \in Seq(Pending)
    BY <1>4, <2>2, JoinedIs, Delays
  <2> QED BY <2>2, <2>3, <2>4
<1>11. /\ rd # NoCMD => 1 <= rl
       /\ wd # NoCMD => 1 <= wl
  BY <1>10, Zenon DEF Lanes, Busy
\* The bus in the stages.
<1>12. /\ u.reads = x /\ u.writeData = LeftOf(y) /\ Turns(y, wd, wl, u.dataBus, u.dataLeft)
       /\ u.readData = rd /\ u.readLeft = rl /\ u.atomicCMD = s.atomicCMD /\ u.atomicOperLeft = s.atomicOperLeft
  <2>1. (c # NoCMD => s.cmdLeft = 1) /\ s.bank \in [Banks -> BankType]
    BY <1>1, <1>3, VaultSetIs DEF Base, OnBus, VaultHas
  <2>2. c # NoCMD => ReceiveCMD(s.bank, c) \in [Banks -> BankType]
    <3>1. ASSUME c # NoCMD PROVE ReceiveCMD(s.bank, c) \in [Banks -> BankType]
      <4>1. c \in Arrival /\ Arrives(s.bank, age, c) /\ Timed(s.bank, age)
        BY <1>3, <1>5, <3>1, IssuedHas DEF Base, Common
      <4> QED BY <4>1, ArrivalKeeps DEF Timed
    <3> QED BY <3>1
  <2>3. /\ u.reads = Joined(s.reads, c, "READ", RL) /\ u.writeData = LeftOf(s.writeData)
        /\ Turns(s.writeData, s.dataBus, s.dataLeft, u.dataBus, u.dataLeft)
    BY <1>0, <1>1, <1>3, <1>8, <1>11, <2>1, <2>2, CountdownBus
  <2>4. Same(s, u, {"cmdBus", "cmdLeft", "bank", "reads", "dataBus", "dataLeft", "writeData", "up",
                        "pendingDataSize", "error", "refreshWaiting", "refreshes"})
    BY <1>0, <1>1, <1>3, <2>1, <2>2, CountdownIs
  <2>5. u.readData = rd /\ u.readLeft = rl /\ u.atomicCMD = s.atomicCMD /\ u.atomicOperLeft = s.atomicOperLeft
    BY <1>8, <2>4 DEF Same, Fields
  <2> QED BY <1>8, <2>3, <2>5
<1>13. PICK m, wd1, wl1 : m = p.popped /\ wd1 = u.dataBus /\ wl1 = u.dataLeft
  OBVIOUS
<1>14. /\ p.reads = x /\ p.writeData = LeftOf(y) /\ p.dataBus = wd1 /\ p.dataLeft = wl1
       /\ p.readData = rd /\ p.readLeft = rl /\ p.atomicCMD = s.atomicCMD /\ p.atomicOperLeft = s.atomicOperLeft
  <2>1. Same(f, p, {"tFAW", "issuedBank", "popped", "queue", "lock", "rowAccess", "refreshWaiting"})
    BY <1>1, PopFrame
  <2> QED BY <1>1, <1>12, <1>13, <2>1 DEF Same, Fields, Converted
<1>15. /\ i.reads = x /\ i.writeData = Joined(LeftOf(y), m, "WRITE", WL) /\ i.dataBus = wd1 /\ i.dataLeft = wl1
       /\ i.readData = rd /\ i.readLeft = rl /\ i.atomicCMD = s.atomicCMD /\ i.atomicOperLeft = s.atomicOperLeft
       /\ i.cmdBus = m
  <2>1. IsVault(p) /\ m \in Issued
    BY <1>1, <1>13, VaultSetIs DEF VaultHas
  <2>2. /\ Same(p, i, {"writeData", "pendingDataSize", "cmdBus", "cmdLeft", "popped"}) /\ i.cmdBus = m
        /\ m = NoCMD => i = p
        /\ m # NoCMD => i.writeData = IF m.type \in Writes
                               THEN Append(p.writeData, [cmd |-> m, left |-> WL]) ELSE p.writeData
    BY <1>0, <1>1, <1>13, <2>1, IssueFrame
  <2>3. m.type \in Writes <=> m.type = "WRITE"
    BY <2>1, IssuedHas DEF Writes
  <2>4. m = NoCMD => m.type # "WRITE"
    BY CloserHas
  <2>5. i.writeData = Joined(LeftOf(y), m, "WRITE", WL)
    BY <1>14, <2>2, <2>3, <2>4, Zenon DEF Joined
  <2>6. i.reads = p.reads /\ i.dataBus = p.dataBus /\ i.dataLeft = p.dataLeft /\ i.readData = p.readData
        /\ i.readLeft = p.readLeft /\ i.atomicCMD = p.atomicCMD /\ i.atomicOperLeft = p.atomicOperLeft
    BY <2>2 DEF Same, Fields
  <2> QED BY <1>14, <2>2, <2>5, <2>6
<1>16. /\ a.reads = x /\ a.writeData = i.writeData /\ a.dataBus = wd1 /\ a.dataLeft = wl1
       /\ a.readData = rd /\ a.readLeft = rl /\ a.cmdBus = m
       /\ a.atomicCMD # NoCMD => /\ a.atomicCMD = s.atomicCMD /\ s.atomicOperLeft > 0
                                 /\ a.atomicOperLeft = s.atomicOperLeft - 1
  <2>1. IsVault(i)
    BY <1>1, VaultSetIs
  <2>2. PICK o : o = i.atomicCMD
    OBVIOUS
  <2>3. /\ o = NoCMD => a = i
        /\ o # NoCMD /\ i.atomicOperLeft > 0 => AtomicCounts(i, a)
        /\ o # NoCMD /\ ~(i.atomicOperLeft > 0) => AtomicEnds(i, a, o)
    BY <1>0, <2>1, <2>2, AtomicFrame
  <2>4. a = i \/ Same(i, a, {"atomicOperLeft"}) \/ Same(i, a, {"atomicCMD", "queue", "up", "pendingDataSize", "error"})
    BY <2>3 DEF AtomicCounts, AtomicEnds
  <2>5. /\ a.reads = i.reads /\ a.writeData = i.writeData /\ a.dataBus = i.dataBus /\ a.dataLeft = i.dataLeft
        /\ a.readData = i.readData /\ a.readLeft = i.readLeft /\ a.cmdBus = i.cmdBus
    BY <2>4 DEF Same, Fields
  <2>6. ASSUME a.atomicCMD # NoCMD
        PROVE  a.atomicCMD = i.atomicCMD /\ i.atomicOperLeft > 0 /\ a.atomicOperLeft = i.atomicOperLeft - 1
    <3>1. o # NoCMD
      BY <2>2, <2>3, <2>6
    <3>2. i.atomicOperLeft > 0
      BY <2>3, <2>6, <3>1 DEF AtomicEnds
    <3> QED BY <2>3, <3>1, <3>2 DEF AtomicCounts, Same, Fields
  <2> QED BY <1>15, <2>5, <2>6
<1>17. /\ k.reads = x /\ k.writeData = i.writeData /\ k.dataBus = wd1 /\ k.dataLeft = wl1
       /\ k.readData = rd /\ k.readLeft = rl /\ k.cmdBus = m
       /\ k.atomicCMD = a.atomicCMD /\ k.atomicOperLeft = a.atomicOperLeft
  <2>1. IsVault(a) /\ IsVault(e)
    BY <1>1, VaultSetIs
  <2>2. Same(a, e, {"bank", "powerDown"})
    BY <1>0, <2>1, PowerFrame
  <2>3. Same(e, k, {"bank", "fresh"})
    BY <1>0, <2>1, ClockedFrame
  <2> QED BY <1>16, <2>2, <2>3 DEF Same, Fields

<1>18. s.atomicCMD # NoCMD => /\ Atomic(s.atomicCMD) /\ s.atomicOperLeft <= 1
                              /\ rd # NoCMD => rl >= s.atomicOperLeft + 1
  BY <1>8 DEF Traffic, AtomicTurn
<1>19. s.atomicOperLeft \in Nat
  BY <1>1, LanesTypes
<1>20. ReadEnds(k) <=> rd # NoCMD /\ rl = 1
  BY <1>17 DEF ReadEnds
<1>21. rd # NoCMD /\ rl = 1 => k.atomicCMD = NoCMD
  BY <1>16, <1>17, <1>18, <1>19
<1>22. /\ ~ReadEnds(k) => n.atomicCMD = k.atomicCMD /\ n.atomicOperLeft = k.atomicOperLeft
                            /\ n.readData = rd /\ n.readLeft = Later(rl - 1, 0)
       /\ ReadEnds(k) /\ n.atomicCMD # NoCMD => Atomic(n.atomicCMD) /\ n.atomicOperLeft = 1
       /\ ReadEnds(k) => n.readData = NoCMD
       /\ n.reads = x /\ n.dataBus = wd1 /\ n.dataLeft = wl1 /\ n.writeData = i.writeData /\ n.cmdBus = m
  <2>1. n = Ended(k)
    BY DEF Stages
  <2> QED BY <1>1, <1>17, <1>20, <1>21, <2>1, EndedAtomic
<1>23. /\ Same(n, w, {"readData", "readLeft", "reads"})
       /\ ReadDue(n) => w.readData = x[1].cmd /\ w.readLeft = BL /\ w.reads = CountDown(Tail(x))
       /\ ~ReadDue(n) => w.readData = n.readData /\ w.readLeft = n.readLeft /\ w.reads = CountDown(x)
       /\ ReadDue(n) <=> Due(x)
  <2>1. w = Begun(n) /\ IsVault(n)
    BY <1>1, VaultSetIs DEF Stages
  <2>2. /\ Same(n, w, {"readData", "readLeft", "reads"})
        /\ ReadDue(n) => /\ w.readData = n.reads[1].cmd /\ w.readLeft = BL
                         /\ w.reads = CountDown(Tail(n.reads))
        /\ ~ReadDue(n) => /\ w.readData = n.readData /\ w.readLeft = n.readLeft
                          /\ w.reads = CountDown(n.reads)
    BY <2>1, BegunFrame
  <2>3. n.reads = x
    BY <1>22
  <2>4. ReadDue(n) <=> Due(x)
    BY <2>3 DEF ReadDue, Due
  <2> QED BY <2>2, <2>3, <2>4
<1>24. w.reads = LeftOf(x)
  BY <1>23 DEF LeftOf
<1>25. Turns(x, rd, rl, w.readData, w.readLeft)
  <2>1. CASE Due(x)
    BY <1>23, <2>1 DEF Turns
  <2>2. CASE ~Due(x) /\ rd # NoCMD /\ rl # 1
    <3>1. w.readData = rd /\ w.readLeft = Later(rl - 1, 0)
      BY <1>20, <1>22, <1>23, <2>2
    <3>2. Later(rl - 1, 0) = rl - 1
      BY <1>9, <1>11, <2>2 DEF Later
    <3> QED BY <2>2, <3>1, <3>2 DEF Turns
  <2>3. CASE ~Due(x) /\ ~(rd # NoCMD /\ rl # 1)
    <3>1. w.readData = NoCMD
      BY <1>20, <1>22, <1>23, <2>3
    <3> QED BY <2>3, <3>1 DEF Turns
  <2> QED BY <2>1, <2>2, <2>3
<1>26. PICK rd1, rl1, x1, y1 : rd1 = w.readData /\ rl1 = w.readLeft /\ x1 = w.reads /\ y1 = LeftOf(y)
  OBVIOUS
<1>27. /\ y1 \in Seq(Pending) /\ Lanes(x1, rd1, rl1, y1, wd1, wl1, Older(g))
       /\ rd # NoCMD /\ rl = 1 => wd1 = NoCMD
       /\ (Due(x) => rd = NoCMD) /\ (Due(y) => wd = NoCMD)
  <2>1. Turns(x, rd, rl, rd1, rl1) /\ Turns(y, wd, wl, wd1, wl1) /\ x1 = LeftOf(x)
    BY <1>12, <1>13, <1>24, <1>25, <1>26
  <2>2. /\ Lanes(LeftOf(x), rd1, rl1, LeftOf(y), wd1, wl1, Older(g))
        /\ rd # NoCMD /\ rl = 1 => wd1 = NoCMD
        /\ (Due(x) => rd = NoCMD) /\ (Due(y) => wd = NoCMD)
    BY <1>6, <1>9, <1>10, <2>1, PassLanes
  <2>3. y1 \in Seq(Pending)
    <3>1. \E h : h = IF Due(y) THEN 1 ELSE 0
      OBVIOUS
    <3> QED BY <1>10, <1>26, <3>1, LeftOfIs
  <2> QED BY <1>26, <2>1, <2>2, <2>3
<1>28. w.writeData = Joined(y1, m, "WRITE", WL) /\ w.cmdBus = m /\ w.dataBus = wd1 /\ w.dataLeft = wl1
       /\ w.atomicCMD = n.atomicCMD /\ w.atomicOperLeft = n.atomicOperLeft
  BY <1>15, <1>22, <1>23, <1>26 DEF Same, Fields
<1>29. AtomicTurn(w)
  <2>1. SUFFICES ASSUME w.atomicCMD # NoCMD
                 PROVE  /\ Atomic(w.atomicCMD) /\ w.atomicOperLeft <= 1
                        /\ rd1 # NoCMD => rl1 >= w.atomicOperLeft + 1
    BY <1>26 DEF AtomicTurn
  <2>2. CASE ReadEnds(k)
    <3>1. rd1 = NoCMD
      BY <1>20, <1>22, <1>23, <1>26, <1>27, <2>2
    <3> QED BY <1>22, <1>28, <2>1, <2>2, <3>1
  <2>3. CASE ~ReadEnds(k)
    <3>1. PICK z : z = s.atomicOperLeft
      OBVIOUS
    <3>2. w.atomicCMD = s.atomicCMD /\ w.atomicOperLeft = z - 1 /\ z > 0 /\ z <= 1 /\ z \in Nat
          /\ Atomic(w.atomicCMD) /\ (rd # NoCMD => rl >= z + 1)
      BY <1>16, <1>17, <1>18, <1>19, <1>22, <1>28, <2>1, <2>3, <3>1
    <3>3. rd1 # NoCMD => rl1 >= 1
      <4>1. CASE Due(x)
        BY <1>23, <1>26, <4>1, Times
      <4>2. CASE ~Due(x)
        <5>1. rd1 # NoCMD => rd # NoCMD /\ rl # 1 /\ rl1 = rl - 1
          BY <1>25, <1>26, <4>2 DEF Turns
        <5> QED BY <1>9, <1>11, <5>1
      <4> QED BY <4>1, <4>2
    <3> QED BY <3>2, <3>3
  <2> QED BY <2>2, <2>3
<1>30. Traffic(w, Older(g))
  <2>1. y1 \in Seq(Pending) /\ w.writeData = Joined(y1, w.cmdBus, "WRITE", WL)
        /\ Lanes(w.reads, w.readData, w.readLeft, y1, w.dataBus, w.dataLeft, Older(g))
    BY <1>26, <1>27, <1>28
  <2> QED BY <1>29, <2>1 DEF Traffic
<1>31. s.cmdBus.type = "WRITE" => s.writeData # <<>>
  <2>1. ASSUME c.type = "WRITE" PROVE s.writeData # <<>>
    <3>1. WL \in Nat /\ c \in Asked
      BY <1>4, <2>1, Delays
    <3>2. Len(Joined(q, c, "WRITE", WL)) = Len(q) + 1
      BY <2>1, <3>1, JoinedIs
    <3>3. Len(q) \in Nat
      OBVIOUS
    <3>4. Len(s.writeData) # 0
      BY <1>7, <3>2, <3>3
    <3> QED BY <3>4
  <2> QED BY <1>3, <2>1
<1>32. ReadDue(n) => n.readData = NoCMD
  BY <1>20, <1>22, <1>23, <1>27
<1>33. ReadEnds(k) => k.dataBus = NoCMD /\ k.atomicCMD = NoCMD
  BY <1>17, <1>20, <1>21, <1>27
<1>34. (Due(s.writeData) => s.dataBus = NoCMD) /\ (s.dataBus # NoCMD => s.dataLeft >= 1)
  BY <1>8, <1>11, <1>27
<1> QED BY <1>2, <1>30, <1>31, <1>32, <1>33, <1>34

-----------------------------------------------------------------------------
(* What the accesses under way weigh together.                             *)
\* Only accesses weigh anything.
Weights == {W \in [Issued -> Nat] : \A c \in Issued : c.type \notin {"READ", "WRITE"} => W[c] = 0}
OfCmds(W) == [x \in Pending |-> W[x.cmd]]
\* A write on the command bus is in writeData too.
ReadLoad(W, s) ==
    (IF s.cmdBus.type = "WRITE" THEN 0 ELSE W[s.cmdBus]) + W[s.readData] + Total(OfCmds(W), s.reads)
WriteLoad(W, s) == W[s.dataBus] + Total(OfCmds(W), s.writeData)

\* What a weight of commands gives.
LEMMA WeightsHave ==
  ASSUME NEW W \in Weights
  PROVE  /\ W \in [Issued -> Nat] /\ W[NoCMD] = 0 /\ OfCmds(W) \in [Pending -> Nat]
         /\ \A c \in Asked : W[c] \in Nat
         /\ \A x \in Pending : OfCmds(W)[x] = W[x.cmd]
<1>1. W \in [Issued -> Nat] /\ \A c \in Issued : c.type \notin {"READ", "WRITE"} => W[c] = 0
  BY DEF Weights
<1>2. NoCMD \in Issued /\ NoCMD.type = "NONE" /\ Asked \subseteq Issued
  BY CloserHas DEF Issued
<1>3. \A c \in Asked : W[c] \in Nat
  BY <1>1, <1>2
<1>4. \A x \in Pending : x.cmd \in Asked
  BY DEF Pending
<1> QED BY <1>1, <1>2, <1>3, <1>4 DEF OfCmds

\* A command that arrives adds its weight to its buffer.
LEMMA TotalJoined ==
  ASSUME NEW W \in Weights, NEW p \in Seq(Pending), NEW c \in Issued, NEW e \in {"READ", "WRITE"},
         NEW n \in Nat, NEW r, r = Joined(p, c, e, n)
  PROVE  Total(OfCmds(W), r) = Total(OfCmds(W), p) + IF c.type = e THEN W[c] ELSE 0
<1>1. OfCmds(W) \in [Pending -> Nat]
  BY WeightsHave
<1>2. CASE c.type = e
  <2>1. PICK x : x = [cmd |-> c, left |-> n]
    OBVIOUS
  <2>2. c \in Asked
    BY <1>2, IssuedHas
  <2>3. x \in Pending /\ x.cmd = c
    BY <2>1, <2>2 DEF Pending
  <2>4. r = Append(p, x)
    BY <1>2, <2>1 DEF Joined
  <2>5. Total(OfCmds(W), Append(p, x)) = Total(OfCmds(W), p) + OfCmds(W)[x]
    BY <1>1, <2>3, SumAppend
  <2>6. OfCmds(W)[x] = W[c]
    BY <2>3, WeightsHave
  <2> QED BY <1>2, <2>4, <2>5, <2>6
<1>3. CASE c.type # e
  <2>1. r = p
    BY <1>3 DEF Joined
  <2>2. Total(OfCmds(W), p) \in Nat
    BY <1>1, SumType
  <2> QED BY <1>3, <2>1, <2>2
<1> QED BY <1>2, <1>3

\* Counting down changes no weight.
LEMMA TotalCountDown ==
  ASSUME NEW W \in Weights, NEW p \in Seq(Pending)
  PROVE  CountDown(p) \in Seq(Pending) /\ Total(OfCmds(W), CountDown(p)) = Total(OfCmds(W), p)
<1>1. PICK r : r = CountDown(p)
  OBVIOUS
<1>2. r \in Seq(Pending) /\ Len(r) = Len(p) /\ \A i \in 1 .. Len(p) : r[i].cmd = p[i].cmd
  BY <1>1, CountDownIs DEF Pending
<1>3. OfCmds(W) \in [Pending -> Nat] /\ \A x \in Pending : OfCmds(W)[x] = W[x.cmd]
  BY WeightsHave
<1>4. ASSUME NEW i \in 1 .. Len(p) PROVE OfCmds(W)[r[i]] = OfCmds(W)[p[i]]
  <2>1. PICK x, y : x = r[i] /\ y = p[i]
    OBVIOUS
  <2>2. x \in Pending /\ y \in Pending /\ x.cmd = y.cmd
    BY <1>2, <2>1
  <2> QED BY <1>3, <2>1, <2>2
<1>5. PICK V : V = OfCmds(W)
  OBVIOUS
<1>6. Total(V, r) = Total(V, p)
  <2>1. V \in [Pending -> Nat] /\ WeighsAs(V, r, p)
    BY <1>2, <1>3, <1>4, <1>5 DEF WeighsAs
  <2>2. r \in Seq(Pending)
    BY <1>2
  <2> QED BY <2>1, <2>2, SumSame
<1> QED BY <1>1, <1>2, <1>5, <1>6

\* A cycle takes away the weight of the access that is due.
LEMMA TotalLeft ==
  ASSUME NEW W \in Weights, NEW p \in Seq(Pending), NEW r, r = LeftOf(p)
  PROVE  /\ r \in Seq(Pending) /\ Total(OfCmds(W), p) \in Nat /\ Total(OfCmds(W), r) \in Nat
         /\ Due(p) => Total(OfCmds(W), p) = W[p[1].cmd] + Total(OfCmds(W), r) /\ p[1].cmd \in Asked
         /\ ~Due(p) => Total(OfCmds(W), p) = Total(OfCmds(W), r)
<1>1. OfCmds(W) \in [Pending -> Nat] /\ \A x \in Pending : OfCmds(W)[x] = W[x.cmd]
  BY WeightsHave
<1>2. CASE Due(p)
  <2>1. p # <<>> /\ r = CountDown(Tail(p))
    BY <1>2 DEF Due, LeftOf
  <2>2. Tail(p) \in Seq(Pending) /\ p[1] \in Pending
    BY <2>1, TailOf
  <2>3. r \in Seq(Pending) /\ Total(OfCmds(W), r) = Total(OfCmds(W), Tail(p))
    BY <2>1, <2>2, TotalCountDown
  <2>4. Total(OfCmds(W), p) = OfCmds(W)[Head(p)] + Total(OfCmds(W), Tail(p))
    BY <1>1, <2>1, SumHeadTail
  <2>5. OfCmds(W)[Head(p)] = W[p[1].cmd] /\ p[1].cmd \in Asked
    BY <1>1, <2>1, <2>2 DEF Pending
  <2>6. Total(OfCmds(W), p) \in Nat /\ Total(OfCmds(W), r) \in Nat
    BY <1>1, <2>3, SumType
  <2> QED BY <1>2, <2>3, <2>4, <2>5, <2>6
<1>3. CASE ~Due(p)
  <2>1. r = CountDown(p)
    BY <1>3 DEF LeftOf
  <2>2. r \in Seq(Pending) /\ Total(OfCmds(W), r) = Total(OfCmds(W), p)
    BY <2>1, TotalCountDown
  <2>3. Total(OfCmds(W), p) \in Nat
    BY <1>1, SumType
  <2> QED BY <1>3, <2>2, <2>3
<1> QED BY <1>2, <1>3

\* The weights of a vault's parts.
LEMMA LoadParts ==
  ASSUME NEW s \in VaultSet, NEW W \in Weights
  PROVE  /\ W[s.cmdBus] \in Nat /\ W[s.readData] \in Nat /\ W[s.dataBus] \in Nat /\ W[s.atomicCMD] \in Nat
         /\ Total(OfCmds(W), s.reads) \in Nat /\ Total(OfCmds(W), s.writeData) \in Nat
         /\ ReadLoad(W, s) \in Nat /\ WriteLoad(W, s) \in Nat
         /\ W[s.readData] <= ReadLoad(W, s) /\ W[s.dataBus] <= WriteLoad(W, s)
         /\ s.cmdBus \in Issued /\ W[NoCMD] = 0
<1>1. /\ s.reads \in Seq(Pending) /\ s.writeData \in Seq(Pending)
      /\ s.readData \in Asked \cup {NoCMD} /\ s.dataBus \in Asked \cup {NoCMD}
      /\ s.atomicCMD \in Asked \cup {NoCMD}
  BY LanesTypes
<1>2. s.cmdBus \in Issued
  BY VaultSetIs DEF VaultHas
<1>3. W \in [Issued -> Nat] /\ W[NoCMD] = 0 /\ OfCmds(W) \in [Pending -> Nat] /\ \A c \in Asked : W[c] \in Nat
  BY WeightsHave
<1>4. /\ W[s.cmdBus] \in Nat /\ W[s.readData] \in Nat /\ W[s.dataBus] \in Nat /\ W[s.atomicCMD] \in Nat
  BY <1>1, <1>2, <1>3
<1>5. Total(OfCmds(W), s.reads) \in Nat /\ Total(OfCmds(W), s.writeData) \in Nat
  BY <1>1, <1>3, SumType
<1> QED BY <1>2, <1>3, <1>4, <1>5 DEF ReadLoad, WriteLoad

\* The loads are those of the buses and the buffers.
LEMMA LoadFrame ==
  ASSUME NEW s, NEW t, t.cmdBus = s.cmdBus, t.readData = s.readData, t.reads = s.reads,
         t.dataBus = s.dataBus, t.writeData = s.writeData, NEW W
  PROVE  ReadLoad(W, t) = ReadLoad(W, s) /\ WriteLoad(W, t) = WriteLoad(W, s)
BY DEF ReadLoad, WriteLoad

-----------------------------------------------------------------------------
(* What each stage does to the loads.                                      *)
LEMMA CommandOutLoad ==
  ASSUME NEW s \in VaultSet, s.cmdBus # NoCMD => s.cmdLeft = 1, NEW t, t = CommandOut(s), NEW W \in Weights
  PROVE  ReadLoad(W, t) = ReadLoad(W, s) /\ WriteLoad(W, t) = WriteLoad(W, s)
<1>1. IsVault(s)
  BY VaultSetIs
<1>2. /\ Same(s, t, {"cmdBus", "cmdLeft", "bank", "reads"})
      /\ t.cmdBus = NoCMD
      /\ t.reads = IF s.cmdBus.type \in Reads THEN Append(s.reads, [cmd |-> s.cmdBus, left |-> RL])
                   ELSE s.reads
  BY <1>1, CommandOutFrame
<1>3. t.readData = s.readData /\ t.dataBus = s.dataBus /\ t.writeData = s.writeData
  BY <1>2 DEF Same, Fields
<1>4. PICK c : c = s.cmdBus
  OBVIOUS
<1>5. /\ c \in Issued /\ W[c] \in Nat /\ W[s.readData] \in Nat /\ W[NoCMD] = 0
      /\ Total(OfCmds(W), s.reads) \in Nat
  BY <1>4, LoadParts
<1>6. c.type \in Reads <=> c.type = "READ"
  BY <1>5, IssuedHas DEF Reads
<1>7. t.reads = Joined(s.reads, c, "READ", RL)
  BY <1>2, <1>4, <1>6, Zenon DEF Joined
<1>8. Total(OfCmds(W), t.reads) = Total(OfCmds(W), s.reads) + IF c.type = "READ" THEN W[c] ELSE 0
  BY <1>5, <1>7, LanesTypes, Delays, TotalJoined
<1>9. c.type \notin {"READ", "WRITE"} => W[c] = 0
  BY <1>5 DEF Weights
<1>10. ReadLoad(W, t) = W[s.readData] + Total(OfCmds(W), t.reads)
  <2>1. NoCMD.type # "WRITE"
    BY CloserHas
  <2>2. PICK x : x = W[s.readData] + Total(OfCmds(W), t.reads)
    OBVIOUS
  <2>3. x \in Nat
    BY <1>5, <1>8, <2>2
  <2>4. ReadLoad(W, t) = 0 + W[s.readData] + Total(OfCmds(W), t.reads)
    BY <1>2, <1>3, <1>5, <2>1 DEF ReadLoad
  <2> QED BY <1>5, <1>8, <2>2, <2>3, <2>4
<1>11. ReadLoad(W, s) = (IF c.type = "WRITE" THEN 0 ELSE W[c]) + W[s.readData] + Total(OfCmds(W), s.reads)
  BY <1>4 DEF ReadLoad
<1>12. ReadLoad(W, t) = ReadLoad(W, s)
  BY <1>5, <1>8, <1>9, <1>10, <1>11
<1> QED BY <1>3, <1>12 DEF WriteLoad

\* A write leaves the data bus.
LEMMA DataOutLoad ==
  ASSUME NEW s \in VaultSet, NEW t, t = DataOut(s), NEW W \in Weights
  PROVE  /\ ReadLoad(W, t) = ReadLoad(W, s)
         /\ IF s.dataBus # NoCMD /\ ~(s.dataLeft > 1)
            THEN WriteLoad(W, t) + W[s.dataBus] = WriteLoad(W, s)
            ELSE WriteLoad(W, t) = WriteLoad(W, s)
<1>1. IsVault(s)
  BY VaultSetIs
<1>2. /\ Same(s, t, {"dataBus", "dataLeft", "up", "pendingDataSize", "error"})
      /\ s.dataBus = NoCMD => t = s
      /\ s.dataBus # NoCMD /\ s.dataLeft > 1 => t.dataBus = s.dataBus
      /\ s.dataBus # NoCMD /\ ~(s.dataLeft > 1) => t.dataBus = NoCMD
  BY <1>1, DataOutFrame
<1>3. t.cmdBus = s.cmdBus /\ t.readData = s.readData /\ t.reads = s.reads /\ t.writeData = s.writeData
  BY <1>2 DEF Same, Fields
<1>4. W[s.dataBus] \in Nat /\ Total(OfCmds(W), s.writeData) \in Nat /\ W[NoCMD] = 0
  BY LoadParts
<1>5. ReadLoad(W, t) = ReadLoad(W, s)
  BY <1>3 DEF ReadLoad
<1>6. CASE s.dataBus # NoCMD /\ ~(s.dataLeft > 1)
  BY <1>2, <1>3, <1>4, <1>5, <1>6 DEF WriteLoad
<1>7. CASE ~(s.dataBus # NoCMD /\ ~(s.dataLeft > 1))
  <2>1. t.dataBus = s.dataBus
    BY <1>2, <1>7
  <2> QED BY <1>3, <1>5, <1>7, <2>1 DEF WriteLoad
<1> QED BY <1>6, <1>7

\* A write goes from its buffer to the data bus.
LEMMA WriteDataOutLoad ==
  ASSUME NEW s \in VaultSet, WriteDue(s) => s.dataBus = NoCMD, NEW t, t = WriteDataOut(s), NEW W \in Weights
  PROVE  ReadLoad(W, t) = ReadLoad(W, s) /\ WriteLoad(W, t) = WriteLoad(W, s)
<1>1. IsVault(s)
  BY VaultSetIs
<1>2. /\ Same(s, t, {"dataBus", "dataLeft", "writeData", "error"})
      /\ WriteDue(s) => t.dataBus = s.writeData[1].cmd /\ t.writeData = CountDown(Tail(s.writeData))
      /\ ~WriteDue(s) => t.dataBus = s.dataBus /\ t.writeData = CountDown(s.writeData)
  BY <1>1, WriteDataOutFrame
<1>3. t.cmdBus = s.cmdBus /\ t.readData = s.readData /\ t.reads = s.reads
  BY <1>2 DEF Same, Fields
<1>4. W[s.dataBus] \in Nat /\ W[NoCMD] = 0 /\ s.writeData \in Seq(Pending)
  BY LoadParts, LanesTypes
<1>5. ReadLoad(W, t) = ReadLoad(W, s)
  BY <1>3 DEF ReadLoad
<1>6. PICK q : q = s.writeData
  OBVIOUS
<1>7. (WriteDue(s) <=> Due(q)) /\ t.writeData = LeftOf(q)
  BY <1>2, <1>6 DEF WriteDue, Due, LeftOf
<1>8. /\ Total(OfCmds(W), q) \in Nat /\ Total(OfCmds(W), t.writeData) \in Nat
      /\ Due(q) => Total(OfCmds(W), q) = W[q[1].cmd] + Total(OfCmds(W), t.writeData)
      /\ ~Due(q) => Total(OfCmds(W), q) = Total(OfCmds(W), t.writeData)
  BY <1>4, <1>6, <1>7, TotalLeft
<1>9. WriteLoad(W, t) = WriteLoad(W, s)
  <2>1. CASE Due(q)
    <3>1. WriteLoad(W, t) = W[q[1].cmd] + Total(OfCmds(W), t.writeData)
      BY <1>2, <1>6, <1>7, <2>1 DEF WriteLoad
    <3>2. WriteLoad(W, s) = 0 + Total(OfCmds(W), q)
      BY <1>4, <1>6, <1>7, <2>1 DEF WriteLoad
    <3> QED BY <1>8, <2>1, <3>1, <3>2
  <2>2. CASE ~Due(q)
    BY <1>2, <1>6, <1>7, <1>8, <2>2 DEF WriteLoad
  <2> QED BY <2>1, <2>2
<1> QED BY <1>5, <1>9

\* A command goes to the command bus, a write to its buffer as well.
LEMMA IssueLoad ==
  ASSUME NEW s \in VaultSet, s.cmdBus = NoCMD, NEW t, t = IssuePopped(s), NEW W \in Weights,
         NEW c, c = s.popped
  PROVE  /\ c \in Issued /\ W[c] \in Nat
         /\ ReadLoad(W, t) = ReadLoad(W, s) + IF c.type = "WRITE" THEN 0 ELSE W[c]
         /\ WriteLoad(W, t) = WriteLoad(W, s) + IF c.type = "WRITE" THEN W[c] ELSE 0
<1>1. IsVault(s) /\ c \in Issued
  BY VaultSetIs DEF VaultHas
<1>2. W[c] \in Nat
  BY <1>1 DEF Weights
<1>3. /\ Same(s, t, {"writeData", "pendingDataSize", "cmdBus", "cmdLeft", "popped"}) /\ t.cmdBus = c
      /\ c = NoCMD => t = s
      /\ c # NoCMD => t.writeData = IF c.type \in Writes
                                    THEN Append(s.writeData, [cmd |-> c, left |-> WL]) ELSE s.writeData
  BY <1>1, IssueFrame
<1>4. t.readData = s.readData /\ t.dataBus = s.dataBus /\ t.reads = s.reads
  BY <1>3 DEF Same, Fields
<1>5. NoCMD.type = "NONE"
  BY CloserHas
<1>6. c.type \in Writes <=> c.type = "WRITE"
  BY <1>1, IssuedHas DEF Writes
<1>7. t.writeData = Joined(s.writeData, c, "WRITE", WL)
  BY <1>3, <1>5, <1>6 DEF Joined
<1>8. /\ Total(OfCmds(W), s.reads) \in Nat /\ Total(OfCmds(W), s.writeData) \in Nat
      /\ W[s.readData] \in Nat /\ W[s.dataBus] \in Nat /\ W[NoCMD] = 0
  BY LoadParts
<1>9. Total(OfCmds(W), t.writeData) = Total(OfCmds(W), s.writeData) + IF c.type = "WRITE" THEN W[c] ELSE 0
  BY <1>1, <1>7, LanesTypes, Delays, TotalJoined
<1>10. WriteLoad(W, t) = WriteLoad(W, s) + IF c.type = "WRITE" THEN W[c] ELSE 0
  BY <1>2, <1>4, <1>8, <1>9 DEF WriteLoad
<1>11. ReadLoad(W, s) = 0 + W[s.readData] + Total(OfCmds(W), s.reads)
  BY <1>5, <1>8 DEF ReadLoad
<1>12. ReadLoad(W, t) = (IF c.type = "WRITE" THEN 0 ELSE W[c]) + W[s.readData] + Total(OfCmds(W), s.reads)
  BY <1>3, <1>4 DEF ReadLoad
<1>13. ReadLoad(W, t) = ReadLoad(W, s) + IF c.type = "WRITE" THEN 0 ELSE W[c]
  BY <1>2, <1>8, <1>11, <1>12
<1> QED BY <1>1, <1>2, <1>10, <1>13

\* A read leaves the vault's read pipeline when its data is complete.
LEMMA EndedLoad ==
  ASSUME NEW s \in VaultSet, NEW t, t = Ended(s), NEW W \in Weights
  PROVE  /\ WriteLoad(W, t) = WriteLoad(W, s)
         /\ ReadEnds(s) => ReadLoad(W, t) + W[s.readData] = ReadLoad(W, s)
         /\ ~ReadEnds(s) => ReadLoad(W, t) = ReadLoad(W, s)
<1>1. IsVault(s)
  BY VaultSetIs
<1>2. /\ Same(s, t, {"readData", "readLeft", "pendingRead", "atomicCMD", "atomicOperLeft", "up",
                     "pendingDataSize", "error"})
      /\ ~ReadEnds(s) => Same(s, t, {"readLeft"})
      /\ ReadEnds(s) => t.readData = NoCMD
  BY <1>1, EndedFrame
<1>3. t.cmdBus = s.cmdBus /\ t.dataBus = s.dataBus /\ t.reads = s.reads /\ t.writeData = s.writeData
  BY <1>2 DEF Same, Fields
<1>4. ~ReadEnds(s) => t.readData = s.readData
  BY <1>2 DEF Same, Fields
<1>5. /\ Total(OfCmds(W), s.reads) \in Nat /\ W[s.readData] \in Nat /\ W[NoCMD] = 0 /\ W[s.cmdBus] \in Nat
  BY LoadParts
<1>6. PICK x : x = IF s.cmdBus.type = "WRITE" THEN 0 ELSE W[s.cmdBus]
  OBVIOUS
<1>7. x \in Nat
  BY <1>5, <1>6
<1>8. ReadLoad(W, s) = x + W[s.readData] + Total(OfCmds(W), s.reads)
  BY <1>6, Zenon DEF ReadLoad
<1>9. ReadLoad(W, t) = x + W[t.readData] + Total(OfCmds(W), s.reads)
  BY <1>3, <1>6 DEF ReadLoad
<1>10. WriteLoad(W, t) = WriteLoad(W, s)
  BY <1>3 DEF WriteLoad
<1> QED BY <1>2, <1>4, <1>5, <1>7, <1>8, <1>9, <1>10

\* A read goes from its buffer to readData.
LEMMA BegunLoad ==
  ASSUME NEW s \in VaultSet, ReadDue(s) => s.readData = NoCMD, NEW t, t = Begun(s), NEW W \in Weights
  PROVE  WriteLoad(W, t) = WriteLoad(W, s) /\ ReadLoad(W, t) = ReadLoad(W, s)
<1>1. IsVault(s)
  BY VaultSetIs
<1>2. /\ Same(s, t, {"readData", "readLeft", "reads"})
      /\ ReadDue(s) => t.readData = s.reads[1].cmd /\ t.reads = CountDown(Tail(s.reads))
      /\ ~ReadDue(s) => t.readData = s.readData /\ t.reads = CountDown(s.reads)
  BY <1>1, BegunFrame
<1>3. t.cmdBus = s.cmdBus /\ t.dataBus = s.dataBus /\ t.writeData = s.writeData
  BY <1>2 DEF Same, Fields
<1>4. W[NoCMD] = 0 /\ W[s.cmdBus] \in Nat /\ W[s.readData] \in Nat /\ s.reads \in Seq(Pending)
  BY LoadParts, LanesTypes
<1>5. WriteLoad(W, t) = WriteLoad(W, s)
  BY <1>3 DEF WriteLoad
<1>6. PICK q : q = s.reads
  OBVIOUS
<1>7. (ReadDue(s) <=> Due(q)) /\ t.reads = LeftOf(q)
  BY <1>2, <1>6 DEF ReadDue, Due, LeftOf
<1>8. /\ Total(OfCmds(W), q) \in Nat /\ Total(OfCmds(W), t.reads) \in Nat
      /\ Due(q) => Total(OfCmds(W), q) = W[q[1].cmd] + Total(OfCmds(W), t.reads) /\ q[1].cmd \in Asked
      /\ ~Due(q) => Total(OfCmds(W), q) = Total(OfCmds(W), t.reads)
  BY <1>4, <1>6, <1>7, TotalLeft
<1>9. PICK x : x = IF s.cmdBus.type = "WRITE" THEN 0 ELSE W[s.cmdBus]
  OBVIOUS
<1>10. x \in Nat
  BY <1>4, <1>9
<1>11. ReadLoad(W, s) = x + W[s.readData] + Total(OfCmds(W), q)
  BY <1>6, <1>9 DEF ReadLoad
<1>12. ReadLoad(W, t) = x + W[t.readData] + Total(OfCmds(W), t.reads)
  BY <1>3, <1>9 DEF ReadLoad
<1>13. ReadLoad(W, t) = ReadLoad(W, s)
  <2>1. CASE Due(q)
    <3>1. W[s.readData] = 0 /\ W[t.readData] = W[q[1].cmd]
      BY <1>2, <1>4, <1>6, <1>7, <2>1
    <3>2. W[q[1].cmd] \in Nat
      BY <1>8, <2>1, WeightsHave
    <3> QED BY <1>8, <1>10, <1>11, <1>12, <2>1, <3>1, <3>2
  <2>2. CASE ~Due(q)
    BY <1>2, <1>7, <1>8, <1>11, <1>12, <2>2
  <2> QED BY <2>1, <2>2
<1> QED BY <1>5, <1>13

-----------------------------------------------------------------------------
(* The account of the response buffer.                                     *)
LEMMA NoPostedReads ==
  ASSUME NEW t \in Tags, Requests[t].op = "RD"
  PROVE  ~Requests[t].posted
BY RequestsAssumption DEF Tags

\* Size is a sum.
\* The lengths in z are the weights of q's elements.
HasLengths(z, W, q) == Len(z) = Len(q) /\ \A i \in 1 .. Len(q) : W[q[i]] = z[i].lng
\* Size is a sum.
LEMMA SizeIs ==
  ASSUME NEW S, NEW W \in [S -> Nat], NEW q \in Seq(S), NEW z, HasLengths(z, W, q)
  PROVE  Size(z) = Total(W, q)
<1> USE DEF HasLengths
<1> DEFINE Is(f) == f = [n \in 0 .. Len(q) |-> IF n = 0 THEN 0 ELSE f[n - 1] + z[n].lng]
           f == CHOOSE f : Is(f)
<1>0. PICK g : Sums(g, W, q)
  BY SumsExist
<1>1. Is(g)
  <2>1. ASSUME NEW n \in 0 .. Len(q)
        PROVE  g[n] = IF n = 0 THEN 0 ELSE g[n - 1] + z[n].lng
    BY <1>0 DEF Sums
  <2>2. g = [n \in 0 .. Len(q) |-> g[n]]
    BY <1>0 DEF Sums
  <2> QED BY <2>1, <2>2
<1>2. Is(f)
  BY <1>1
<1>3. Size(z) = f[Len(q)]
  BY DEF Size
<1> DEFINE P == {i \in 0 .. Len(q) : f[i] = g[i]}
<1>4. 0 \in P
  <2>1. f[0] = 0 /\ Len(q) \in Nat
    <3> HIDE DEF f
    <3> QED BY <1>2
  <2> HIDE DEF f
  <2> QED BY <1>0, <2>1 DEF Sums
<1>5. ASSUME NEW i \in 1 .. Len(q), i - 1 \in P PROVE i \in P
  <2>1. f[i] = f[i - 1] + z[i].lng
    <3>1. i \in 0 .. Len(q) /\ i # 0
      OBVIOUS
    <3>2. f = [n \in 0 .. Len(q) |-> IF n = 0 THEN 0 ELSE f[n - 1] + z[n].lng]
      BY <1>2
    <3> HIDE DEF f
    <3> QED BY <3>1, <3>2
  <2> HIDE DEF f
  <2> QED BY <1>0, <1>5, <2>1 DEF Sums
<1>6. f[Len(q)] = g[Len(q)]
  <2>1. P \in SUBSET Nat /\ Len(q) \in Nat
    OBVIOUS
  <2>2. \A i \in 0 .. Len(q) : i \in P
    <3> HIDE DEF P
    <3> QED BY <1>4, <1>5, <2>1, UpTo
  <2> HIDE DEF f
  <2> QED BY <2>2, <2>1
<1>7. Total(W, q) = g[Len(q)]
  BY <1>0, SumIsLast
<1> QED BY <1>3, <1>6, <1>7

\* The responses that wait.
Length == [r \in Response |-> r.lng]
\* The length of upBuffers grows and shrinks by its responses.
LEMMA ResponsesAre ==
  ASSUME NEW up \in Seq(Response)
  PROVE  /\ Size(up) \in Nat
         /\ \A r \in Response : Size(Append(up, r)) = Size(up) + r.lng
         /\ up # <<>> => Size(Tail(up)) \in Nat /\ Size(Tail(up)) <= Size(up)
<1>1. Length \in [Response -> Nat]
  BY DEF Length, Response
<1>2. ASSUME NEW q \in Seq(Response)
      PROVE  Size(q) = Total(Length, q) /\ Size(q) \in Nat
  <2>1. HasLengths(q, Length, q)
    BY DEF Length, HasLengths
  <2>2. Size(q) = Total(Length, q)
    BY <1>1, <2>1, SizeIs
  <2> QED BY <1>1, <2>2, SumType
<1>3. ASSUME NEW r \in Response PROVE Size(Append(up, r)) = Size(up) + r.lng
  <2>1. PICK q : q = Append(up, r)
    OBVIOUS
  <2>2. q \in Seq(Response)
    BY <2>1
  <2>3. Total(Length, Append(up, r)) = Total(Length, up) + Length[r]
    BY <1>1, SumAppend
  <2>4. Length[r] = r.lng
    BY DEF Length
  <2>5. Size(q) = Total(Length, q) /\ Size(up) = Total(Length, up)
    BY <1>2, <2>2
  <2> QED BY <2>1, <2>3, <2>4, <2>5
<1>4. ASSUME up # <<>> PROVE Size(Tail(up)) \in Nat /\ Size(Tail(up)) <= Size(up)
  <2>1. Tail(up) \in Seq(Response) /\ Head(up) \in Response
    BY <1>4, HeadTailProperties
  <2>2. Total(Length, up) = Length[Head(up)] + Total(Length, Tail(up))
    BY <1>1, <1>4, SumHeadTail
  <2>3. Length[Head(up)] \in Nat
    BY <1>1, <2>1
  <2>4. Size(Tail(up)) = Total(Length, Tail(up)) /\ Size(Tail(up)) \in Nat
    BY <1>2, <2>1
  <2>5. Size(up) = Total(Length, up) /\ Size(up) \in Nat
    BY <1>2
  <2>6. PICK x, y, z : x = Size(up) /\ y = Size(Tail(up)) /\ z = Length[Head(up)]
    OBVIOUS
  <2>7. x = z + y /\ x \in Nat /\ y \in Nat /\ z \in Nat
    BY <2>2, <2>3, <2>4, <2>5, <2>6
  <2>8. y <= x
    BY <2>7
  <2> QED BY <2>6, <2>7, <2>8
<1> QED BY <1>2, <1>3, <1>4

\* What is owed.
Owes == [c \in Issued |-> Owed(c)]
\* An access owes what IssuePopped reserves for it.
LEMMA OwedIs ==
  ASSUME NEW c \in Asked
  PROVE  /\ Owed(c) \in Nat /\ Owed(c) <= Requests[c.tag].data + 1
         /\ Owed(c) = IF Reserves(c) THEN ResponseLength(c) ELSE 0
         /\ Reserves(c) <=> /\ c.last /\ ~Requests[c.tag].posted
                            /\ c.type = "READ" \/ (c.type = "WRITE" /\ ~Atomic(c))
<1>1. c.tag \in Tags /\ c.tag # NoTag /\ c.type \in {"ACTIVATE", "READ", "WRITE"}
  BY AskedHas
<1>2. ResponseLength(c) \in Nat /\ ResponseLength(c) <= Requests[c.tag].data + 1 /\ Requests[c.tag].data \in Nat
  BY <1>1, ResponseLengthIs, RequestHas
<1>3. c.type \in Reads <=> c.type = "READ"
  BY <1>1 DEF Reads
<1>4. c.type \in Writes <=> c.type = "WRITE"
  BY <1>1 DEF Writes
<1>5. Reserves(c) <=> /\ c.last /\ ~Requests[c.tag].posted
                      /\ c.type = "READ" \/ (c.type = "WRITE" /\ ~Atomic(c))
  BY <1>1, <1>3, <1>4, Zenon DEF Reserves
<1>6. Owed(c) = IF Reserves(c) THEN ResponseLength(c) ELSE 0
  BY Zenon DEF Owed, Reserves
<1> QED BY <1>2, <1>5, <1>6

\* Nothing is reserved for a command that is not an access.
LEMMA OwedByOthers ==
  ASSUME NEW c \in Issued, c.type \notin {"READ", "WRITE"}
  PROVE  Owed(c) = 0 /\ ~Reserves(c)
<1>1. c.type \in {"ACTIVATE", "PRECHARGE", "REFRESH", "NONE"}
  BY IssuedHas
<1>2. c.type \notin Reads /\ c.type \notin Writes
  BY <1>1 DEF Reads, Writes
<1> QED BY <1>2 DEF Owed, Reserves

\* What is owed is a weight of commands.
LEMMA OwesWeigh == Owes \in Weights /\ \A c \in Issued : Owes[c] = Owed(c)
<1>1. ASSUME NEW c \in Issued PROVE Owed(c) \in Nat /\ (c.type \notin {"READ", "WRITE"} => Owed(c) = 0)
  <2>1. CASE c.type \in {"READ", "WRITE"}
    BY <2>1, IssuedHas, OwedIs
  <2>2. CASE c.type \notin {"READ", "WRITE"}
    BY <2>2, OwedByOthers
  <2> QED BY <2>1, <2>2
<1> QED BY <1>1 DEF Owes, Weights

-----------------------------------------------------------------------------
\* What is reserved is what is owed, it fits beside what waits, and nothing failed.
Due3(s) == ReadLoad(Owes, s) + WriteLoad(Owes, s) + Owes[s.atomicCMD]
Account(s) ==
    /\ s.pendingDataSize = Due3(s)
    /\ s.pendingDataSize + Size(s.up) <= MAX_VLT_BUF
    /\ s.error = FALSE

\* The terms of the account, and what each is at most.
LEMMA AccountParts ==
  ASSUME NEW s \in VaultSet, Account(s)
  PROVE  /\ s.pendingDataSize \in Nat /\ Size(s.up) \in Nat /\ s.up \in Seq(Response)
         /\ ReadLoad(Owes, s) \in Nat /\ WriteLoad(Owes, s) \in Nat /\ Owes[s.atomicCMD] \in Nat
         /\ Owes[s.readData] <= ReadLoad(Owes, s) /\ Owes[s.dataBus] <= WriteLoad(Owes, s)
         /\ Owes[s.readData] \in Nat /\ Owes[s.dataBus] \in Nat
         /\ s.pendingDataSize = ReadLoad(Owes, s) + WriteLoad(Owes, s) + Owes[s.atomicCMD]
         /\ s.pendingDataSize + Size(s.up) <= MAX_VLT_BUF /\ MAX_VLT_BUF \in Nat
<1>1. s.up \in Seq(Response)
  BY VaultSetIs DEF VaultHas
<1>2. Size(s.up) \in Nat
  BY <1>1, ResponsesAre
<1>3. /\ ReadLoad(Owes, s) \in Nat /\ WriteLoad(Owes, s) \in Nat /\ Owes[s.atomicCMD] \in Nat
      /\ Owes[s.readData] <= ReadLoad(Owes, s) /\ Owes[s.dataBus] <= WriteLoad(Owes, s)
      /\ Owes[s.readData] \in Nat /\ Owes[s.dataBus] \in Nat
  BY OwesWeigh, LoadParts
<1>4. s.pendingDataSize = ReadLoad(Owes, s) + WriteLoad(Owes, s) + Owes[s.atomicCMD]
  BY DEF Account, Due3
<1>5. s.pendingDataSize \in Nat
  BY <1>3, <1>4
<1> QED BY <1>1, <1>2, <1>3, <1>4, <1>5, SizeAssumption DEF Account

\* A stage that does nothing here.
LEMMA AccountFrame ==
  ASSUME NEW s, NEW t, Account(s), ReadLoad(Owes, t) = ReadLoad(Owes, s), WriteLoad(Owes, t) = WriteLoad(Owes, s),
         t.atomicCMD = s.atomicCMD, t.pendingDataSize = s.pendingDataSize, t.up = s.up, t.error = s.error
  PROVE  Account(t)
BY DEF Account, Due3

\* The response that was owed for c is made.
LEMMA AccountAnswers ==
  ASSUME NEW s \in VaultSet, Account(s), NEW c \in Asked, NEW n, n = ResponseLength(c),
         n <= Due3(s), NEW t, Due3(t) = Due3(s) - n,
         t.up = Append(s.up, [tag |-> c.tag, lng |-> n]),
         t.pendingDataSize = s.pendingDataSize - n, Checked(s, t, c)
  PROVE  Account(t)
<1>1. /\ s.pendingDataSize \in Nat /\ Size(s.up) \in Nat /\ s.up \in Seq(Response)
      /\ s.pendingDataSize + Size(s.up) <= MAX_VLT_BUF /\ MAX_VLT_BUF \in Nat
  BY AccountParts
<1>2. n \in Nat /\ c.tag \in Tags
  BY ResponseLengthIs, AskedHas
<1>3. [tag |-> c.tag, lng |-> n] \in Response
  BY <1>2 DEF Response
<1>4. Size(t.up) = Size(s.up) + n
  BY <1>1, <1>3, ResponsesAre
<1>5. s.pendingDataSize = Due3(s) /\ s.error = FALSE
  BY DEF Account
<1>6. Fits(s, c)
  BY <1>1, <1>2, <1>5 DEF Fits
<1>7. t.error = FALSE
  BY <1>5, <1>6 DEF Checked
<1>8. t.pendingDataSize = Due3(t)
  BY <1>5
<1>9. t.pendingDataSize + Size(t.up) <= MAX_VLT_BUF
  BY <1>1, <1>2, <1>4
<1> QED BY <1>7, <1>8, <1>9 DEF Account

\* The response to a write is made when its data is complete.
LEMMA DataOutAccount ==
  ASSUME NEW s \in VaultSet, Account(s), NEW t, t = DataOut(s)
  PROVE  Account(t)
<1>1. IsVault(s) /\ s.dataBus \in AskedWrites \cup {NoCMD}
  BY VaultSetIs DEF VaultHas
<1>2. PICK c : c = s.dataBus
  OBVIOUS
<1>3. Same(s, t, {"dataBus", "dataLeft", "up", "pendingDataSize", "error"})
  BY <1>1, DataOutFrame
<1>4. t.atomicCMD = s.atomicCMD
  BY <1>3 DEF Same, Fields
<1>5. /\ ReadLoad(Owes, t) = ReadLoad(Owes, s)
      /\ IF c # NoCMD /\ ~(s.dataLeft > 1)
         THEN WriteLoad(Owes, t) + Owes[c] = WriteLoad(Owes, s)
         ELSE WriteLoad(Owes, t) = WriteLoad(Owes, s)
  BY <1>2, OwesWeigh, DataOutLoad
<1>6. CASE c = NoCMD
  <2>1. t = s
    BY <1>1, <1>2, <1>6, DataOutFrame
  <2> QED BY <2>1
<1>7. CASE c # NoCMD /\ s.dataLeft > 1
  <2>1. t.up = s.up /\ t.pendingDataSize = s.pendingDataSize /\ t.error = s.error
    BY <1>1, <1>2, <1>7, DataOutFrame
  <2> QED BY <1>4, <1>5, <1>7, <2>1, AccountFrame
<1>8. CASE c # NoCMD /\ ~(s.dataLeft > 1)
  <2>1. c \in Asked /\ c.type = "WRITE" /\ c \in Issued
    BY <1>1, <1>2, <1>8 DEF AskedWrites, Issued
  <2>2. Owes[c] = IF Reserves(c) THEN ResponseLength(c) ELSE 0
    BY <2>1, OwesWeigh, OwedIs
  <2>3. Reserves(c) <=> Answered(c)
    BY <2>1, OwedIs DEF Answered
  <2>4. /\ ~Answered(c) => t.up = s.up /\ t.pendingDataSize = s.pendingDataSize /\ t.error = s.error
        /\ Answered(c) =>
                   /\ t.up = Append(s.up, [tag |-> c.tag, lng |-> ResponseLength(c)])
                   /\ t.pendingDataSize = s.pendingDataSize - ResponseLength(c)
                   /\ Checked(s, t, c)
    BY <1>1, <1>2, <1>8, DataOutFrame
  <2>5. /\ ReadLoad(Owes, s) \in Nat /\ WriteLoad(Owes, s) \in Nat /\ Owes[s.atomicCMD] \in Nat
        /\ Owes[c] <= WriteLoad(Owes, s) /\ Owes[c] \in Nat
    BY <1>2, AccountParts
  <2>6. WriteLoad(Owes, t) = WriteLoad(Owes, s) - Owes[c]
    <3>1. WriteLoad(Owes, t) \in Nat
      <4>1. t \in VaultSet
        BY DataOutType
      <4> QED BY <4>1, OwesWeigh, LoadParts
    <3> QED BY <1>5, <1>8, <2>5, <3>1
  <2>7. CASE Answered(c)
    <3>1. PICK n : n = ResponseLength(c)
      OBVIOUS
    <3>2. n = Owes[c]
      BY <2>2, <2>3, <2>7, <3>1
    <3>3. n <= Due3(s) /\ Due3(t) = Due3(s) - n
      BY <1>4, <1>5, <2>5, <2>6, <3>2 DEF Due3
    <3> QED BY <2>1, <2>4, <2>7, <3>1, <3>3, AccountAnswers
  <2>8. CASE ~Answered(c)
    <3>1. Owes[c] = 0
      BY <2>2, <2>3, <2>8
    <3>2. WriteLoad(Owes, t) = WriteLoad(Owes, s)
      BY <2>5, <2>6, <3>1
    <3> QED BY <1>4, <1>5, <2>4, <2>8, <3>2, AccountFrame
  <2> QED BY <2>7, <2>8
<1> QED BY <1>6, <1>7, <1>8

\* An access that is issued reserves its response (VaultController.cpp:213-237).
LEMMA IssueAccount ==
  ASSUME NEW s \in VaultSet, s.cmdBus = NoCMD, Account(s), NEW t, t = IssuePopped(s), NEW c, c = s.popped,
         Reserves(c) => RoomForResponse(s, c)
  PROVE  Account(t)
<1>1. IsVault(s) /\ c \in Issued
  BY VaultSetIs DEF VaultHas
<1>2. /\ Same(s, t, {"writeData", "pendingDataSize", "cmdBus", "cmdLeft", "popped"})
      /\ c = NoCMD => t = s
      /\ c # NoCMD => t.pendingDataSize = IF Reserves(c) THEN s.pendingDataSize + ResponseLength(c)
                                          ELSE s.pendingDataSize
  BY <1>1, IssueFrame
<1>3. CASE c = NoCMD
  BY <1>2, <1>3
<1>4. CASE c # NoCMD
  <2>1. t.up = s.up /\ t.error = s.error /\ t.atomicCMD = s.atomicCMD
    BY <1>2 DEF Same, Fields
  <2>2. /\ ReadLoad(Owes, t) = ReadLoad(Owes, s) + IF c.type = "WRITE" THEN 0 ELSE Owes[c]
        /\ WriteLoad(Owes, t) = WriteLoad(Owes, s) + IF c.type = "WRITE" THEN Owes[c] ELSE 0
        /\ Owes[c] \in Nat /\ Owes[c] = Owed(c)
    BY <1>1, OwesWeigh, IssueLoad
  <2>3. /\ s.pendingDataSize \in Nat /\ Size(s.up) \in Nat
        /\ ReadLoad(Owes, s) \in Nat /\ WriteLoad(Owes, s) \in Nat /\ Owes[s.atomicCMD] \in Nat
        /\ s.pendingDataSize = ReadLoad(Owes, s) + WriteLoad(Owes, s) + Owes[s.atomicCMD]
        /\ s.pendingDataSize + Size(s.up) <= MAX_VLT_BUF /\ MAX_VLT_BUF \in Nat
    BY AccountParts
  <2>4. Due3(t) = Due3(s) + Owes[c]
    BY <2>1, <2>2, <2>3 DEF Due3
  <2>5. CASE Reserves(c)
    <3>1. c \in Asked
      BY <1>1, <2>5, OwedByOthers, IssuedHas
    <3>2. Owes[c] = ResponseLength(c) /\ Owes[c] <= Requests[c.tag].data + 1
      BY <2>2, <2>5, <3>1, OwedIs
    <3>3. Requests[c.tag].data \in Nat
      BY <3>1, AskedHas, RequestHas
    <3>4. s.pendingDataSize + Requests[c.tag].data + 1 <= MAX_VLT_BUF - Size(s.up)
      BY <2>5 DEF RoomForResponse
    <3>5. t.pendingDataSize = s.pendingDataSize + Owes[c]
      BY <1>2, <1>4, <2>5, <3>2
    <3>6. t.pendingDataSize + Size(t.up) <= MAX_VLT_BUF
      BY <2>1, <2>2, <2>3, <3>2, <3>3, <3>4, <3>5
    <3> QED BY <2>1, <2>4, <3>5, <3>6 DEF Account
  <2>6. CASE ~Reserves(c)
    <3>1. Owes[c] = 0
      <4>1. CASE c.type \in {"READ", "WRITE"}
        BY <1>1, <2>2, <2>6, <4>1, IssuedHas, OwedIs
      <4>2. CASE c.type \notin {"READ", "WRITE"}
        BY <1>1, <2>2, <4>2, OwedByOthers
      <4> QED BY <4>1, <4>2
    <3>2. t.pendingDataSize = s.pendingDataSize /\ Due3(t) = Due3(s)
      BY <1>2, <1>4, <2>3, <2>4, <2>6, <3>1 DEF Due3
    <3> QED BY <2>1, <3>2 DEF Account
  <2> QED BY <2>5, <2>6
<1> QED BY <1>3, <1>4

-----------------------------------------------------------------------------
\* UpdateCountdown moves what is under way, and answers what ends.
LEMMA CountdownAccount ==
  ASSUME NEW s \in VaultSet, s.cmdBus # NoCMD => s.cmdLeft = 1, NEW due \in BOOLEAN,
         s.cmdBus # NoCMD => ReceiveCMD(s.bank, s.cmdBus) \in [Banks -> BankType],
         Due(s.writeData) => s.dataBus = NoCMD, NEW t, t = UpdateCountdown(s, due)
  PROVE  /\ \A W \in Weights : ReadLoad(W, t) = ReadLoad(W, s)
         /\ Account(s) => Account(t)
<1>1. PICK s1 : s1 = CommandOut(s)
  OBVIOUS
<1>2. PICK s2 : s2 = DataOut(s1)
  OBVIOUS
<1>3. PICK s3 : s3 = WriteDataOut(s2)
  OBVIOUS
<1>4. t = Timer(s3, due)
  BY <1>1, <1>2, <1>3, Zenon DEF UpdateCountdown, Timer
<1>5. IsVault(s)
  BY VaultSetIs
<1>6. s1 \in VaultSet /\ IsVault(s1)
  <2>1. s1 \in VaultSet
    BY <1>1, CommandOutType
  <2> QED BY <2>1, VaultSetIs
<1>7. s2 \in VaultSet /\ IsVault(s2)
  <2>1. s2 \in VaultSet
    BY <1>2, <1>6, DataOutType
  <2> QED BY <2>1, VaultSetIs
<1>8. s3 \in VaultSet /\ IsVault(s3)
  <2>1. s3 \in VaultSet
    BY <1>3, <1>7, WriteDataOutType
  <2> QED BY <2>1, VaultSetIs
<1>9. Same(s, s1, {"cmdBus", "cmdLeft", "bank", "reads"})
  BY <1>1, <1>5, CommandOutFrame
<1>10. /\ Same(s1, s2, {"dataBus", "dataLeft", "up", "pendingDataSize", "error"})
       /\ s1.dataBus = NoCMD => s2 = s1
  BY <1>2, <1>6, DataOutFrame
<1>11. WriteDue(s2) => s2.dataBus = NoCMD
  <2>1. s2.writeData = s.writeData /\ s1.dataBus = s.dataBus
    BY <1>9, <1>10 DEF Same, Fields
  <2> QED BY <1>10, <2>1 DEF WriteDue, Due
<1>12. /\ Same(s2, s3, {"dataBus", "dataLeft", "writeData", "error"})
       /\ s3.error = s2.error
  BY <1>3, <1>7, <1>11, WriteDataOutFrame
<1>13. Same(s3, t, {"refreshWaiting", "refreshes"})
  <2>1. (due => Same(s3, t, {"refreshWaiting", "refreshes"})) /\ (~due => t = s3)
    BY <1>4, <1>8, TimerFrame
  <2> QED BY <2>1, <1>8, SameSelf
<1>14. t.cmdBus = s3.cmdBus /\ t.readData = s3.readData /\ t.reads = s3.reads /\ t.dataBus = s3.dataBus
       /\ t.writeData = s3.writeData /\ t.atomicCMD = s3.atomicCMD /\ t.error = s3.error
       /\ t.pendingDataSize = s3.pendingDataSize /\ t.up = s3.up
  BY <1>13 DEF Same, Fields
<1>15. ASSUME NEW W \in Weights
       PROVE  /\ ReadLoad(W, s1) = ReadLoad(W, s) /\ WriteLoad(W, s1) = WriteLoad(W, s)
              /\ ReadLoad(W, s2) = ReadLoad(W, s1)
              /\ ReadLoad(W, s3) = ReadLoad(W, s2) /\ WriteLoad(W, s3) = WriteLoad(W, s2)
              /\ ReadLoad(W, t) = ReadLoad(W, s3) /\ WriteLoad(W, t) = WriteLoad(W, s3)
  <2>1. ReadLoad(W, s1) = ReadLoad(W, s) /\ WriteLoad(W, s1) = WriteLoad(W, s)
    BY <1>1, CommandOutLoad
  <2>2. ReadLoad(W, s2) = ReadLoad(W, s1)
    BY <1>2, <1>6, DataOutLoad
  <2>3. ReadLoad(W, s3) = ReadLoad(W, s2) /\ WriteLoad(W, s3) = WriteLoad(W, s2)
    BY <1>3, <1>7, <1>11, WriteDataOutLoad
  <2>4. ReadLoad(W, t) = ReadLoad(W, s3) /\ WriteLoad(W, t) = WriteLoad(W, s3)
    BY <1>14, LoadFrame
  <2> QED BY <2>1, <2>2, <2>3, <2>4
<1>16. \A W \in Weights : ReadLoad(W, t) = ReadLoad(W, s)
  BY <1>15
<1>17. ASSUME Account(s) PROVE Account(t)
  <2>1. Account(s1)
    <3>1. s1.atomicCMD = s.atomicCMD /\ s1.pendingDataSize = s.pendingDataSize /\ s1.up = s.up /\ s1.error = s.error
      BY <1>9 DEF Same, Fields
    <3> QED BY <1>15, <1>17, <3>1, OwesWeigh, AccountFrame
  <2>2. Account(s2)
    BY <1>2, <1>6, <2>1, DataOutAccount
  <2>3. Account(s3)
    <3>1. s3.atomicCMD = s2.atomicCMD /\ s3.pendingDataSize = s2.pendingDataSize /\ s3.up = s2.up
      BY <1>12 DEF Same, Fields
    <3> QED BY <1>12, <1>15, <2>2, <3>1, OwesWeigh, AccountFrame
  <2> QED BY <1>14, <1>15, <2>3, OwesWeigh, AccountFrame
<1> QED BY <1>16, <1>17

\* The crossbar makes room.
LEMMA FilledAccount ==
  ASSUME OPEN_PAGE, NEW s, NEW u, NEW due, u = UpdateCountdown(s, due), u \in VaultSet,
         NEW taken \in BOOLEAN, NEW f, f = Filled(s, taken, due)
  PROVE  /\ \A W \in Weights : ReadLoad(W, f) = ReadLoad(W, u)
         /\ Account(u) => Account(f)
<1>1. PICK m : m = ConvAll(u)
  OBVIOUS
<1>2. m \in VaultSet /\ Same(u, m, Converted)
  BY <1>1, ConvAllFrame
<1>3. f = Sent(m, taken)
  BY <1>1 DEF Filled
<1>4. Same(m, f, {"up"}) /\ (f.up = m.up \/ (m.up # <<>> /\ f.up = Tail(m.up)))
  BY <1>2, <1>3, SentIs
<1>5. m.up = u.up /\ f.cmdBus = u.cmdBus /\ f.readData = u.readData /\ f.reads = u.reads /\ f.dataBus = u.dataBus
       /\ f.writeData = u.writeData /\ f.atomicCMD = u.atomicCMD /\ f.error = u.error
       /\ f.pendingDataSize = u.pendingDataSize
  BY <1>2, <1>4 DEF Same, Fields, Converted
<1>6. \A W : ReadLoad(W, f) = ReadLoad(W, u) /\ WriteLoad(W, f) = WriteLoad(W, u)
  BY <1>5, LoadFrame
<1>7. ASSUME Account(u) PROVE Account(f)
  <2>1. u.pendingDataSize \in Nat /\ Size(u.up) \in Nat /\ u.up \in Seq(Response)
        /\ u.pendingDataSize + Size(u.up) <= MAX_VLT_BUF /\ MAX_VLT_BUF \in Nat
    BY <1>7, AccountParts
  <2>2. Size(f.up) \in Nat /\ Size(f.up) <= Size(u.up)
    BY <1>4, <1>5, <2>1, ResponsesAre
  <2>3. Due3(f) = Due3(u)
    BY <1>5, <1>6 DEF Due3
  <2>4. f.pendingDataSize + Size(f.up) <= MAX_VLT_BUF
    BY <1>5, <2>1, <2>2
  <2> QED BY <1>5, <1>7, <2>3, <2>4 DEF Account
<1> QED BY <1>6, <1>7

\* What an access finds when it is popped, it finds when it is sent.
LEMMA PopAccount ==
  ASSUME NEW f \in VaultSet, NEW p \in VaultSet, Pops(f, p), f.popped = NoCMD, NEW c, c = p.popped
  PROVE  /\ \A W \in Weights : ReadLoad(W, p) = ReadLoad(W, f)
         /\ Account(f) => Account(p)
         /\ Reserves(c) => RoomForResponse(p, c)
<1>1. Same(f, p, {"tFAW", "issuedBank", "popped", "queue", "lock", "rowAccess", "refreshWaiting"})
  BY PopFrame
<1>2. p.cmdBus = f.cmdBus /\ p.readData = f.readData /\ p.reads = f.reads /\ p.dataBus = f.dataBus
       /\ p.writeData = f.writeData /\ p.atomicCMD = f.atomicCMD /\ p.error = f.error
       /\ p.pendingDataSize = f.pendingDataSize /\ p.up = f.up
  BY <1>1 DEF Same, Fields
<1>3. \A W : ReadLoad(W, p) = ReadLoad(W, f) /\ WriteLoad(W, p) = WriteLoad(W, f)
  BY <1>2, LoadFrame
<1>4. Account(f) => Account(p)
  BY <1>2, <1>3, AccountFrame
<1>5. c \in Issued
  BY VaultSetIs DEF VaultHas
<1>6. ASSUME Reserves(c) PROVE RoomForResponse(p, c)
  <2>1. c.type \in {"READ", "WRITE"}
    BY <1>5, <1>6, OwedByOthers
  <2>2. c \in Asked
    BY <1>5, <2>1, IssuedHas
  <2>3. ~Requests[c.tag].posted /\ (c.type = "WRITE" => ~Atomic(c))
    BY <1>6, <2>2, OwedIs
  <2>4. RoomForResponse(f, c)
    <3>1. c # NoCMD
      BY <2>2, AskedHas
    <3>2. ~Same(f, p, {"tFAW", "issuedBank"})
      <4>1. ASSUME Same(f, p, {"tFAW", "issuedBank"}) PROVE FALSE
        <5>1. p.popped = f.popped
          BY <4>1 DEF Same, Fields
        <5> QED BY <3>1, <5>1
      <4> QED BY <4>1
    <3>3. ASSUME NEW b \in Banks PROVE ~PopsPrecharge(f, p, b)
      BY <2>1, CloserHas DEF PopsPrecharge
    <3>4. ~PopsRefresh(f, p)
      BY <2>1, CloserHas DEF PopsRefresh
    <3>5. PICK b \in Banks : \E i \in 1 .. Len(f.queue[Q(b)]) : PopsAccess(f, p, b, i)
      BY <3>2, <3>3, <3>4 DEF Pops
    <3>6. PICK i \in 1 .. Len(f.queue[Q(b)]) : PopsAccess(f, p, b, i)
      BY <3>5
    <3>7. Ready(f, c)
      BY <3>6 DEF PopsAccess, Taken
    <3> QED BY <2>1, <2>3, <3>7 DEF Ready
  <2> QED BY <1>2, <2>4 DEF RoomForResponse
<1> QED BY <1>3, <1>4, <1>6

-----------------------------------------------------------------------------
\* The write-back of an atomic, or the end of one that writes nothing back.
LEMMA AtomicAccount ==
  ASSUME NEW s \in VaultSet, AtomicTurn(s), NEW t, t = AtomicOperation(s), t \in VaultSet
  PROVE  /\ \A W \in Weights : ReadLoad(W, t) = ReadLoad(W, s)
         /\ Account(s) => Account(t)
<1>1. IsVault(s) /\ s.atomicCMD \in AskedReads \cup {NoCMD}
  BY VaultSetIs DEF VaultHas
<1>2. PICK c : c = s.atomicCMD
  OBVIOUS
<1>3. /\ c = NoCMD => t = s
      /\ c # NoCMD /\ s.atomicOperLeft > 0 => AtomicCounts(s, t)
      /\ c # NoCMD /\ ~(s.atomicOperLeft > 0) => AtomicEnds(s, t, c)
  BY <1>1, <1>2, AtomicFrame
<1>4. t = s \/ Same(s, t, {"atomicOperLeft"}) \/ Same(s, t, {"atomicCMD", "queue", "up", "pendingDataSize", "error"})
  BY <1>3 DEF AtomicCounts, AtomicEnds
<1>5. t.cmdBus = s.cmdBus /\ t.readData = s.readData /\ t.reads = s.reads /\ t.dataBus = s.dataBus
      /\ t.writeData = s.writeData
  BY <1>4 DEF Same, Fields
<1>6. \A W : ReadLoad(W, t) = ReadLoad(W, s) /\ WriteLoad(W, t) = WriteLoad(W, s)
  BY <1>5, LoadFrame
<1>7. ASSUME Account(s) PROVE Account(t)
  <2>1. CASE c = NoCMD
    BY <1>3, <1>7, <2>1
  <2>2. CASE c # NoCMD /\ s.atomicOperLeft > 0
    <3>1. t.atomicCMD = s.atomicCMD /\ t.pendingDataSize = s.pendingDataSize /\ t.up = s.up /\ t.error = s.error
      BY <1>3, <2>2 DEF AtomicCounts, Same, Fields
    <3> QED BY <1>6, <1>7, <3>1, AccountFrame
  <2>3. CASE c # NoCMD /\ ~(s.atomicOperLeft > 0)
    <3>1. AtomicEnds(s, t, c)
      BY <1>3, <2>3
    <3>2. c \in Asked /\ c.type = "READ" /\ c \in Issued /\ Atomic(c)
      BY <1>1, <1>2, <2>3 DEF AskedReads, Issued, AtomicTurn
    <3>3. c.last
      BY <3>2 DEF Asked, Atomic
    <3>4. Reserves(c) <=> ~Requests[c.tag].posted
      BY <3>2, <3>3, OwedIs
    <3>5. Owes[c] = IF Reserves(c) THEN ResponseLength(c) ELSE 0
      BY <3>2, OwesWeigh, OwedIs
    <3>6. t.atomicCMD = NoCMD /\ Owes[NoCMD] = 0
      BY <3>1, OwesWeigh, WeightsHave DEF AtomicEnds
    <3>7. /\ ReadLoad(Owes, s) \in Nat /\ WriteLoad(Owes, s) \in Nat /\ Owes[c] \in Nat
      BY <1>2, <1>7, AccountParts
    <3>8. Due3(t) = ReadLoad(Owes, s) + WriteLoad(Owes, s)
      <4>1. Due3(t) = ReadLoad(Owes, s) + WriteLoad(Owes, s) + 0
        BY <1>6, <3>6 DEF Due3
      <4> QED BY <3>7, <4>1
    <3>9. Due3(s) = ReadLoad(Owes, s) + WriteLoad(Owes, s) + Owes[c]
      BY <1>2 DEF Due3
    <3>10. CASE Requests[c.tag].posted
      <4>1. Owes[c] = 0
        BY <3>4, <3>5, <3>10
      <4>2. Due3(t) = Due3(s)
        BY <3>7, <3>8, <3>9, <4>1
      <4>3. t.up = s.up /\ t.pendingDataSize = s.pendingDataSize /\ t.error = s.error
        BY <3>1, <3>10 DEF AtomicEnds
      <4> QED BY <1>7, <4>2, <4>3 DEF Account
    <3>11. CASE ~Requests[c.tag].posted
      <4>1. PICK n : n = ResponseLength(c)
        OBVIOUS
      <4>2. n = Owes[c]
        BY <3>4, <3>5, <3>11, <4>1
      <4>3. n <= Due3(s) /\ Due3(t) = Due3(s) - n
        BY <3>7, <3>8, <3>9, <4>2
      <4>4. /\ t.up = Append(s.up, [tag |-> c.tag, lng |-> n])
            /\ t.pendingDataSize = s.pendingDataSize - n
            /\ Checked(s, t, c)
        BY <3>1, <3>11, <4>1 DEF AtomicEnds
      <4> QED BY <1>7, <3>2, <4>1, <4>3, <4>4, AccountAnswers
    <3> QED BY <3>10, <3>11
  <2> QED BY <2>1, <2>2, <2>3
<1> QED BY <1>6, <1>7

\* The read that returns was asked for, and the data bus is free.
Welcome(s) == ReadEnds(s) => s.dataBus = NoCMD /\ s.atomicCMD = NoCMD /\ FoundIn(s, s.readData) # {}
\* What the end of read c makes of s.
ReadReturned(s, t, c) ==
    /\ c \in Asked /\ c.type = "READ" /\ c \in Issued
    /\ t.pendingRead = RemoveAt(s.pendingRead, Min(FoundIn(s, c)))
    /\ t.atomicCMD = IF c.last /\ Atomic(c) THEN c ELSE NoCMD
    /\ ~c.last \/ Atomic(c) =>
          t.up = s.up /\ t.pendingDataSize = s.pendingDataSize /\ t.error = s.error
    /\ c.last /\ ~Atomic(c) =>
          /\ t.up = Append(s.up, [tag |-> c.tag, lng |-> ResponseLength(c)])
          /\ t.pendingDataSize = s.pendingDataSize - ResponseLength(c)
          /\ Checked(s, t, c)
\* A read whose data is complete is handed to the vault (VaultController::ReturnCommand).
LEMMA EndedReturns ==
  ASSUME NEW s \in VaultSet, ReadEnds(s), Welcome(s), NEW c, c = s.readData, NEW t, t = Ended(s)
  PROVE  ReadReturned(s, t, c)
<1>1. IsVault(s) /\ s.readData \in AskedReads \cup {NoCMD}
  BY VaultSetIs DEF VaultHas
<1>2. c \in Asked /\ c.type = "READ" /\ c \in Issued
  BY <1>1 DEF ReadEnds, AskedReads, Issued
<1>3. PICK r : r = ReturnCommand(s, c)
  OBVIOUS
<1>4. Same(r, t, {"readData", "readLeft"})
  BY <1>1, <1>3, EndedFrame
<1>5. Returned(s, r, c)
  BY <1>1, <1>3, ReturnFrame DEF Welcome
<1>6. t.pendingRead = r.pendingRead /\ t.atomicCMD = r.atomicCMD /\ t.up = r.up
      /\ t.pendingDataSize = r.pendingDataSize /\ t.error = r.error
  BY <1>4 DEF Same, Fields
<1>7. s.atomicCMD = NoCMD
  BY DEF Welcome
<1>8. CASE ~c.last
  <2>1. r.atomicCMD = s.atomicCMD /\ r.up = s.up /\ r.pendingDataSize = s.pendingDataSize /\ r.error = s.error
    BY <1>5, <1>8 DEF Returned, Same, Fields
  <2> QED BY <1>2, <1>5, <1>6, <1>7, <1>8, <2>1 DEF Returned, ReadReturned
<1>9. CASE c.last /\ Atomic(c)
  <2>1. r.atomicCMD = c /\ r.up = s.up /\ r.pendingDataSize = s.pendingDataSize /\ r.error = s.error
    BY <1>5, <1>9 DEF Returned, Same, Fields
  <2> QED BY <1>2, <1>5, <1>6, <1>9, <2>1 DEF Returned, ReadReturned
<1>10. CASE c.last /\ ~Atomic(c)
  <2>1. r.atomicCMD = s.atomicCMD
    BY <1>5, <1>10 DEF Returned, Same, Fields
  <2>2. /\ r.up = Append(s.up, [tag |-> c.tag, lng |-> ResponseLength(c)])
        /\ r.pendingDataSize = s.pendingDataSize - ResponseLength(c)
        /\ Checked(s, r, c)
    BY <1>5, <1>10 DEF Returned
  <2>3. Checked(s, t, c)
    BY <1>6, <2>2 DEF Checked
  <2> QED BY <1>2, <1>5, <1>6, <1>7, <1>10, <2>1, <2>2, <2>3 DEF Returned, ReadReturned
<1> QED BY <1>8, <1>9, <1>10

\* The response to a read is made when its data is complete.
LEMMA EndedAccount ==
  ASSUME NEW s \in VaultSet, Account(s), Welcome(s), NEW t, t = Ended(s), t \in VaultSet
  PROVE  Account(t)
<1>1. IsVault(s)
  BY VaultSetIs
<1>2. /\ WriteLoad(Owes, t) = WriteLoad(Owes, s)
      /\ ReadEnds(s) => ReadLoad(Owes, t) + Owes[s.readData] = ReadLoad(Owes, s)
      /\ ~ReadEnds(s) => ReadLoad(Owes, t) = ReadLoad(Owes, s)
  BY OwesWeigh, EndedLoad
<1>3. CASE ~ReadEnds(s)
  <2>1. Same(s, t, {"readLeft"})
    BY <1>1, <1>3, EndedFrame
  <2>2. t.atomicCMD = s.atomicCMD /\ t.pendingDataSize = s.pendingDataSize /\ t.up = s.up /\ t.error = s.error
    BY <2>1 DEF Same, Fields
  <2> QED BY <1>2, <1>3, <2>2, AccountFrame
<1>4. CASE ReadEnds(s)
  <2>1. PICK c : c = s.readData
    OBVIOUS
  <2>2. /\ c \in Asked /\ c.type = "READ" /\ c \in Issued
        /\ t.atomicCMD = IF c.last /\ Atomic(c) THEN c ELSE NoCMD
        /\ ~c.last \/ Atomic(c) =>
              t.up = s.up /\ t.pendingDataSize = s.pendingDataSize /\ t.error = s.error
        /\ c.last /\ ~Atomic(c) =>
              /\ t.up = Append(s.up, [tag |-> c.tag, lng |-> ResponseLength(c)])
              /\ t.pendingDataSize = s.pendingDataSize - ResponseLength(c)
              /\ Checked(s, t, c)
    <3>1. ReadReturned(s, t, c)
      BY <1>4, <2>1, EndedReturns
    <3> QED BY <3>1 DEF ReadReturned
  <2>3. /\ ReadLoad(Owes, s) \in Nat /\ WriteLoad(Owes, s) \in Nat /\ Owes[c] \in Nat /\ Owes[c] <= ReadLoad(Owes, s)
    BY <2>1, AccountParts
  <2>4. ReadLoad(Owes, t) = ReadLoad(Owes, s) - Owes[c]
    <3>1. ReadLoad(Owes, t) \in Nat
      BY OwesWeigh, LoadParts
    <3> QED BY <1>2, <1>4, <2>1, <2>3, <3>1
  <2>5. Owes[NoCMD] = 0
    BY OwesWeigh, WeightsHave
  <2>6. Due3(s) = ReadLoad(Owes, s) + WriteLoad(Owes, s)
    <3>1. Due3(s) = ReadLoad(Owes, s) + WriteLoad(Owes, s) + 0
      BY <1>4, <2>5 DEF Due3, Welcome
    <3> QED BY <2>3, <3>1
  <2>7. Due3(t) = (ReadLoad(Owes, s) - Owes[c]) + WriteLoad(Owes, s) + Owes[t.atomicCMD]
    BY <1>2, <2>4 DEF Due3
  <2>8. Owes[c] = IF Reserves(c) THEN ResponseLength(c) ELSE 0
    BY <2>2, OwesWeigh, OwedIs
  <2>9. Reserves(c) <=> c.last /\ ~Requests[c.tag].posted
    BY <2>2, OwedIs
  <2>10. CASE c.last /\ Atomic(c)
    <3>1. Due3(t) = Due3(s)
      BY <2>2, <2>3, <2>6, <2>7, <2>10
    <3> QED BY <2>2, <2>10, <3>1, <1>4 DEF Account
  <2>11. CASE ~c.last
    <3>1. Owes[c] = 0
      BY <2>8, <2>9, <2>11
    <3>2. Owes[t.atomicCMD] = 0
      BY <2>2, <2>5, <2>11
    <3>3. Due3(t) = Due3(s)
      BY <2>3, <2>6, <2>7, <3>1, <3>2
    <3> QED BY <2>2, <2>11, <3>3, <1>4 DEF Account
  <2>12. CASE c.last /\ ~Atomic(c)
    <3>1. ~Requests[c.tag].posted
      <4>1. c.tag \in Tags /\ c.tag # NoTag
        BY <2>2, AskedHas
      <4>2. Requests[c.tag].op \in {"RD", "WR", "ATM"} /\ Requests[c.tag].op # "WR"
        BY <2>2, <4>1, RequestHas DEF Asked
      <4>3. Requests[c.tag].op = "RD"
        BY <2>12, <4>1, <4>2 DEF Atomic
      <4> QED BY <4>1, <4>3, NoPostedReads
    <3>2. PICK n : n = ResponseLength(c)
      OBVIOUS
    <3>3. n = Owes[c]
      BY <2>8, <2>9, <2>12, <3>1, <3>2
    <3>4. Owes[t.atomicCMD] = 0
      BY <2>2, <2>5, <2>12
    <3>5. n <= Due3(s) /\ Due3(t) = Due3(s) - n
      BY <2>3, <2>6, <2>7, <3>3, <3>4
    <3>6. /\ t.up = Append(s.up, [tag |-> c.tag, lng |-> n])
          /\ t.pendingDataSize = s.pendingDataSize - n
      BY <2>2, <2>12, <3>2
    <3> QED BY <2>2, <2>12, <3>2, <3>5, <3>6, AccountAnswers
  <2> QED BY <2>10, <2>11, <2>12
<1> QED BY <1>3, <1>4

-----------------------------------------------------------------------------
(* The reads that are expected: pendingRead has one mark for every READ    *)
(* that waits in a queue or is under way.                                  *)
ReadOf(t) == [c \in Issued |-> IF c.type = "READ" /\ c.tag = t THEN 1 ELSE 0]
Mark(t) == [x \in Tags |-> IF x = t THEN 1 ELSE 0]
Counted(s) ==
    \A t \in Tags : Total(Mark(t), s.pendingRead) =
                        Total(ReadOf(t), s.queue[Requests[t].bank]) + ReadLoad(ReadOf(t), s)

\* The weight that counts the reads of request t.
LEMMA ReadOfIs ==
  ASSUME NEW t \in Tags
  PROVE  /\ ReadOf(t) \in Weights /\ ReadOf(t) \in [Issued -> Nat]
         /\ \A c \in Issued : ReadOf(t)[c] = IF c.type = "READ" /\ c.tag = t THEN 1 ELSE 0
BY DEF ReadOf, Weights

\* The weight that counts t itself.
LEMMA MarkIs ==
  ASSUME NEW t \in Tags
  PROVE  Mark(t) \in [Tags -> Nat] /\ \A x \in Tags : Mark(t)[x] = IF x = t THEN 1 ELSE 0
BY DEF Mark

\* What waits in a queue can be issued.
LEMMA AskedIssued ==
  ASSUME NEW q \in Seq(Asked)
  PROVE  q \in Seq(Issued) /\ Len(q) \in Nat /\ \A i \in 1 .. Len(q) : q[i] \in Asked /\ q[i] \in Issued
BY DEF Issued

\* A request adds a mark for each of its reads.
LEMMA CommandsCount ==
  ASSUME OPEN_PAGE, NEW tag \in Tags, NEW t \in Tags, NEW q, q = Commands(tag)
  PROVE  Total(ReadOf(t), q) = IF t = tag /\ Requests[tag].op # "WR" THEN Requests[tag].cmds ELSE 0
<1>1. /\ q \in Seq(Asked) /\ Len(q) = Requests[tag].cmds + 1
      /\ q[1].type = "ACTIVATE"
      /\ \A i \in 1 .. Len(q) : q[i].tag = tag
      /\ \A i \in 2 .. Len(q) : q[i].type = IF Requests[tag].op = "WR" THEN "WRITE" ELSE "READ"
  BY CommandsIs
<1>2. Requests[tag].cmds \in Nat
  BY RequestHas
<1>3. PICK W : W = ReadOf(t)
  OBVIOUS
<1>4. W \in [Issued -> Nat] /\ \A c \in Issued : W[c] = IF c.type = "READ" /\ c.tag = t THEN 1 ELSE 0
  BY <1>3, ReadOfIs
<1>5. q \in Seq(Issued) /\ Len(q) \in Nat /\ \A i \in 1 .. Len(q) : q[i] \in Issued
  BY <1>1, AskedIssued
<1>6. CASE t = tag /\ Requests[tag].op # "WR"
  <2>1. q # <<>> /\ Head(q) = q[1] /\ 1 \in 1 .. Len(q)
    BY <1>1, <1>2, <1>5
  <2>2. PICK r : r = Tail(q)
    OBVIOUS
  <2>3. r \in Seq(Issued) /\ Len(r) = Requests[tag].cmds /\ \A i \in 1 .. Len(q) - 1 : r[i] = q[i + 1]
    BY <1>1, <1>2, <1>5, <2>1, <2>2, TailOf
  <2>4. \A i \in 1 .. Len(r) : W[r[i]] = 1
    <3>1. SUFFICES ASSUME NEW i \in 1 .. Len(r) PROVE W[r[i]] = 1
      OBVIOUS
    <3>2. Len(q) = Requests[tag].cmds + 1 /\ Len(r) = Requests[tag].cmds
          /\ i \in 1 .. Requests[tag].cmds /\ i \in 1 .. Len(q) - 1
      BY <1>1, <1>2, <2>3
    <3>3. r[i] = q[i + 1]
      BY <2>3, <3>2
    <3>4. i + 1 \in 2 .. Len(q) /\ i + 1 \in 1 .. Len(q)
      BY <1>2, <3>2
    <3> QED BY <1>1, <1>4, <1>5, <1>6, <3>3, <3>4
  <2>5. Total(W, r) = Requests[tag].cmds
    BY <1>4, <2>3, <2>4, SumCounts
  <2>6. W[q[1]] = 0
    BY <1>1, <1>4, <1>5, <2>1
  <2>7. Total(W, q) = W[Head(q)] + Total(W, Tail(q))
    BY <1>4, <1>5, <2>1, SumHeadTail
  <2>8. Total(W, q) = Requests[tag].cmds
    BY <1>2, <2>1, <2>2, <2>5, <2>6, <2>7
  <2> QED BY <1>3, <1>6, <2>8
<1>7. CASE ~(t = tag /\ Requests[tag].op # "WR")
  <2>1. ASSUME NEW i \in 1 .. Len(q) PROVE W[q[i]] = 0
    <3>1. q[i] \in Issued /\ q[i].tag = tag /\ W[q[i]] = IF q[i].type = "READ" /\ q[i].tag = t THEN 1 ELSE 0
      BY <1>1, <1>4, <1>5
    <3>2. CASE i = 1
      BY <1>1, <3>1, <3>2
    <3>3. CASE i # 1
      <4>1. i \in 2 .. Len(q)
        BY <1>5, <3>3
      <4> QED BY <1>1, <1>7, <3>1, <4>1
    <3> QED BY <3>2, <3>3
  <2>2. Total(W, q) = 0
    BY <1>4, <1>5, <2>1, SumZero DEF Weightless
  <2> QED BY <1>3, <1>7, <2>2
<1> QED BY <1>6, <1>7

\* A request is entered in pendingRead once for each of its reads.
LEMMA MarksCount ==
  ASSUME NEW tag \in Tags, NEW t \in Tags, NEW n \in Nat, NEW m, m = [j \in 1 .. n |-> tag]
  PROVE  m \in Seq(Tags) /\ Total(Mark(t), m) = IF t = tag THEN n ELSE 0
<1>1. m \in Seq(Tags) /\ Len(m) = n /\ \A i \in 1 .. Len(m) : m[i] = tag
  OBVIOUS
<1>2. PICK W : W = Mark(t)
  OBVIOUS
<1>3. W \in [Tags -> Nat] /\ W[tag] = IF tag = t THEN 1 ELSE 0
  BY <1>2, MarkIs
<1>4. CASE t = tag
  BY <1>1, <1>2, <1>3, <1>4, SumCounts
<1>5. CASE t # tag
  BY <1>1, <1>2, <1>3, <1>5, SumZero DEF Weightless
<1> QED BY <1>1, <1>4, <1>5

\* What an access that is taken weighs is missing in what is left.
LEMMA RestLoad ==
  ASSUME NEW W \in Weights, NEW q \in Seq(Asked), NEW i \in 1 .. Len(q), NEW r, r = Rest(q, i)
  PROVE  Total(W, q) = Total(W, r) + W[q[i]]
<1>1. W \in [Issued -> Nat] /\ \A c \in Issued : c.type \notin {"READ", "WRITE"} => W[c] = 0
  BY DEF Weights
<1>2. q \in Seq(Issued) /\ Len(q) \in Nat /\ \A j \in 1 .. Len(q) : q[j] \in Issued
  BY AskedIssued
<1>3. PICK m : m = RemoveAt(q, i)
  OBVIOUS
<1>4. /\ m \in Seq(Issued) /\ Len(m) = Len(q) - 1
      /\ \A k \in 1 .. Len(q) - 1 : m[k] = IF k < i THEN q[k] ELSE q[k + 1]
  BY <1>2, <1>3, RemoveFrom
<1>5. Total(W, q) = Total(W, m) + W[q[i]]
  <2>1. W \in [Issued -> Nat] /\ q \in Seq(Issued) /\ m \in Seq(Issued)
    BY <1>1, <1>2, <1>4
  <2>2. Without(m, q, i)
    BY <1>4 DEF Without
  <2> QED BY <2>1, <2>2, SumRemove
<1>6. CASE i > 1 /\ q[i - 1].type = "ACTIVATE"
  <2>1. PICK j : j = i - 1
    OBVIOUS
  <2>2. j \in 1 .. Len(m) /\ j < i /\ j \in 1 .. Len(q) - 1 /\ j \in 1 .. Len(q)
    BY <1>2, <1>4, <1>6, <2>1
  <2>3. r = RemoveAt(m, j)
    BY <1>3, <1>6, <2>1 DEF Rest
  <2>4. /\ r \in Seq(Issued) /\ Len(r) = Len(m) - 1
        /\ \A k \in 1 .. Len(m) - 1 : r[k] = IF k < j THEN m[k] ELSE m[k + 1]
    <3>1. m \in Seq(Issued) /\ j \in 1 .. Len(m)
      BY <1>4, <2>2
    <3> QED BY <2>3, <3>1, RemoveFrom
  <2>5. Total(W, m) = Total(W, r) + W[m[j]]
    <3>1. W \in [Issued -> Nat] /\ m \in Seq(Issued) /\ r \in Seq(Issued) /\ j \in 1 .. Len(m)
      BY <1>1, <1>4, <2>2, <2>4
    <3>2. Without(r, m, j)
      BY <2>4 DEF Without
    <3> QED BY <3>1, <3>2, SumRemove
  <2>6. W[m[j]] = 0
    <3>1. m[j] = q[j] /\ q[j] \in Issued /\ q[j].type = "ACTIVATE"
      BY <1>2, <1>4, <1>6, <2>1, <2>2
    <3> QED BY <1>1, <3>1
  <2>7. Total(W, r) \in Nat
    BY <1>1, <2>4, SumType
  <2> QED BY <1>5, <2>5, <2>6, <2>7
<1>7. CASE ~(i > 1 /\ q[i - 1].type = "ACTIVATE")
  <2>1. r = m
    BY <1>3, <1>7 DEF Rest
  <2> QED BY <1>5, <2>1
<1> QED BY <1>6, <1>7

-----------------------------------------------------------------------------
\* A stage that touches neither the reads nor pendingRead.
LEMMA CountedFrame ==
  ASSUME NEW s, NEW t, Counted(s), t.pendingRead = s.pendingRead, t.queue = s.queue,
         \A W \in Weights : ReadLoad(W, t) = ReadLoad(W, s)
  PROVE  Counted(t)
BY ReadOfIs DEF Counted

\* The terms of the equation.
LEMMA CountedParts ==
  ASSUME OpenPage, NEW s \in VaultSet, NEW t \in Tags, NEW b, b = Requests[t].bank
  PROVE  /\ b \in Banks /\ s.queue \in [Banks -> Seq(Asked)] /\ s.queue[b] \in Seq(Asked)
         /\ s.queue[b] \in Seq(Issued) /\ s.pendingRead \in Seq(Tags)
         /\ Total(ReadOf(t), s.queue[b]) \in Nat /\ Total(Mark(t), s.pendingRead) \in Nat
         /\ ReadLoad(ReadOf(t), s) \in Nat
<1>1. b \in Banks
  BY RequestHas
<1>2. s.queue \in [Banks -> Seq(Asked)] /\ s.pendingRead \in Seq(Tags)
  BY OpenPageIs, VaultSetIs DEF VaultHas
<1>3. s.queue[b] \in Seq(Asked) /\ s.queue[b] \in Seq(Issued)
  BY <1>1, <1>2, AskedIssued
<1>4. Total(ReadOf(t), s.queue[b]) \in Nat
  BY <1>3, ReadOfIs, SumType
<1>5. Total(Mark(t), s.pendingRead) \in Nat
  BY <1>2, MarkIs, SumType
<1>6. ReadLoad(ReadOf(t), s) \in Nat
  BY ReadOfIs, LoadParts
<1> QED BY <1>1, <1>2, <1>3, <1>4, <1>5, <1>6

\* A read that returns was asked for.
LEMMA CountedFinds ==
  ASSUME OpenPage, NEW s \in VaultSet, Counted(s), s.readData # NoCMD
  PROVE  FoundIn(s, s.readData) # {}
<1>1. PICK c : c = s.readData
  OBVIOUS
<1>2. c \in AskedReads
  BY <1>1, VaultSetIs DEF VaultHas
<1>3. c \in Asked /\ c.type = "READ" /\ c \in Issued
  BY <1>2 DEF AskedReads, Issued
<1>4. PICK t \in Tags : t = c.tag
  BY <1>3, AskedHas
<1>5. ReadOf(t)[c] = 1 /\ ReadOf(t)[c] <= ReadLoad(ReadOf(t), s)
  BY <1>1, <1>3, <1>4, ReadOfIs, LoadParts
<1>6. PICK b : b = Requests[t].bank
  OBVIOUS
<1>7. /\ Total(ReadOf(t), s.queue[b]) \in Nat /\ ReadLoad(ReadOf(t), s) \in Nat
      /\ s.pendingRead \in Seq(Tags)
  BY <1>6, CountedParts
<1>8. Total(Mark(t), s.pendingRead) # 0
  BY <1>5, <1>6, <1>7 DEF Counted
<1>9. ~Weightless(Mark(t), s.pendingRead)
  BY <1>7, <1>8, MarkIs, SumZero
<1>10. PICK i \in 1 .. Len(s.pendingRead) : Mark(t)[s.pendingRead[i]] # 0
  BY <1>9 DEF Weightless
<1>11. s.pendingRead[i] = c.tag
  <2>1. PICK x : x = s.pendingRead[i]
    OBVIOUS
  <2>2. x \in Tags /\ Mark(t)[x] # 0
    BY <1>7, <1>10, <2>1
  <2>3. x = t
    BY <2>2, MarkIs
  <2> QED BY <1>4, <2>1, <2>3
<1>12. i \in DOMAIN s.pendingRead
  BY <1>7
<1>13. i \in FoundIn(s, c)
  BY <1>11, <1>12 DEF FoundIn
<1> QED BY <1>1, <1>13

\* A conversion queues as many reads as it enters in pendingRead.
LEMMA ConvCounted ==
  ASSUME OpenPage, NEW s \in VaultSet, Counted(s), NEW i \in 1 .. Len(s.down),
         NEW t, t = ConvPacketIntoCMDs(s, i), t \in VaultSet
  PROVE  Counted(t)
<1>0. OPEN_PAGE /\ Queues = Banks /\ (\A b \in Banks : Q(b) = b)
  BY OpenPageIs
<1>1. IsVault(s) /\ VaultHas(s)
  BY VaultSetIs
<1>2. PICK tag : tag = s.down[i]
  OBVIOUS
<1>3. PICK b : b = Requests[tag].bank
  OBVIOUS
<1>4. tag \in Tags /\ b \in Banks /\ Requests[tag].cmds \in Nat
  <2>1. tag \in Tags
    BY <1>1, <1>2 DEF VaultHas
  <2> QED BY <1>3, <2>1, RequestHas
<1>5. Converts(s, t, i, tag, b)
  BY <1>1, <1>2, <1>3, ConvFrame
<1>6. PICK new, n : new = Commands(tag) /\ n = Requests[tag].cmds
  OBVIOUS
<1>7. PICK m : m = [j \in 1 .. n |-> tag]
  OBVIOUS
<1>8. /\ Same(s, t, {"queue", "fresh", "down", "converted", "pendingRead"})
      /\ t.queue = [s.queue EXCEPT ![b] = s.queue[b] \o new]
      /\ t.pendingRead = IF Requests[tag].op = "WR" THEN s.pendingRead ELSE s.pendingRead \o m
  BY <1>0, <1>4, <1>5, <1>6, <1>7 DEF Converts
<1>9. t.cmdBus = s.cmdBus /\ t.readData = s.readData /\ t.reads = s.reads
      /\ t.dataBus = s.dataBus /\ t.writeData = s.writeData
  BY <1>8 DEF Same, Fields
<1>10. new \in Seq(Asked) /\ new \in Seq(Issued)
  BY <1>0, <1>4, <1>6, CommandsIs, AskedIssued
<1>11. ASSUME NEW x \in Tags
       PROVE  Total(Mark(x), t.pendingRead) =
                  Total(ReadOf(x), t.queue[Requests[x].bank]) + ReadLoad(ReadOf(x), t)
  <2>1. PICK d : d = Requests[x].bank
    OBVIOUS
  <2>2. PICK p : p = s.queue[d]
    OBVIOUS
  <2>3. /\ d \in Banks /\ s.queue \in [Banks -> Seq(Asked)] /\ p \in Seq(Issued) /\ s.pendingRead \in Seq(Tags)
        /\ Total(ReadOf(x), p) \in Nat /\ Total(Mark(x), s.pendingRead) \in Nat
        /\ ReadLoad(ReadOf(x), s) \in Nat
    BY <2>1, <2>2, CountedParts
  <2>4. Total(Mark(x), s.pendingRead) = Total(ReadOf(x), p) + ReadLoad(ReadOf(x), s)
    BY <2>1, <2>2 DEF Counted
  <2>5. ReadLoad(ReadOf(x), t) = ReadLoad(ReadOf(x), s)
    BY <1>9, LoadFrame
  <2>6. PICK k : k = IF x = tag /\ Requests[tag].op # "WR" THEN n ELSE 0
    OBVIOUS
  <2>7. k \in Nat
    BY <1>4, <1>6, <2>6
  <2>8. Total(ReadOf(x), new) = k
    BY <1>0, <1>4, <1>6, <2>6, CommandsCount
  <2>9. Total(ReadOf(x), t.queue[d]) = Total(ReadOf(x), p) + k
    <3>1. CASE d = b
      <4>1. t.queue[d] = p \o new
        BY <1>8, <2>2, <2>3, <3>1
      <4>2. PICK W : W = ReadOf(x)
        OBVIOUS
      <4>3. W \in [Issued -> Nat]
        BY <4>2, ReadOfIs
      <4>4. new \in Seq(Issued) /\ p \in Seq(Issued)
        BY <1>10, <2>3
      <4>5. Total(W, p \o new) = Total(W, p) + Total(W, new)
        BY <4>3, <4>4, SumConcat
      <4> QED BY <2>8, <4>1, <4>2, <4>5
    <3>2. CASE d # b
      <4>1. t.queue[d] = p
        BY <1>8, <2>2, <2>3, <3>2
      <4>2. x # tag
        BY <1>3, <2>1, <3>2
      <4> QED BY <2>3, <2>6, <4>1, <4>2
    <3> QED BY <3>1, <3>2
  <2>10. Total(Mark(x), t.pendingRead) = Total(Mark(x), s.pendingRead) + k
    <3>1. CASE Requests[tag].op = "WR"
      BY <1>8, <2>3, <2>6, <3>1
    <3>2. CASE Requests[tag].op # "WR"
      <4>1. m \in Seq(Tags) /\ Total(Mark(x), m) = k
        BY <1>4, <1>6, <1>7, <2>6, <3>2, MarksCount
      <4>2. PICK W, v : W = Mark(x) /\ v = s.pendingRead
        OBVIOUS
      <4>3. W \in [Tags -> Nat] /\ v \in Seq(Tags) /\ m \in Seq(Tags)
        BY <2>3, <4>1, <4>2, MarkIs
      <4>4. Total(W, v \o m) = Total(W, v) + Total(W, m)
        BY <4>3, SumConcat
      <4> QED BY <1>8, <3>2, <4>1, <4>2, <4>4
    <3> QED BY <3>1, <3>2
  <2> QED BY <2>1, <2>3, <2>4, <2>5, <2>7, <2>9, <2>10
<1> QED BY <1>11 DEF Counted

-----------------------------------------------------------------------------
\* CmdPop takes an access, or a command that is no request's.
NoAccess(f, p) ==
    p.queue = f.queue /\ p.lock = f.lock /\ p.popped.type \in {"NONE", "PRECHARGE", "REFRESH"}
\* Access i of bank b: q is left of the queue, c is taken.
TakesAccess(f, p, b, i) ==
    /\ b \in Banks /\ i \in 1 .. Len(f.queue[b])
    /\ p.popped = f.queue[b][i]
    /\ p.queue = [f.queue EXCEPT ![b] = Rest(f.queue[b], i)]
    /\ p.lock = [f.lock EXCEPT ![b] = Holder(f, b, f.queue[b][i])]
    /\ f.lock[b] # NoTag => i = 1 /\ f.queue[b][1].tag = f.lock[b]
    /\ f.lock[b] = NoTag => ~DependencyFound(f.queue[b], i)
\* The scheduler takes an access from a queue, or no access.
LEMMA PopsIs ==
  ASSUME OpenPage, NEW f \in VaultSet, NEW p \in VaultSet, Pops(f, p), f.popped = NoCMD
  PROVE  \/ NoAccess(f, p)
         \/ \E b \in Banks : \E i \in 1 .. Len(f.queue[b]) : TakesAccess(f, p, b, i)
<1>0. \A b \in Banks : Q(b) = b
  BY OpenPageIs
<1>1. CASE Same(f, p, {"tFAW", "issuedBank"})
  <2>1. p.queue = f.queue /\ p.lock = f.lock /\ p.popped = NoCMD
    BY <1>1 DEF Same, Fields
  <2> QED BY <2>1, CloserHas DEF NoAccess
<1>2. CASE \E b \in Banks : PopsPrecharge(f, p, b)
  <2>1. PICK b \in Banks : PopsPrecharge(f, p, b)
    BY <1>2
  <2>2. p.queue = f.queue /\ p.lock = f.lock
    BY <2>1 DEF PopsPrecharge, Same, Fields
  <2>3. p.popped = Closer(b)
    BY <2>1 DEF PopsPrecharge
  <2> QED BY <2>2, <2>3, CloserHas DEF NoAccess
<1>3. CASE PopsRefresh(f, p)
  <2>1. p.queue = f.queue /\ p.lock = f.lock
    BY <1>3 DEF PopsRefresh, Same, Fields
  <2>2. p.popped = Refresher
    BY <1>3 DEF PopsRefresh
  <2> QED BY <2>1, <2>2, CloserHas DEF NoAccess
<1>4. CASE \E b \in Banks : \E i \in 1 .. Len(f.queue[Q(b)]) : PopsAccess(f, p, b, i)
  <2>1. PICK b \in Banks : \E i \in 1 .. Len(f.queue[Q(b)]) : PopsAccess(f, p, b, i)
    BY <1>4
  <2>2. Q(b) = b
    BY <1>0
  <2>3. PICK i \in 1 .. Len(f.queue[b]) : PopsAccess(f, p, b, i)
    BY <2>1, <2>2
  <2>4. Taken(f, p, b, i, Rest(f.queue[b], i)) /\ Permitted(f, b, i)
    BY <2>2, <2>3 DEF PopsAccess
  <2>5. /\ p.popped = f.queue[b][i]
        /\ p.queue = [f.queue EXCEPT ![b] = Rest(f.queue[b], i)]
        /\ p.lock = [f.lock EXCEPT ![b] = Holder(f, b, f.queue[b][i])]
    BY <2>2, <2>4 DEF Taken
  <2>6. /\ f.lock[b] # NoTag => i = 1 /\ f.queue[b][1].tag = f.lock[b]
        /\ f.lock[b] = NoTag => ~DependencyFound(f.queue[b], i)
    BY <2>2, <2>4 DEF Permitted
  <2> QED BY <2>3, <2>5, <2>6 DEF TakesAccess
<1> QED BY <1>1, <1>2, <1>3, <1>4 DEF Pops

\* A read goes from its queue to the command bus.
LEMMA IssueCounted ==
  ASSUME OpenPage, NEW f \in VaultSet, NEW p \in VaultSet, Pops(f, p), f.popped = NoCMD,
         p.cmdBus = NoCMD, Orderly(f), Counted(f), NEW t, t = IssuePopped(p), t \in VaultSet
  PROVE  Counted(t)
<1>1. Same(f, p, {"tFAW", "issuedBank", "popped", "queue", "lock", "rowAccess", "refreshWaiting"})
  BY PopFrame
<1>2. p.pendingRead = f.pendingRead
  BY <1>1 DEF Same, Fields
<1>3. PICK c : c = p.popped
  OBVIOUS
<1>4. IsVault(p)
  BY VaultSetIs
<1>5. t.pendingRead = p.pendingRead /\ t.queue = p.queue
  <2>1. Same(p, t, {"writeData", "pendingDataSize", "cmdBus", "cmdLeft", "popped"})
    BY <1>4, IssueFrame
  <2> QED BY <2>1 DEF Same, Fields
<1>6. ASSUME NEW x \in Tags
      PROVE  Total(Mark(x), t.pendingRead) =
                  Total(ReadOf(x), t.queue[Requests[x].bank]) + ReadLoad(ReadOf(x), t)
  <2>1. PICK d : d = Requests[x].bank
    OBVIOUS
  <2>2. PICK q : q = f.queue[d]
    OBVIOUS
  <2>3. /\ d \in Banks /\ f.queue \in [Banks -> Seq(Asked)] /\ q \in Seq(Asked) /\ q \in Seq(Issued)
        /\ Total(ReadOf(x), q) \in Nat /\ Total(Mark(x), f.pendingRead) \in Nat
        /\ ReadLoad(ReadOf(x), f) \in Nat
    BY <2>1, <2>2, CountedParts
  <2>4. Total(Mark(x), f.pendingRead) = Total(ReadOf(x), q) + ReadLoad(ReadOf(x), f)
    BY <2>1, <2>2 DEF Counted
  <2>5. ReadLoad(ReadOf(x), p) = ReadLoad(ReadOf(x), f)
    BY PopAccount, ReadOfIs
  <2>6. /\ c \in Issued /\ ReadOf(x)[c] \in Nat
        /\ ReadLoad(ReadOf(x), t) = ReadLoad(ReadOf(x), p) + IF c.type = "WRITE" THEN 0 ELSE ReadOf(x)[c]
    BY <1>3, ReadOfIs, IssueLoad
  <2>7. ReadOf(x)[c] = IF c.type = "READ" /\ c.tag = x THEN 1 ELSE 0
    BY <2>6, ReadOfIs
  <2>8. ReadLoad(ReadOf(x), t) = ReadLoad(ReadOf(x), f) + ReadOf(x)[c]
    BY <2>5, <2>6, <2>7
  <2>9. Total(ReadOf(x), p.queue[d]) + ReadOf(x)[c] = Total(ReadOf(x), q)
    <3>1. CASE NoAccess(f, p)
      <4>1. p.queue[d] = q /\ c.type # "READ"
        BY <1>3, <2>2, <3>1 DEF NoAccess
      <4> QED BY <2>3, <2>7, <4>1
    <3>2. CASE \E b \in Banks : \E i \in 1 .. Len(f.queue[b]) : TakesAccess(f, p, b, i)
      <4>1. PICK b \in Banks : \E i \in 1 .. Len(f.queue[b]) : TakesAccess(f, p, b, i)
        BY <3>2
      <4>2. PICK i \in 1 .. Len(f.queue[b]) : TakesAccess(f, p, b, i)
        BY <4>1
      <4>3. /\ c = f.queue[b][i]
            /\ p.queue = [f.queue EXCEPT ![b] = Rest(f.queue[b], i)]
        BY <1>3, <4>2 DEF TakesAccess
      <4>4. CASE b = d
        <5>1. PICK r : r = Rest(q, i)
          OBVIOUS
        <5>2. p.queue[d] = r /\ c = q[i] /\ i \in 1 .. Len(q)
          BY <2>2, <2>3, <4>3, <4>4, <5>1
        <5>3. Total(ReadOf(x), q) = Total(ReadOf(x), r) + ReadOf(x)[q[i]]
          BY <2>3, <5>1, <5>2, ReadOfIs, RestLoad
        <5> QED BY <5>2, <5>3
      <4>5. CASE b # d
        <5>1. p.queue[d] = q
          BY <2>2, <2>3, <4>3, <4>5
        <5>2. c \in Asked
          BY <2>3, <4>3
        <5>3. c.tag \in Tags /\ c.bank = Requests[c.tag].bank
          BY <5>2, AskedHas
        <5>4. c.bank = b
          BY <4>3 DEF Orderly
        <5>5. ~(c.type = "READ" /\ c.tag = x)
          BY <2>1, <4>5, <5>3, <5>4
        <5>6. ReadOf(x)[c] = 0
          BY <2>7, <5>5
        <5> QED BY <2>3, <5>1, <5>6
      <4> QED BY <4>4, <4>5
    <3> QED BY <3>1, <3>2, PopsIs
  <2>10. Total(ReadOf(x), p.queue[d]) \in Nat
    BY <2>1, CountedParts
  <2> QED BY <1>2, <1>5, <2>1, <2>3, <2>4, <2>6, <2>8, <2>9, <2>10
<1> QED BY <1>6 DEF Counted

-----------------------------------------------------------------------------
\* The queues after AtomicOperation.
WritesBack(s, t, c) ==
    /\ c \in AskedReads /\ c = s.atomicCMD /\ Locking(c) /\ t.atomicCMD = NoCMD
    /\ t.queue = [s.queue EXCEPT ![c.bank] = <<WriteBack(c)>> \o s.queue[c.bank]]
\* What AtomicOperation does to the queues.
LEMMA AtomicIs ==
  ASSUME OpenPage, NEW s \in VaultSet, NEW t, t = AtomicOperation(s), NEW c, c = s.atomicCMD
  PROVE  /\ t.pendingRead = s.pendingRead /\ t.lock = s.lock
         /\ t.converted = s.converted /\ t.down = s.down
         /\ \/ t.queue = s.queue /\ (t.atomicCMD = s.atomicCMD \/ (t.atomicCMD = NoCMD /\ ~Locking(c)))
            \/ WritesBack(s, t, c)
<1>0. \A b \in Banks : Q(b) = b
  BY OpenPageIs
<1>1. IsVault(s) /\ s.atomicCMD \in AskedReads \cup {NoCMD}
  BY VaultSetIs DEF VaultHas
<1>2. /\ c = NoCMD => t = s
      /\ c # NoCMD /\ s.atomicOperLeft > 0 => AtomicCounts(s, t)
      /\ c # NoCMD /\ ~(s.atomicOperLeft > 0) => AtomicEnds(s, t, c)
  BY <1>1, AtomicFrame
<1>3. t = s \/ Same(s, t, {"atomicOperLeft"}) \/ Same(s, t, {"atomicCMD", "queue", "up", "pendingDataSize", "error"})
  BY <1>2 DEF AtomicCounts, AtomicEnds
<1>4. t.pendingRead = s.pendingRead /\ t.lock = s.lock /\ t.converted = s.converted /\ t.down = s.down
  BY <1>3 DEF Same, Fields
<1>5. CASE c = NoCMD
  BY <1>2, <1>4, <1>5
<1>6. CASE c # NoCMD /\ s.atomicOperLeft > 0
  <2>1. t.queue = s.queue /\ t.atomicCMD = s.atomicCMD
    BY <1>2, <1>6 DEF AtomicCounts, Same, Fields
  <2> QED BY <1>4, <2>1
<1>7. CASE c # NoCMD /\ ~(s.atomicOperLeft > 0)
  <2>1. AtomicEnds(s, t, c)
    BY <1>2, <1>7
  <2>2. c \in AskedReads
    BY <1>1, <1>7
  <2>3. c.bank \in Banks
    BY <2>2, AskedHas DEF AskedReads
  <2>4. Q(c.bank) = c.bank
    BY <1>0, <2>3
  <2>5. CASE Locking(c)
    <3>1. t.queue = [s.queue EXCEPT ![c.bank] = <<WriteBack(c)>> \o s.queue[c.bank]]
      BY <2>1, <2>4, <2>5 DEF AtomicEnds
    <3>2. t.atomicCMD = NoCMD
      BY <2>1 DEF AtomicEnds
    <3> QED BY <1>4, <2>2, <2>5, <3>1, <3>2 DEF WritesBack
  <2>6. CASE ~Locking(c)
    BY <1>4, <2>1, <2>6 DEF AtomicEnds
  <2> QED BY <2>5, <2>6
<1> QED BY <1>5, <1>6, <1>7

\* What an atomic puts at the head of its queue is a write.
LEMMA AtomicCounted ==
  ASSUME OpenPage, NEW s \in VaultSet, AtomicTurn(s), Counted(s), NEW t, t = AtomicOperation(s), t \in VaultSet
  PROVE  Counted(t)
<1>0. \A W \in Weights : ReadLoad(W, t) = ReadLoad(W, s)
  BY AtomicAccount
<1>1. PICK c : c = s.atomicCMD
  OBVIOUS
<1>2. /\ t.pendingRead = s.pendingRead
      /\ t.queue = s.queue \/ WritesBack(s, t, c)
  BY <1>1, AtomicIs
<1>3. CASE t.queue = s.queue
  BY <1>0, <1>2, <1>3, CountedFrame
<1>4. CASE WritesBack(s, t, c)
  <2>1. PICK b, back : b = c.bank /\ back = WriteBack(c)
    OBVIOUS
  <2>2. back \in AskedWrites /\ b \in Banks
    <3>1. c \in AskedReads /\ Locking(c)
      BY <1>4 DEF WritesBack
    <3>2. back \in AskedWrites
      BY <2>1, <3>1, OpenPageIs, WriteBackIs
    <3>3. c \in Asked
      BY <3>1 DEF AskedReads
    <3> QED BY <2>1, <3>2, <3>3, AskedHas
  <2>3. back \in Issued /\ back.type = "WRITE"
    BY <2>2 DEF AskedWrites, Issued
  <2>4. t.queue = [s.queue EXCEPT ![b] = <<back>> \o s.queue[b]]
    BY <1>4, <2>1 DEF WritesBack
  <2>5. ASSUME NEW x \in Tags
        PROVE  Total(Mark(x), t.pendingRead) =
                   Total(ReadOf(x), t.queue[Requests[x].bank]) + ReadLoad(ReadOf(x), t)
    <3>1. PICK d : d = Requests[x].bank
      OBVIOUS
    <3>2. PICK q : q = s.queue[d]
      OBVIOUS
    <3>3. /\ d \in Banks /\ s.queue \in [Banks -> Seq(Asked)] /\ q \in Seq(Issued)
          /\ Total(ReadOf(x), q) \in Nat
      BY <3>1, <3>2, CountedParts
    <3>4. Total(Mark(x), s.pendingRead) = Total(ReadOf(x), q) + ReadLoad(ReadOf(x), s)
      BY <3>1, <3>2 DEF Counted
    <3>5. ReadLoad(ReadOf(x), t) = ReadLoad(ReadOf(x), s)
      BY <1>0, ReadOfIs
    <3>6. Total(ReadOf(x), t.queue[d]) = Total(ReadOf(x), q)
      <4>1. CASE d = b
        <5>1. t.queue[d] = <<back>> \o q
          BY <2>4, <3>2, <3>3, <4>1
        <5>2. Total(ReadOf(x), <<back>> \o q) = ReadOf(x)[back] + Total(ReadOf(x), q)
          BY <2>3, <3>3, ReadOfIs, SumCons
        <5>3. ReadOf(x)[back] = 0
          BY <2>3, ReadOfIs
        <5> QED BY <3>3, <5>1, <5>2, <5>3
      <4>2. CASE d # b
        <5>1. t.queue[d] = q
          BY <2>4, <3>2, <3>3, <4>2
        <5> QED BY <5>1
      <4> QED BY <4>1, <4>2
    <3> QED BY <1>2, <3>1, <3>4, <3>5, <3>6
  <2> QED BY <2>5 DEF Counted
<1> QED BY <1>2, <1>3, <1>4

\* A read that returns is struck off pendingRead.
LEMMA EndedCounted ==
  ASSUME OpenPage, NEW s \in VaultSet, Welcome(s), Counted(s), NEW t, t = Ended(s), t \in VaultSet
  PROVE  Counted(t)
<1>1. IsVault(s)
  BY VaultSetIs
<1>2. t.queue = s.queue
  <2>1. Same(s, t, {"readData", "readLeft", "pendingRead", "atomicCMD", "atomicOperLeft", "up",
                        "pendingDataSize", "error"})
    BY <1>1, EndedFrame
  <2> QED BY <2>1 DEF Same, Fields
<1>3. ASSUME NEW W \in Weights
      PROVE  /\ ReadEnds(s) => ReadLoad(W, t) + W[s.readData] = ReadLoad(W, s)
             /\ ~ReadEnds(s) => ReadLoad(W, t) = ReadLoad(W, s)
  BY EndedLoad
<1>4. CASE ~ReadEnds(s)
  <2>1. t.pendingRead = s.pendingRead
    <3>1. Same(s, t, {"readLeft"})
      BY <1>1, <1>4, EndedFrame
    <3> QED BY <3>1 DEF Same, Fields
  <2> QED BY <1>2, <1>3, <1>4, <2>1, CountedFrame
<1>5. CASE ReadEnds(s)
  <2>1. PICK c : c = s.readData
    OBVIOUS
  <2>2. PICK k : k = Min(FoundIn(s, c))
    OBVIOUS
  <2>3. c \in Asked /\ c.type = "READ" /\ c \in Issued /\ t.pendingRead = RemoveAt(s.pendingRead, k)
    <3>1. ReadReturned(s, t, c)
      BY <1>5, <2>1, EndedReturns
    <3> QED BY <2>2, <3>1 DEF ReadReturned
  <2>4. FoundIn(s, c) # {}
    BY <1>5, <2>1 DEF Welcome
  <2>5. k \in 1 .. Len(s.pendingRead) /\ s.pendingRead[k] = c.tag /\ s.pendingRead \in Seq(Tags)
    BY <2>2, <2>4, FoundIs
  <2>6. c.tag \in Tags
    BY <2>3, AskedHas
  <2>7. PICK p, r : p = s.pendingRead /\ r = t.pendingRead
    OBVIOUS
  <2>8. /\ r \in Seq(Tags) /\ Len(r) = Len(p) - 1
        /\ \A i \in 1 .. Len(p) - 1 : r[i] = IF i < k THEN p[i] ELSE p[i + 1]
    <3>1. p \in Seq(Tags) /\ k \in 1 .. Len(p) /\ r = RemoveAt(p, k)
      BY <2>3, <2>5, <2>7
    <3> QED BY <3>1, RemoveFrom
  <2>9. Without(r, p, k)
    BY <2>8 DEF Without
  <2>10. ASSUME NEW x \in Tags
        PROVE  Total(Mark(x), t.pendingRead) =
                   Total(ReadOf(x), t.queue[Requests[x].bank]) + ReadLoad(ReadOf(x), t)
    <3>1. PICK d : d = Requests[x].bank
      OBVIOUS
    <3>2. PICK n : n = Total(ReadOf(x), s.queue[d])
      OBVIOUS
    <3>3. n \in Nat
      BY <3>1, <3>2, CountedParts
    <3>4. Total(Mark(x), p) = n + ReadLoad(ReadOf(x), s)
      BY <2>7, <3>1, <3>2 DEF Counted
    <3>5. ReadLoad(ReadOf(x), t) + ReadOf(x)[c] = ReadLoad(ReadOf(x), s)
      BY <1>3, <1>5, <2>1, ReadOfIs
    <3>6. Total(Mark(x), p) = Total(Mark(x), r) + Mark(x)[p[k]]
      <4>1. p \in Seq(Tags) /\ k \in 1 .. Len(p) /\ r \in Seq(Tags)
        BY <2>5, <2>7, <2>8
      <4>2. PICK W : W = Mark(x)
        OBVIOUS
      <4>3. W \in [Tags -> Nat]
        BY <4>2, MarkIs
      <4>4. Total(W, p) = Total(W, r) + W[p[k]]
        BY <2>9, <4>1, <4>3, SumRemove
      <4> QED BY <4>2, <4>4
    <3>7. Mark(x)[p[k]] = IF c.tag = x THEN 1 ELSE 0
      BY <2>5, <2>6, <2>7, MarkIs
    <3>8. ReadOf(x)[c] = IF c.tag = x THEN 1 ELSE 0
      BY <2>3, ReadOfIs
    <3>9. Total(Mark(x), r) \in Nat /\ ReadLoad(ReadOf(x), t) \in Nat
      BY <2>7, CountedParts
    <3> QED BY <1>2, <2>7, <3>1, <3>2, <3>3, <3>4, <3>5, <3>6, <3>7, <3>8, <3>9
  <2> QED BY <2>10 DEF Counted
<1> QED BY <1>4, <1>5

-----------------------------------------------------------------------------
\* All conversions of a cycle.
LEMMA FilledCounted ==
  ASSUME OpenPage, NEW u \in VaultSet, NEW s, NEW due, u = UpdateCountdown(s, due), Counted(u),
         NEW taken \in BOOLEAN, NEW f, f = Filled(s, taken, due)
  PROVE  Counted(f)
<1>1. PICK m : m = ConvAll(u)
  OBVIOUS
<1> DEFINE S == {x \in VaultSet : Counted(x)}
<1>2. u \in S /\ S \in SUBSET VaultSet
  OBVIOUS
<1>3. ASSUME NEW x \in S, NEW i \in 1 .. Len(x.down) PROVE ConvPacketIntoCMDs(x, i) \in S
  <2>1. PICK y : y = ConvPacketIntoCMDs(x, i)
    OBVIOUS
  <2>2. x \in VaultSet /\ Counted(x)
    OBVIOUS
  <2>3. y \in VaultSet
    BY <2>1, <2>2, OpenPageIs, ConvType
  <2>4. Counted(y)
    BY <2>1, <2>2, <2>3, ConvCounted
  <2> QED BY <2>1, <2>3, <2>4
<1> HIDE DEF S
<1>4. m \in S
  BY <1>1, <1>2, <1>3, ConversionsStay
<1>5. m \in VaultSet /\ Counted(m)
  BY <1>4 DEF S
<1>6. f = Sent(m, taken)
  BY <1>1 DEF Filled
<1>7. Same(m, f, {"up"})
  BY <1>5, <1>6, SentIs
<1>8. f.cmdBus = m.cmdBus /\ f.readData = m.readData /\ f.reads = m.reads /\ f.dataBus = m.dataBus
       /\ f.writeData = m.writeData /\ f.pendingRead = m.pendingRead /\ f.queue = m.queue
  BY <1>7 DEF Same, Fields
<1>9. \A W \in Weights : ReadLoad(W, f) = ReadLoad(W, m)
  BY <1>8, LoadFrame
<1> QED BY <1>5, <1>8, <1>9, CountedFrame

-----------------------------------------------------------------------------
(* The atomics under way, and the place at the head of their queues.       *)
\* The request writes its result back.
Locker(t) == Requests[t].op = "ATM" /\ Requests[t].writeBack
Lacks(q, t) == \A i \in 1 .. Len(q) : q[i].tag # t
\* The reads of request t under way, and its operation.
Flow(t, s) == ReadLoad(ReadOf(t), s) + ReadOf(t)[s.atomicCMD]
\* From its read to its write-back an atomic holds the lock, and none of its
\* commands waits.
Holds(s, t) == s.lock[Requests[t].bank] = t /\ Lacks(s.queue[Requests[t].bank], t)
UnderWay(s) ==
    \A t \in Tags : Locker(t) => Flow(t, s) = 0 \/ (Flow(t, s) = 1 /\ Holds(s, t))
\* The commands of an atomic in queue q: its access, and an ACTIVATE right in front of it.
Single(q) ==
    \A i \in 1 .. Len(q) : \A j \in i + 1 .. Len(q) :
        q[i].tag = q[j].tag /\ Locking(q[i]) => j = i + 1 /\ q[i].type = "ACTIVATE"
Singles(s) == \A b \in Banks : Single(s.queue[b])
\* A request is converted once, and its commands come after that.
From(q, K) == \A i \in 1 .. Len(q) : q[i].tag \in K
Once(d, K) ==
    /\ \A i \in 1 .. Len(d) : d[i] \notin K
    /\ \A i, j \in 1 .. Len(d) : i # j => d[i] # d[j]
Known(s) ==
    LET K == Range(s.converted) IN
    /\ Once(s.down, K)
    /\ \A b \in Banks : (s.lock[b] # NoTag => s.lock[b] \in K) /\ From(s.queue[b], K)
\* QueueBound, bank by bank.
Place(q, t) == IF t # NoTag /\ Lacks(q, t) THEN 1 ELSE 0
Places(s) == \A b \in Banks : Len(s.queue[b]) + Place(s.queue[b], s.lock[b]) <= MAX_CMD_QUE
Locks(s) == UnderWay(s) /\ Singles(s) /\ Known(s) /\ Places(s)

\* A stage that touches no command of an atomic.
LEMMA LocksFrame ==
  ASSUME NEW s, NEW t, Locks(s), t.queue = s.queue, t.lock = s.lock, t.down = s.down,
         t.converted = s.converted, t.atomicCMD = s.atomicCMD,
         \A W \in Weights : ReadLoad(W, t) = ReadLoad(W, s)
  PROVE  Locks(t)
<1>1. ASSUME NEW x \in Tags PROVE Flow(x, t) = Flow(x, s) /\ (Holds(s, x) => Holds(t, x))
  <2>1. ReadLoad(ReadOf(x), t) = ReadLoad(ReadOf(x), s)
    BY ReadOfIs
  <2> QED BY <2>1 DEF Flow, Holds
<1>2. UnderWay(t)
  BY <1>1 DEF Locks, UnderWay
<1>3. Singles(t) /\ Known(t) /\ Places(t)
  BY DEF Locks, Singles, Known, Places
<1> QED BY <1>2, <1>3 DEF Locks

\* What Flow counts.
LEMMA FlowIs ==
  ASSUME OpenPage, NEW s \in VaultSet, NEW t \in Tags
  PROVE  /\ ReadLoad(ReadOf(t), s) \in Nat /\ ReadOf(t)[s.atomicCMD] \in {0, 1}
         /\ Flow(t, s) = ReadLoad(ReadOf(t), s) + ReadOf(t)[s.atomicCMD] /\ Flow(t, s) \in Nat
         /\ ReadOf(t)[s.atomicCMD] = IF s.atomicCMD.type = "READ" /\ s.atomicCMD.tag = t THEN 1 ELSE 0
         /\ Requests[t].bank \in Banks
<1>1. s.atomicCMD \in Issued
  BY VaultSetIs DEF VaultHas, AskedReads, Issued
<1>2. ReadOf(t)[s.atomicCMD] = IF s.atomicCMD.type = "READ" /\ s.atomicCMD.tag = t THEN 1 ELSE 0
  BY <1>1, ReadOfIs
<1>3. ReadLoad(ReadOf(t), s) \in Nat
  BY CountedParts
<1>4. Flow(t, s) = ReadLoad(ReadOf(t), s) + ReadOf(t)[s.atomicCMD]
  BY DEF Flow
<1>5. Requests[t].bank \in Banks
  BY RequestHas
<1> QED BY <1>2, <1>3, <1>4, <1>5

\* The parts of a vault the locks are about.
LEMMA LockParts ==
  ASSUME OpenPage, NEW s \in VaultSet
  PROVE  /\ s.queue \in [Banks -> Seq(Asked)] /\ s.lock \in [Banks -> Tags \cup {NoTag}]
         /\ s.down \in Seq(Tags) /\ s.converted \in Seq(Tags) /\ MAX_CMD_QUE \in Nat
BY OpenPageIs, VaultSetIs, SizeAssumption DEF VaultHas

\* An access locks when its request does.
LEMMA LockingIs ==
  ASSUME NEW c \in Asked
  PROVE  /\ Locking(c) <=> Locker(c.tag)
         /\ c.tag \in Tags /\ c.tag # NoTag /\ c.bank = Requests[c.tag].bank
         /\ Locker(c.tag) => c.last /\ (c.type \in {"ACTIVATE", "READ", "WRITE"})
<1>1. c.tag \in Tags /\ c.tag # NoTag /\ c.bank = Requests[c.tag].bank /\ c.type \in {"ACTIVATE", "READ", "WRITE"}
  BY AskedHas
<1>2. Locker(c.tag) => c.last
  BY DEF Asked, Locker
<1> QED BY <1>1, <1>2 DEF Locking, Atomic, Locker

-----------------------------------------------------------------------------
(* The conversion of a request.                                            *)
LEMMA JoinSingle ==
  ASSUME OPEN_PAGE, NEW q \in Seq(Asked), Single(q), NEW tag \in Tags, Lacks(q, tag),
         NEW new, new = Commands(tag), NEW r, r = q \o new
  PROVE  Single(r)
<1>1. /\ new \in Seq(Asked) /\ Len(new) = Requests[tag].cmds + 1 /\ new[1].type = "ACTIVATE"
      /\ \A i \in 1 .. Len(new) : new[i].tag = tag
  BY CommandsIs
<1>2. /\ r \in Seq(Asked) /\ Len(r) = Len(q) + Len(new)
      /\ \A i \in 1 .. Len(q) + Len(new) : r[i] = IF i <= Len(q) THEN q[i] ELSE new[i - Len(q)]
  BY <1>1, ConcatIs
<1>3. PICK m, n : m = Len(q) /\ n = Len(new)
  OBVIOUS
<1>4. m \in Nat /\ n \in Nat
  BY <1>1, <1>3
<1>5. SUFFICES ASSUME NEW i \in 1 .. Len(r), NEW j \in i + 1 .. Len(r), r[i].tag = r[j].tag, Locking(r[i])
               PROVE  j = i + 1 /\ r[i].type = "ACTIVATE"
  BY DEF Single
<1>6. i \in 1 .. m + n /\ j \in i + 1 .. m + n /\ i \in Int /\ j \in Int
  BY <1>2, <1>3, <1>4
<1>7. CASE j <= m
  <2>1. r[i] = q[i] /\ r[j] = q[j] /\ i \in 1 .. Len(q) /\ j \in i + 1 .. Len(q)
    BY <1>2, <1>3, <1>4, <1>6, <1>7
  <2> QED BY <1>5, <2>1 DEF Single
<1>8. CASE i <= m /\ ~(j <= m)
  <2>1. r[i] = q[i] /\ i \in 1 .. Len(q)
    BY <1>2, <1>3, <1>4, <1>6, <1>8
  <2>2. r[j] = new[j - m] /\ j - m \in 1 .. Len(new)
    BY <1>2, <1>3, <1>4, <1>6, <1>8
  <2>3. r[j].tag = tag
    BY <1>1, <2>2
  <2>4. r[i].tag # tag
    BY <2>1 DEF Lacks
  <2> QED BY <1>5, <2>3, <2>4
<1>9. CASE ~(i <= m)
  <2>1. r[i] = new[i - m] /\ i - m \in 1 .. Len(new)
    BY <1>2, <1>3, <1>4, <1>6, <1>9
  <2>2. r[i].tag = tag /\ r[i] \in Asked
    BY <1>1, <2>1
  <2>3. Requests[tag].op = "ATM"
    BY <1>5, <2>2, LockingIs DEF Locker
  <2>4. n = 2
    <3>1. Requests[tag].cmds = 1
      BY <2>3, RequestHas
    <3> QED BY <1>1, <1>3, <3>1
  <2>5. i = m + 1 /\ j = i + 1
    BY <1>4, <1>6, <1>9, <2>4
  <2>6. r[i] = new[1]
    BY <1>4, <2>1, <2>5
  <2> QED BY <1>1, <2>5, <2>6
<1> QED BY <1>4, <1>6, <1>7, <1>8, <1>9

\* The commands of r are those of q, and commands of the request.
Adds(r, q, tag) == \A i \in 1 .. Len(r) : r[i].tag = tag \/ \E k \in 1 .. Len(q) : r[i] = q[k]
\* A conversion adds the commands of its request behind the others.
LEMMA JoinOld ==
  ASSUME OPEN_PAGE, NEW q \in Seq(Asked), NEW tag \in Tags,
         NEW new, new = Commands(tag), NEW r, r = q \o new
  PROVE  Adds(r, q, tag)
<1>1. /\ new \in Seq(Asked) /\ \A i \in 1 .. Len(new) : new[i].tag = tag
  BY CommandsIs
<1>2. /\ Len(r) = Len(q) + Len(new)
      /\ \A i \in 1 .. Len(q) + Len(new) : r[i] = IF i <= Len(q) THEN q[i] ELSE new[i - Len(q)]
  BY <1>1, ConcatIs
<1>3. ASSUME NEW i \in 1 .. Len(r) PROVE r[i].tag = tag \/ \E k \in 1 .. Len(q) : r[i] = q[k]
  <2>1. Len(q) \in Nat /\ Len(new) \in Nat
    BY <1>1
  <2>2. CASE i <= Len(q)
    BY <1>2, <2>1, <2>2
  <2>3. CASE ~(i <= Len(q))
    <3>1. r[i] = new[i - Len(q)] /\ i - Len(q) \in 1 .. Len(new)
      BY <1>2, <2>1, <2>3
    <3> QED BY <1>1, <3>1
  <2> QED BY <2>2, <2>3
<1> QED BY <1>3 DEF Adds

\* The requests of a queue, after a conversion.
LEMMA JoinFrom ==
  ASSUME OPEN_PAGE, NEW q \in Seq(Asked), NEW K, From(q, K), NEW tag \in Tags, NEW L, K \subseteq L, tag \in L,
         NEW new, new = Commands(tag), NEW r, r = q \o new
  PROVE  From(r, L)
<1>1. Adds(r, q, tag)
  BY JoinOld
<1> QED BY <1>1 DEF Adds, From

\* Its length.
LEMMA JoinLength ==
  ASSUME OPEN_PAGE, NEW q \in Seq(Asked), NEW tag \in Tags,
         NEW new, new = Commands(tag), NEW r, r = q \o new
  PROVE  Len(r) = Len(q) + Requests[tag].cmds + 1
<1>1. new \in Seq(Asked) /\ Len(new) = Requests[tag].cmds + 1
  BY CommandsIs
<1>2. Len(r) = Len(q) + Len(new)
  BY <1>1, ConcatIs
<1>3. PICK n : n = Requests[tag].cmds
  OBVIOUS
<1>4. n \in Nat
  BY <1>3, RequestHas
<1> QED BY <1>1, <1>2, <1>3, <1>4

\* A conversion adds commands of no other request.
LEMMA JoinLacks ==
  ASSUME OPEN_PAGE, NEW q \in Seq(Asked), NEW tag \in Tags,
         NEW new, new = Commands(tag), NEW r, r = q \o new, NEW t, t # tag, Lacks(q, t)
  PROVE  Lacks(r, t)
<1>1. Adds(r, q, tag)
  BY JoinOld
<1> QED BY <1>1 DEF Adds, Lacks

\* The requests converted, after a conversion.
LEMMA AppendRange ==
  ASSUME NEW v \in Seq(Tags), NEW tag \in Tags, NEW w, w = Append(v, tag), NEW L, L = Range(v) \cup {tag}
  PROVE  Range(w) = L
<1>1. /\ w \in Seq(Tags) /\ Len(w) = Len(v) + 1 /\ w[Len(v) + 1] = tag
      /\ \A k \in 1 .. Len(v) : w[k] = v[k]
  OBVIOUS
<1>2. DOMAIN w = 1 .. Len(v) + 1 /\ DOMAIN v = 1 .. Len(v) /\ Len(v) \in Nat
  BY <1>1
<1>3. ASSUME NEW x \in Range(w) PROVE x \in L
  <2>1. PICK k \in 1 .. Len(v) + 1 : x = w[k]
    BY <1>2 DEF Range
  <2>2. CASE k = Len(v) + 1
    BY <1>1, <2>1, <2>2
  <2>3. CASE k # Len(v) + 1
    <3>1. k \in 1 .. Len(v)
      BY <1>2, <2>3
    <3> QED BY <1>1, <1>2, <2>1, <3>1 DEF Range
  <2> QED BY <2>2, <2>3
<1>4. ASSUME NEW x \in Range(v) PROVE x \in Range(w)
  <2>1. PICK k \in 1 .. Len(v) : x = v[k]
    BY <1>2 DEF Range
  <2>2. k \in 1 .. Len(v) + 1 /\ w[k] = x
    BY <1>1, <1>2, <2>1
  <2> QED BY <1>2, <2>2 DEF Range
<1>5. tag \in Range(w)
  <2>1. Len(v) + 1 \in 1 .. Len(v) + 1
    BY <1>2
  <2> QED BY <1>1, <1>2, <2>1 DEF Range
<1> QED BY <1>3, <1>4, <1>5

\* A request leaves downBuffers for the history.
LEMMA LeaveOnce ==
  ASSUME NEW d \in Seq(Tags), NEW K, Once(d, K), NEW i \in 1 .. Len(d),
         NEW tag, tag = d[i], NEW e, e = RemoveAt(d, i), NEW L, L = K \cup {tag}
  PROVE  Once(e, L)
<1>5. /\ Len(e) = Len(d) - 1 /\ Len(d) \in Nat
      /\ \A k \in 1 .. Len(d) - 1 : e[k] = IF k < i THEN d[k] ELSE d[k + 1]
  <2>1. Len(d) \in Nat
    OBVIOUS
  <2>2. /\ Len(e) = Len(d) - 1
        /\ \A k \in 1 .. Len(d) - 1 : e[k] = IF k < i THEN d[k] ELSE d[k + 1]
    BY RemoveFrom
  <2> QED BY <2>1, <2>2
<1>6. ASSUME NEW k \in 1 .. Len(e)
      PROVE  \E m \in 1 .. Len(d) : m # i /\ e[k] = d[m] /\ m = IF k < i THEN k ELSE k + 1
  <2>1. CASE k < i
    <3>1. k \in 1 .. Len(d) /\ k # i /\ e[k] = d[k]
      BY <1>5, <2>1
    <3> QED BY <2>1, <3>1
  <2>2. CASE ~(k < i)
    <3>1. k + 1 \in 1 .. Len(d) /\ k + 1 # i /\ e[k] = d[k + 1]
      BY <1>5, <2>2
    <3> QED BY <2>2, <3>1
  <2> QED BY <2>1, <2>2
<1>7. ASSUME NEW k \in 1 .. Len(e) PROVE e[k] \notin L
  <2>1. PICK m \in 1 .. Len(d) : m # i /\ e[k] = d[m]
    BY <1>6
  <2>2. d[m] \notin K /\ d[m] # tag
    BY <2>1 DEF Once
  <2> QED BY <2>1, <2>2
<1>8. ASSUME NEW k \in 1 .. Len(e), NEW l \in 1 .. Len(e), k # l PROVE e[k] # e[l]
  <2>1. PICK m \in 1 .. Len(d) : e[k] = d[m] /\ m = IF k < i THEN k ELSE k + 1
    BY <1>6
  <2>2. PICK n \in 1 .. Len(d) : e[l] = d[n] /\ n = IF l < i THEN l ELSE l + 1
    BY <1>6
  <2>3. m # n
    BY <1>8, <2>1, <2>2
  <2> QED BY <2>1, <2>2, <2>3 DEF Once
<1> QED BY <1>7, <1>8 DEF Once

-----------------------------------------------------------------------------
\* The place kept for a write-back is one or none.
LEMMA PlaceIs ==
  ASSUME NEW q, NEW t
  PROVE  Place(q, t) \in {0, 1} /\ (t = NoTag => Place(q, t) = 0)
BY DEF Place

\* Who holds a lock or is under way has been converted.
LEMMA UnderWayKnown ==
  ASSUME OpenPage, NEW s \in VaultSet, Locks(s), NEW t \in Tags, Locker(t), Flow(t, s) # 0
  PROVE  Flow(t, s) = 1 /\ Holds(s, t) /\ t \in Range(s.converted)
<1>1. Flow(t, s) = 1 /\ Holds(s, t)
  BY DEF Locks, UnderWay
<1>2. PICK b : b = Requests[t].bank
  OBVIOUS
<1>3. b \in Banks /\ t # NoTag
  BY <1>2, RequestHas
<1>4. s.lock[b] = t
  BY <1>1, <1>2 DEF Holds
<1>5. t \in Range(s.converted)
  BY <1>3, <1>4 DEF Locks, Known
<1> QED BY <1>1, <1>5

\* A conversion keeps Locks: the request is new, and AvailableSpace keeps the place.
LEMMA ConvLocks ==
  ASSUME OpenPage, NEW s \in VaultSet, Locks(s), NEW i \in 1 .. Len(s.down),
         AvailableSpace(s, Requests[s.down[i]].bank, Requests[s.down[i]].cmds + 1),
         NEW t, t = ConvPacketIntoCMDs(s, i)
  PROVE  Locks(t)
<1>0. OPEN_PAGE /\ (\A b \in Banks : Q(b) = b)
  BY OpenPageIs
<1>1. IsVault(s)
  BY VaultSetIs
<1>2. PICK tag, b : tag = s.down[i] /\ b = Requests[tag].bank
  OBVIOUS
<1>3. /\ s.queue \in [Banks -> Seq(Asked)] /\ s.lock \in [Banks -> Tags \cup {NoTag}]
      /\ s.down \in Seq(Tags) /\ s.converted \in Seq(Tags) /\ MAX_CMD_QUE \in Nat
  BY LockParts
<1>4. PICK K, L : K = Range(s.converted) /\ L = Range(t.converted)
  OBVIOUS
<1>5. Converts(s, t, i, tag, b)
  BY <1>1, <1>2, ConvFrame
<1>6. t.down = RemoveAt(s.down, i) /\ t.converted = Append(s.converted, tag)
  BY <1>5 DEF Converts
<1>7. Once(s.down, K)
  BY <1>4 DEF Locks, Known
<1>8. tag \in Tags /\ tag \notin K /\ L = K \cup {tag} /\ Once(t.down, L)
  <2>1. tag \in Tags /\ tag \notin K
    BY <1>2, <1>3, <1>7 DEF Once
  <2>2. PICK M : M = K \cup {tag}
    OBVIOUS
  <2>3. L = M
    BY <1>3, <1>4, <1>6, <2>1, <2>2, AppendRange
  <2>4. Once(t.down, M)
    BY <1>2, <1>3, <1>6, <1>7, <2>2, LeaveOnce
  <2> QED BY <2>1, <2>2, <2>3, <2>4
<1>9. b \in Banks /\ Requests[tag].cmds \in Nat /\ tag # NoTag
  BY <1>2, <1>8, RequestHas
<1>10. PICK new : new = Commands(tag)
  OBVIOUS
<1>11. PICK q, r : q = s.queue[b] /\ r = q \o new
  OBVIOUS
<1>12. q \in Seq(Asked) /\ From(q, K) /\ Single(q)
  BY <1>3, <1>4, <1>9, <1>11 DEF Locks, Known, Singles
<1>13. t.queue = [s.queue EXCEPT ![b] = r] /\ t.lock = s.lock
       /\ t.atomicCMD = s.atomicCMD /\ t.cmdBus = s.cmdBus /\ t.readData = s.readData /\ t.reads = s.reads
       /\ t.dataBus = s.dataBus /\ t.writeData = s.writeData
  <2>1. Same(s, t, {"queue", "fresh", "down", "converted", "pendingRead"})
    BY <1>5 DEF Converts
  <2>2. t.queue = [s.queue EXCEPT ![b] = r]
    BY <1>0, <1>5, <1>9, <1>10, <1>11 DEF Converts
  <2> QED BY <2>1, <2>2 DEF Same, Fields
<1>14. t.queue[b] = r /\ \A d \in Banks : d # b => t.queue[d] = s.queue[d]
  BY <1>3, <1>9, <1>13
<1>15. Lacks(q, tag)
  BY <1>8, <1>12 DEF From, Lacks
<1>16. /\ From(r, L) /\ Len(r) = Len(q) + Requests[tag].cmds + 1
       /\ \A x : x # tag /\ Lacks(q, x) => Lacks(r, x)
  <2>1. K \subseteq L /\ tag \in L /\ tag \in Tags
    BY <1>8
  <2>2. q \in Seq(Asked) /\ From(q, K)
    BY <1>12
  <2>3. new = Commands(tag) /\ r = q \o new
    BY <1>10, <1>11
  <2>4. Len(r) = Len(q) + Requests[tag].cmds + 1
    BY <1>0, <2>1, <2>2, <2>3, JoinLength
  <2>6. From(r, L)
    BY <1>0, <2>1, <2>2, <2>3, JoinFrom
  <2>5. ASSUME NEW x, x # tag, Lacks(q, x) PROVE Lacks(r, x)
    BY <1>0, <2>1, <2>2, <2>3, <2>5, JoinLacks
  <2> QED BY <2>4, <2>5, <2>6
<1>17. Single(r)
  BY <1>0, <1>8, <1>10, <1>11, <1>12, <1>15, JoinSingle
<1>18. Singles(t)
  <2>1. ASSUME NEW d \in Banks PROVE Single(t.queue[d])
    BY <1>14, <1>17 DEF Locks, Singles
  <2> QED BY <2>1 DEF Singles
<1>19. Known(t)
  <2>1. ASSUME NEW d \in Banks PROVE From(t.queue[d], L)
    <3>1. CASE d = b
      BY <1>14, <1>16, <3>1
    <3>2. CASE d # b
      <4>1. From(s.queue[d], K)
        BY <1>4 DEF Locks, Known
      <4> QED BY <1>8, <1>14, <3>2, <4>1 DEF From
    <3> QED BY <3>1, <3>2
  <2>2. ASSUME NEW d \in Banks, t.lock[d] # NoTag PROVE t.lock[d] \in L
    BY <1>4, <1>8, <1>13, <2>2 DEF Locks, Known
  <2> QED BY <1>4, <1>8, <2>1, <2>2 DEF Known
<1>20. UnderWay(t)
  <2>1. SUFFICES ASSUME NEW x \in Tags, Locker(x), Flow(x, s) # 0
                 PROVE  Flow(x, s) = 1 /\ Holds(t, x)
    <3>1. ASSUME NEW x \in Tags PROVE Flow(x, t) = Flow(x, s)
      <4>1. ReadLoad(ReadOf(x), t) = ReadLoad(ReadOf(x), s)
        BY <1>13, LoadFrame
      <4> QED BY <1>13, <4>1 DEF Flow
    <3> QED BY <3>1 DEF UnderWay
  <2>2. Flow(x, s) = 1 /\ Holds(s, x) /\ x \in K
    BY <1>4, <2>1, UnderWayKnown
  <2>3. PICK d : d = Requests[x].bank
    OBVIOUS
  <2>4. d \in Banks /\ x # tag
    BY <1>8, <2>2, <2>3, RequestHas
  <2>5. s.lock[d] = x /\ Lacks(s.queue[d], x)
    BY <2>2, <2>3 DEF Holds
  <2>6. Lacks(t.queue[d], x)
    BY <1>11, <1>14, <1>16, <2>4, <2>5
  <2>7. Holds(t, x)
    BY <1>13, <2>3, <2>5, <2>6 DEF Holds
  <2> QED BY <2>2, <2>7
<1>21. Places(t)
  <2>1. SUFFICES ASSUME NEW d \in Banks
                 PROVE  Len(t.queue[d]) + Place(t.queue[d], t.lock[d]) <= MAX_CMD_QUE
    BY DEF Places
  <2>2. CASE d # b
    BY <1>13, <1>14, <2>2 DEF Locks, Places
  <2>3. CASE d = b
    <3>1. PICK n, m, h : n = Len(q) /\ m = Requests[tag].cmds /\ h = (IF s.lock[b] # NoTag THEN 1 ELSE 0)
      OBVIOUS
    <3>2. n + (m + 1) + h <= MAX_CMD_QUE
      BY <1>0, <1>2, <1>9, <1>11, <3>1 DEF AvailableSpace
    <3>3. Place(r, s.lock[b]) <= h
      <4>1. CASE s.lock[b] = NoTag
        BY <3>1, <4>1, PlaceIs
      <4>2. CASE s.lock[b] # NoTag
        BY <3>1, <4>2, PlaceIs
      <4> QED BY <4>1, <4>2
    <3>4. Len(r) = n + m + 1 /\ n \in Nat /\ m \in Nat /\ h \in Nat /\ Place(r, s.lock[b]) \in Int
      BY <1>9, <1>12, <1>16, <3>1, PlaceIs
    <3>5. Len(r) + Place(r, s.lock[b]) <= MAX_CMD_QUE
      BY <1>3, <3>2, <3>3, <3>4
    <3> QED BY <1>13, <1>14, <2>3, <3>5
  <2> QED BY <2>2, <2>3
<1> QED BY <1>18, <1>19, <1>20, <1>21 DEF Locks

-----------------------------------------------------------------------------
\* All conversions of a cycle.
LEMMA FilledLocks ==
  ASSUME OpenPage, NEW u \in VaultSet, NEW s, NEW due, u = UpdateCountdown(s, due), Locks(u),
         NEW taken \in BOOLEAN, NEW f, f = Filled(s, taken, due)
  PROVE  Locks(f)
<1>1. PICK m : m = ConvAll(u)
  OBVIOUS
<1> DEFINE S == {x \in VaultSet : Locks(x)}
<1>2. u \in S /\ S \in SUBSET VaultSet
  OBVIOUS
<1>3. ASSUME NEW x \in S, NEW i \in 1 .. Len(x.down),
             AvailableSpace(x, Requests[x.down[i]].bank, Requests[x.down[i]].cmds + 1)
      PROVE  ConvPacketIntoCMDs(x, i) \in S
  <2>1. PICK y : y = ConvPacketIntoCMDs(x, i)
    OBVIOUS
  <2>2. x \in VaultSet /\ Locks(x)
    OBVIOUS
  <2>3. y \in VaultSet
    BY <2>1, <2>2, OpenPageIs, ConvType
  <2>4. Locks(y)
    BY <1>3, <2>1, <2>2, ConvLocks
  <2> QED BY <2>1, <2>3, <2>4
<1> HIDE DEF S
<1>4. m \in S
  BY <1>1, <1>2, <1>3, ConversionsStay
<1>5. m \in VaultSet /\ Locks(m)
  BY <1>4 DEF S
<1>6. f = Sent(m, taken)
  BY <1>1 DEF Filled
<1>7. Same(m, f, {"up"})
  BY <1>5, <1>6, SentIs
<1>8. f.cmdBus = m.cmdBus /\ f.readData = m.readData /\ f.reads = m.reads /\ f.dataBus = m.dataBus
       /\ f.writeData = m.writeData /\ f.queue = m.queue /\ f.lock = m.lock /\ f.down = m.down
       /\ f.converted = m.converted /\ f.atomicCMD = m.atomicCMD
  BY <1>7 DEF Same, Fields
<1>9. \A W \in Weights : ReadLoad(W, f) = ReadLoad(W, m)
  BY <1>8, LoadFrame
<1> QED BY <1>5, <1>8, <1>9, LocksFrame

(* The command that is popped.                                             *)
\* Every command of r stands in q, in the same order.
Within(r, q, lo, hi) ==
    /\ Len(q) \in Nat /\ Len(r) \in Nat /\ lo \in 1 .. Len(q) /\ hi \in lo .. Len(q)
    /\ Len(r) = Len(q) - (hi - lo + 1)
    /\ \A k \in 1 .. Len(r) : r[k] = IF k < lo THEN q[k] ELSE q[k + (hi - lo + 1)]

\* Where an element of what is left was before.
LEMMA WithinIs ==
  ASSUME NEW q, NEW r, NEW lo, NEW hi, Within(r, q, lo, hi), NEW k \in 1 .. Len(r),
         NEW m, m = IF k < lo THEN k ELSE k + (hi - lo + 1)
  PROVE  m \in 1 .. Len(q) /\ r[k] = q[m] /\ ~(lo <= m /\ m <= hi) /\ m >= k
<1>1. CASE k < lo
  BY <1>1 DEF Within
<1>2. CASE ~(k < lo)
  BY <1>2 DEF Within
<1> QED BY <1>1, <1>2

\* What the scheduler leaves of a queue is what surrounds what it takes.
LEMMA CutWithin ==
  ASSUME NEW q \in Seq(Asked), NEW r \in Seq(Asked), NEW lo, NEW hi, Cut(q, r, lo, hi)
  PROVE  Within(r, q, lo, hi)
<1>1. Len(q) \in Nat /\ Len(r) \in Nat
  OBVIOUS
<1> QED BY <1>1 DEF Cut, Within

\* Taking commands away leaves Single.
LEMMA WithinSingle ==
  ASSUME NEW q, NEW r, NEW lo, NEW hi, Within(r, q, lo, hi), Single(q)
  PROVE  Single(r)
<1>1. SUFFICES ASSUME NEW i \in 1 .. Len(r), NEW j \in i + 1 .. Len(r), r[i].tag = r[j].tag, Locking(r[i])
               PROVE  j = i + 1 /\ r[i].type = "ACTIVATE"
  BY DEF Single
<1>2. PICK d : d = hi - lo + 1
  OBVIOUS
<1>3. i \in Nat /\ j \in Nat /\ i < j /\ d \in Nat /\ lo \in Nat
  BY <1>2 DEF Within
<1>4. PICK m, n : m = (IF i < lo THEN i ELSE i + d) /\ n = (IF j < lo THEN j ELSE j + d)
  OBVIOUS
<1>5. m \in 1 .. Len(q) /\ r[i] = q[m]
  BY <1>2, <1>4, WithinIs
<1>6. j \in 1 .. Len(r)
  BY <1>3
<1>7. n \in 1 .. Len(q) /\ r[j] = q[n]
  BY <1>2, <1>4, <1>6, WithinIs
<1>8. m \in Nat /\ n \in Nat /\ m < n /\ n - m >= j - i /\ Len(q) \in Nat
  BY <1>3, <1>4, <1>5, <1>7 DEF Within
<1>9. n \in m + 1 .. Len(q)
  BY <1>7, <1>8
<1>10. n = m + 1 /\ q[m].type = "ACTIVATE"
  BY <1>1, <1>5, <1>7, <1>9 DEF Single
<1>11. j = i + 1
  BY <1>3, <1>8, <1>10
<1> QED BY <1>5, <1>10, <1>11

\* Taking commands away adds no request.
LEMMA WithinFrom ==
  ASSUME NEW q, NEW r, NEW lo, NEW hi, Within(r, q, lo, hi)
  PROVE  /\ \A K : From(q, K) => From(r, K)
         /\ \A t : Lacks(q, t) => Lacks(r, t)
<1>1. ASSUME NEW k \in 1 .. Len(r) PROVE \E m \in 1 .. Len(q) : r[k] = q[m]
  BY WithinIs
<1>2. ASSUME NEW K, From(q, K) PROVE From(r, K)
  BY <1>1, <1>2 DEF From
<1>3. ASSUME NEW t, Lacks(q, t) PROVE Lacks(r, t)
  BY <1>1, <1>3 DEF Lacks
<1> QED BY <1>2, <1>3

\* When the access of an atomic is taken, none of its commands is left.
LEMMA TakenLacks ==
  ASSUME NEW q \in Seq(Asked), Single(q), NEW i \in 1 .. Len(q), q[i].type = "READ", Locking(q[i]),
         Chain(q), NEW r, r = Rest(q, i)
  PROVE  Lacks(r, q[i].tag)
<1>1. r \in Seq(Asked) /\ \E lo \in {i - 1, i} : Cut(q, r, lo, i)
  BY RestCuts
<1>2. PICK lo \in {i - 1, i} : Cut(q, r, lo, i)
  BY <1>1
<1>3. Within(r, q, lo, i)
  BY <1>1, <1>2, CutWithin
<1>4. SUFFICES ASSUME NEW k \in 1 .. Len(r), r[k].tag = q[i].tag PROVE FALSE
  BY DEF Lacks
<1>5. PICK m \in 1 .. Len(q) : r[k] = q[m] /\ ~(lo <= m /\ m <= i)
  <2>1. PICK m : m = IF k < lo THEN k ELSE k + (i - lo + 1)
    OBVIOUS
  <2>2. m \in 1 .. Len(q) /\ r[k] = q[m] /\ ~(lo <= m /\ m <= i)
    BY <1>3, <2>1, WithinIs
  <2> QED BY <2>2
<1>6. i \in Nat /\ m \in Nat /\ Len(q) \in Nat
  OBVIOUS
<1>7. CASE m > i
  <2>1. m \in i + 1 .. Len(q)
    BY <1>6, <1>7
  <2>2. q[i].type = "ACTIVATE"
    BY <1>4, <1>5, <2>1 DEF Single
  <2> QED BY <2>2
<1>8. CASE ~(m > i)
  <2>1. m < i
    BY <1>2, <1>5, <1>6, <1>8
  <2>2. i \in m + 1 .. Len(q)
    BY <1>6, <2>1
  <2>3. q[m] \in Asked /\ q[i] \in Asked
    OBVIOUS
  <2>4. q[m].tag = q[i].tag
    BY <1>4, <1>5
  <2>5. Locking(q[m])
    BY <2>3, <2>4, LockingIs
  <2>6. i = m + 1 /\ q[m].type = "ACTIVATE"
    BY <2>2, <2>4, <2>5 DEF Single
  <2>7. lo = i
    BY <1>2, <1>5, <1>6, <2>6
  <2>8. q[lo - 1].type # "ACTIVATE"
    BY <1>2, <1>6, <2>6, <2>7 DEF Cut
  <2> QED BY <1>6, <2>6, <2>7, <2>8
<1> QED BY <1>7, <1>8

-----------------------------------------------------------------------------
\* Access i of bank b is sent: c.
Sends(f, t, b, i, c) ==
    /\ b \in Banks /\ i \in 1 .. Len(f.queue[b]) /\ c = f.queue[b][i]
    /\ t.queue = [f.queue EXCEPT ![b] = Rest(f.queue[b], i)]
    /\ t.lock = [f.lock EXCEPT ![b] = Holder(f, b, c)]
    /\ f.lock[b] # NoTag => c.tag = f.lock[b]
    /\ t.down = f.down /\ t.converted = f.converted
    /\ \A x \in Tags : Flow(x, t) = Flow(x, f) + IF c.type = "READ" /\ c.tag = x THEN 1 ELSE 0

\* The access of an atomic is sent: it takes the lock and leaves nothing behind.
LEMMA SendsLocks ==
  ASSUME OpenPage, NEW f \in VaultSet, Orderly(f), Locks(f), NEW t, NEW b, NEW i, NEW c, Sends(f, t, b, i, c)
  PROVE  Locks(t)
<1>1. /\ f.queue \in [Banks -> Seq(Asked)] /\ f.lock \in [Banks -> Tags \cup {NoTag}] /\ MAX_CMD_QUE \in Nat
      /\ Queues = Banks
  BY LockParts, OpenPageIs
<1>2. PICK q, r : q = f.queue[b] /\ r = Rest(q, i)
  OBVIOUS
<1>3. PICK K : K = Range(f.converted)
  OBVIOUS
<1>4. /\ b \in Banks /\ i \in 1 .. Len(q) /\ c = q[i] /\ q \in Seq(Asked)
      /\ t.queue = [f.queue EXCEPT ![b] = r] /\ t.lock = [f.lock EXCEPT ![b] = Holder(f, b, c)]
      /\ f.lock[b] # NoTag => c.tag = f.lock[b]
      /\ t.down = f.down /\ t.converted = f.converted
  BY <1>1, <1>2 DEF Sends
<1>5. Chain(q) /\ Single(q) /\ From(q, K)
  BY <1>1, <1>2, <1>3, <1>4 DEF Orderly, Chains, Locks, Singles, Known
<1>6. /\ t.queue[b] = r /\ \A d \in Banks : d # b => t.queue[d] = f.queue[d]
      /\ t.lock[b] = Holder(f, b, c) /\ \A d \in Banks : d # b => t.lock[d] = f.lock[d]
  BY <1>1, <1>4
<1>7. r \in Seq(Asked) /\ \E lo \in {i - 1, i} : Cut(q, r, lo, i)
  BY <1>2, <1>4, <1>5, RestCuts
<1>8. PICK lo : Cut(q, r, lo, i)
  BY <1>7
<1>9. Within(r, q, lo, i)
  BY <1>4, <1>7, <1>8, CutWithin
<1>10. c \in Asked
  BY <1>4
<1>11. /\ Locking(c) <=> Locker(c.tag)
       /\ c.tag \in Tags /\ c.tag # NoTag /\ c.bank = Requests[c.tag].bank
  BY <1>10, LockingIs
<1>12. c.tag \in K
  BY <1>4, <1>5 DEF From
<1>13. Singles(t)
  <2>1. Single(r)
    BY <1>5, <1>9, WithinSingle
  <2>2. ASSUME NEW d \in Banks PROVE Single(t.queue[d])
    BY <1>6, <2>1 DEF Locks, Singles
  <2> QED BY <2>2 DEF Singles
<1>14. Known(t)
  <2>1. From(r, K)
    BY <1>5, <1>9, WithinFrom
  <2>2. ASSUME NEW d \in Banks PROVE From(t.queue[d], K)
    <3>1. CASE d = b
      BY <1>6, <2>1, <3>1
    <3>2. CASE d # b
      BY <1>3, <1>6, <3>2 DEF Locks, Known
    <3> QED BY <3>1, <3>2
  <2>3. ASSUME NEW d \in Banks, t.lock[d] # NoTag PROVE t.lock[d] \in K
    <3>1. CASE d # b
      BY <1>3, <1>6, <2>3, <3>1 DEF Locks, Known
    <3>2. CASE d = b
      <4>1. f.lock[b] # NoTag => f.lock[b] \in K
        BY <1>3, <1>4 DEF Locks, Known
      <4>2. Holder(f, b, c) \in {NoTag, c.tag, f.lock[b]}
        BY DEF Holder
      <4> QED BY <1>6, <1>12, <2>3, <3>2, <4>1, <4>2
    <3> QED BY <3>1, <3>2
  <2>4. Once(t.down, K)
    BY <1>3, <1>4 DEF Locks, Known
  <2> QED BY <1>3, <1>4, <2>2, <2>3, <2>4 DEF Known
<1>15. Places(t)
  <2>1. SUFFICES ASSUME NEW d \in Banks
                 PROVE  Len(t.queue[d]) + Place(t.queue[d], t.lock[d]) <= MAX_CMD_QUE
    BY DEF Places
  <2>2. CASE d # b
    BY <1>6, <2>2 DEF Locks, Places
  <2>3. CASE d = b
    <3>1. Len(q) + Place(q, f.lock[b]) <= MAX_CMD_QUE
      BY <1>2, <1>4 DEF Locks, Places
    <3>2. Len(r) <= Len(q) - 1 /\ Len(q) \in Nat /\ Len(r) \in Nat
      BY <1>9 DEF Within
    <3>3. PICK h, g : h = Place(r, Holder(f, b, c)) /\ g = Place(q, f.lock[b])
      OBVIOUS
    <3>4. h \in {0, 1} /\ g \in {0, 1}
      BY <3>3, PlaceIs
    <3>5. Len(r) + h <= MAX_CMD_QUE
      BY <1>1, <3>1, <3>2, <3>3, <3>4
    <3> QED BY <1>6, <2>3, <3>3, <3>5
  <2> QED BY <2>2, <2>3
<1>17. c.bank = b
  BY <1>2, <1>4 DEF Orderly
<1>16. UnderWay(t)
  <2>1. SUFFICES ASSUME NEW x \in Tags, Locker(x)
                 PROVE  Flow(x, t) = 0 \/ (Flow(x, t) = 1 /\ Holds(t, x))
    BY DEF UnderWay
  <2>2. Flow(x, t) = Flow(x, f) + IF c.type = "READ" /\ c.tag = x THEN 1 ELSE 0
    BY DEF Sends
  <2>3. PICK d : d = Requests[x].bank
    OBVIOUS
  <2>4. d \in Banks
    BY <2>3, RequestHas
  <2>5. CASE Flow(x, f) # 0
    <3>1. Flow(x, f) = 1 /\ f.lock[d] = x /\ Lacks(f.queue[d], x)
      BY <2>1, <2>3, <2>5, UnderWayKnown DEF Holds
    <3>2. x # NoTag
      BY RequestHas
    <3>3. d # b
      <4>1. SUFFICES ASSUME d = b PROVE FALSE
        OBVIOUS
      <4>2. c.tag = x
        BY <1>4, <3>1, <3>2, <4>1
      <4>3. q[i].tag # x
        BY <1>2, <1>4, <3>1, <4>1 DEF Lacks
      <4> QED BY <1>4, <4>2, <4>3
    <3>4. c.tag # x
      BY <1>11, <1>17, <2>3, <3>3
    <3>5. Flow(x, t) = 1
      BY <2>2, <3>1, <3>4
    <3>6. Holds(t, x)
      BY <1>6, <2>3, <2>4, <3>1, <3>3 DEF Holds
    <3> QED BY <3>5, <3>6
  <2>6. CASE Flow(x, f) = 0 /\ ~(c.type = "READ" /\ c.tag = x)
    BY <2>2, <2>6
  <2>7. CASE Flow(x, f) = 0 /\ c.type = "READ" /\ c.tag = x
    <3>1. Flow(x, t) = 1
      BY <2>2, <2>7
    <3>2. d = b
      BY <1>11, <1>17, <2>3, <2>7
    <3>3. Locking(c) /\ c.type \notin Writes
      BY <1>11, <2>1, <2>7 DEF Writes
    <3>4. t.lock[d] = x
      <4>1. Holder(f, b, c) = x
        BY <1>4, <2>7, <3>3 DEF Holder
      <4> QED BY <1>6, <3>2, <4>1
    <3>5. Lacks(r, x)
      BY <1>2, <1>4, <1>5, <2>7, <3>3, TakenLacks
    <3>6. Holds(t, x)
      BY <1>6, <2>3, <3>2, <3>4, <3>5 DEF Holds
    <3> QED BY <3>1, <3>6
  <2> QED BY <2>5, <2>6, <2>7
<1> QED BY <1>13, <1>14, <1>15, <1>16 DEF Locks

-----------------------------------------------------------------------------
\* The scheduler and the command bus keep Locks.
LEMMA IssueLocks ==
  ASSUME OpenPage, NEW f \in VaultSet, NEW p \in VaultSet, Pops(f, p), f.popped = NoCMD,
         p.cmdBus = NoCMD, Orderly(f), Locks(f), NEW t, t = IssuePopped(p), t \in VaultSet
  PROVE  Locks(t)
<1>1. Same(f, p, {"tFAW", "issuedBank", "popped", "queue", "lock", "rowAccess", "refreshWaiting"})
  BY PopFrame
<1>2. p.atomicCMD = f.atomicCMD /\ p.down = f.down /\ p.converted = f.converted
  BY <1>1 DEF Same, Fields
<1>3. PICK c : c = p.popped
  OBVIOUS
<1>4. IsVault(p)
  BY VaultSetIs
<1>5. t.queue = p.queue /\ t.lock = p.lock /\ t.atomicCMD = f.atomicCMD /\ t.down = f.down
      /\ t.converted = f.converted
  <2>1. Same(p, t, {"writeData", "pendingDataSize", "cmdBus", "cmdLeft", "popped"})
    BY <1>4, IssueFrame
  <2> QED BY <1>2, <2>1 DEF Same, Fields
<1>6. ASSUME NEW x \in Tags
      PROVE  Flow(x, t) = Flow(x, f) + IF c.type = "READ" /\ c.tag = x THEN 1 ELSE 0
  <2>1. ReadLoad(ReadOf(x), p) = ReadLoad(ReadOf(x), f)
    BY PopAccount, ReadOfIs
  <2>2. /\ c \in Issued /\ ReadOf(x)[c] \in Nat
        /\ ReadLoad(ReadOf(x), t) = ReadLoad(ReadOf(x), p) + IF c.type = "WRITE" THEN 0 ELSE ReadOf(x)[c]
    BY <1>3, ReadOfIs, IssueLoad
  <2>3. ReadOf(x)[c] = IF c.type = "READ" /\ c.tag = x THEN 1 ELSE 0
    BY <2>2, ReadOfIs
  <2>4. ReadLoad(ReadOf(x), f) \in Nat /\ ReadOf(x)[f.atomicCMD] \in {0, 1}
        /\ Flow(x, f) = ReadLoad(ReadOf(x), f) + ReadOf(x)[f.atomicCMD]
    BY FlowIs
  <2>5. Flow(x, t) = ReadLoad(ReadOf(x), t) + ReadOf(x)[f.atomicCMD]
    BY <1>5 DEF Flow
  <2> QED BY <2>1, <2>2, <2>3, <2>4, <2>5
<1>7. CASE NoAccess(f, p)
  <2>1. t.queue = f.queue /\ t.lock = f.lock /\ c.type # "READ"
    BY <1>3, <1>5, <1>7 DEF NoAccess
  <2>2. ASSUME NEW x \in Tags PROVE Flow(x, t) = Flow(x, f) /\ (Holds(f, x) => Holds(t, x))
    <3>1. Flow(x, f) \in Nat
      BY FlowIs
    <3> QED BY <1>6, <2>1, <3>1 DEF Holds
  <2>3. UnderWay(t)
    BY <2>2 DEF Locks, UnderWay
  <2>4. Singles(t) /\ Known(t) /\ Places(t)
    BY <1>5, <2>1 DEF Locks, Singles, Known, Places
  <2> QED BY <2>3, <2>4 DEF Locks
<1>8. CASE \E b \in Banks : \E i \in 1 .. Len(f.queue[b]) : TakesAccess(f, p, b, i)
  <2>1. PICK b \in Banks : \E i \in 1 .. Len(f.queue[b]) : TakesAccess(f, p, b, i)
    BY <1>8
  <2>2. PICK i \in 1 .. Len(f.queue[b]) : TakesAccess(f, p, b, i)
    BY <2>1
  <2>3. /\ c = f.queue[b][i]
        /\ t.queue = [f.queue EXCEPT ![b] = Rest(f.queue[b], i)]
        /\ t.lock = [f.lock EXCEPT ![b] = Holder(f, b, c)]
        /\ f.lock[b] # NoTag => c.tag = f.lock[b]
    BY <1>3, <1>5, <2>2 DEF TakesAccess
  <2>4. Sends(f, t, b, i, c)
    BY <1>5, <1>6, <2>3 DEF Sends
  <2> QED BY <2>4, SendsLocks
<1> QED BY <1>7, <1>8, PopsIs

(* The write-back.                                                         *)
LEMMA FrontPlaces ==
  ASSUME NEW q \in Seq(Asked), NEW c \in Asked, NEW r, r = <<c>> \o q
  PROVE  /\ r \in Seq(Asked) /\ Len(r) = Len(q) + 1 /\ r[1] = c
         /\ \A j \in 2 .. Len(r) : r[j] = q[j - 1]
<1>1. PICK p : p = <<c>>
  OBVIOUS
<1>2. p \in Seq(Asked) /\ Len(p) = 1 /\ p[1] = c /\ r = p \o q
  BY <1>1
<1>3. Len(q) \in Nat
  OBVIOUS
<1>4. /\ r \in Seq(Asked) /\ Len(r) = 1 + Len(q)
      /\ \A i \in 1 .. 1 + Len(q) : r[i] = IF i <= 1 THEN p[i] ELSE q[i - 1]
  BY <1>2, ConcatIs
<1> QED BY <1>2, <1>3, <1>4

\* A write-back at the head, of a request the queue lacks.
LEMMA FrontSingle ==
  ASSUME NEW q \in Seq(Asked), NEW c \in Asked, NEW r, r = <<c>> \o q, Single(q), Lacks(q, c.tag)
  PROVE  Single(r)
<1>1. /\ r \in Seq(Asked) /\ Len(r) = Len(q) + 1 /\ r[1] = c
      /\ \A j \in 2 .. Len(r) : r[j] = q[j - 1]
  BY FrontPlaces
<1>2. Len(q) \in Nat
  OBVIOUS
<1>3. SUFFICES ASSUME NEW i \in 1 .. Len(r), NEW j \in i + 1 .. Len(r), r[i].tag = r[j].tag, Locking(r[i])
               PROVE  j = i + 1 /\ r[i].type = "ACTIVATE"
  BY DEF Single
<1>4. j \in 2 .. Len(r) /\ j - 1 \in 1 .. Len(q)
  BY <1>1, <1>2, <1>3
<1>5. r[j] = q[j - 1]
  BY <1>1, <1>4
<1>6. CASE i = 1
  <2>1. r[j].tag # c.tag
    BY <1>4, <1>5 DEF Lacks
  <2> QED BY <1>1, <1>3, <1>6, <2>1
<1>7. CASE i # 1
  <2>1. r[i] = q[i - 1] /\ i - 1 \in 1 .. Len(q) /\ j - 1 \in (i - 1) + 1 .. Len(q)
    BY <1>1, <1>2, <1>3, <1>4, <1>7
  <2>2. PICK k, l : k = i - 1 /\ l = j - 1
    OBVIOUS
  <2>3. k \in 1 .. Len(q) /\ l \in k + 1 .. Len(q) /\ q[k].tag = q[l].tag /\ Locking(q[k])
    BY <1>3, <1>5, <2>1, <2>2
  <2>4. l = k + 1 /\ q[k].type = "ACTIVATE"
    BY <2>3 DEF Single
  <2> QED BY <2>1, <2>2, <2>4
<1> QED BY <1>6, <1>7

\* The requests of the queue, after it.
LEMMA FrontFrom ==
  ASSUME NEW q \in Seq(Asked), NEW c \in Asked, NEW r, r = <<c>> \o q, NEW K, From(q, K), c.tag \in K
  PROVE  From(r, K)
<1>1. /\ Len(r) = Len(q) + 1 /\ r[1] = c /\ \A j \in 2 .. Len(r) : r[j] = q[j - 1]
  BY FrontPlaces
<1>2. ASSUME NEW i \in 1 .. Len(r) PROVE r[i].tag \in K
  <2>1. CASE i = 1
    BY <1>1, <2>1
  <2>2. CASE i # 1
    <3>1. i \in 2 .. Len(r) /\ i - 1 \in 1 .. Len(q)
      BY <1>1, <2>2
    <3> QED BY <1>1, <3>1 DEF From
  <2> QED BY <2>1, <2>2
<1> QED BY <1>2 DEF From

\* It no longer lacks the request.
LEMMA FrontHas ==
  ASSUME NEW q \in Seq(Asked), NEW c \in Asked, NEW r, r = <<c>> \o q
  PROVE  ~Lacks(r, c.tag)
<1>1. Len(r) = Len(q) + 1 /\ r[1] = c /\ Len(q) \in Nat
  BY FrontPlaces
<1>2. 1 \in 1 .. Len(r) /\ r[1].tag = c.tag
  BY <1>1
<1> QED BY <1>2 DEF Lacks

-----------------------------------------------------------------------------
\* The write-back takes the place that was kept for it.
LEMMA WriteBackLocks ==
  ASSUME OpenPage, NEW s \in VaultSet, Locks(s), NEW t, NEW c, WritesBack(s, t, c),
         t.lock = s.lock, t.down = s.down, t.converted = s.converted,
         \A W \in Weights : ReadLoad(W, t) = ReadLoad(W, s)
  PROVE  Locks(t)
<1>1. c \in AskedReads /\ c = s.atomicCMD /\ Locking(c) /\ t.atomicCMD = NoCMD
  BY DEF WritesBack
<1>2. c \in Asked /\ c.type = "READ"
  BY <1>1 DEF AskedReads
<1>3. PICK b, back : b = c.bank /\ back = WriteBack(c)
  OBVIOUS
<1>4. PICK tag : tag = c.tag
  OBVIOUS
<1>5. Locker(tag) /\ tag \in Tags /\ tag # NoTag /\ b = Requests[tag].bank
  BY <1>1, <1>2, <1>3, <1>4, LockingIs
<1>6. b \in Banks
  BY <1>5, RequestHas
<1>7. back \in Asked /\ back.tag = tag
  <2>1. back \in AskedWrites /\ back.tag = tag
    BY <1>1, <1>3, <1>4, OpenPageIs, WriteBackIs
  <2> QED BY <2>1 DEF AskedWrites
<1>8. /\ s.queue \in [Banks -> Seq(Asked)] /\ s.lock \in [Banks -> Tags \cup {NoTag}] /\ MAX_CMD_QUE \in Nat
  BY LockParts
<1>9. PICK q, r : q = s.queue[b] /\ r = <<back>> \o q
  OBVIOUS
<1>10. t.queue = [s.queue EXCEPT ![b] = r]
  BY <1>3, <1>9 DEF WritesBack
<1>11. t.queue[b] = r /\ (\A d \in Banks : d # b => t.queue[d] = s.queue[d]) /\ q \in Seq(Asked)
  BY <1>6, <1>8, <1>9, <1>10
\* The atomic is under way: it holds the lock of its bank, none of its commands waits.
<1>12. /\ ReadLoad(ReadOf(tag), s) \in Nat
       /\ Flow(tag, s) = ReadLoad(ReadOf(tag), s) + 1
  <2>1. ReadLoad(ReadOf(tag), s) \in Nat /\ Flow(tag, s) = ReadLoad(ReadOf(tag), s) + ReadOf(tag)[s.atomicCMD]
        /\ ReadOf(tag)[s.atomicCMD] = IF s.atomicCMD.type = "READ" /\ s.atomicCMD.tag = tag THEN 1 ELSE 0
    BY <1>5, FlowIs
  <2> QED BY <1>1, <1>2, <1>4, <2>1
<1>13. Flow(tag, s) = 1 /\ Holds(s, tag) /\ tag \in Range(s.converted)
  <2>1. Flow(tag, s) # 0
    BY <1>12
  <2> QED BY <1>5, <2>1, UnderWayKnown
<1>14. s.lock[b] = tag /\ Lacks(q, tag)
  BY <1>5, <1>9, <1>13 DEF Holds
<1>15. Singles(t)
  <2>1. Single(q)
    BY <1>6, <1>9 DEF Locks, Singles
  <2>2. Single(r)
    BY <1>7, <1>9, <1>11, <1>14, <2>1, FrontSingle
  <2>3. ASSUME NEW d \in Banks PROVE Single(t.queue[d])
    BY <1>11, <2>2 DEF Locks, Singles
  <2> QED BY <2>3 DEF Singles
<1>16. Known(t)
  <2>1. PICK K : K = Range(s.converted)
    OBVIOUS
  <2>2. From(q, K)
    BY <1>6, <1>9, <2>1 DEF Locks, Known
  <2>3. From(r, K)
    BY <1>7, <1>9, <1>11, <1>13, <2>1, <2>2, FrontFrom
  <2>4. ASSUME NEW d \in Banks PROVE From(t.queue[d], K)
    BY <1>11, <2>1, <2>3 DEF Locks, Known
  <2> QED BY <2>1, <2>4 DEF Locks, Known
<1>17. Places(t)
  <2>1. SUFFICES ASSUME NEW d \in Banks
                 PROVE  Len(t.queue[d]) + Place(t.queue[d], t.lock[d]) <= MAX_CMD_QUE
    BY DEF Places
  <2>2. CASE d # b
    BY <1>11, <2>2 DEF Locks, Places
  <2>3. CASE d = b
    <3>1. Len(q) + Place(q, tag) <= MAX_CMD_QUE
      BY <1>6, <1>9, <1>14 DEF Locks, Places
    <3>2. Place(q, tag) = 1
      BY <1>5, <1>14 DEF Place
    <3>3. Place(r, tag) = 0
      <4>1. ~Lacks(r, tag)
        BY <1>7, <1>9, <1>11, FrontHas
      <4> QED BY <4>1 DEF Place
    <3>4. Len(r) = Len(q) + 1 /\ Len(q) \in Nat
      BY <1>7, <1>9, <1>11, FrontPlaces
    <3>5. Len(r) + Place(r, tag) <= MAX_CMD_QUE
      BY <1>8, <3>1, <3>2, <3>3, <3>4
    <3> QED BY <1>11, <1>14, <2>3, <3>5
  <2> QED BY <2>2, <2>3
<1>18. UnderWay(t)
  <2>1. SUFFICES ASSUME NEW x \in Tags, Locker(x)
                 PROVE  Flow(x, t) = 0 \/ (Flow(x, t) = 1 /\ Holds(t, x))
    BY DEF UnderWay
  <2>2. ReadLoad(ReadOf(x), t) = ReadLoad(ReadOf(x), s)
    BY ReadOfIs
  <2>3. ReadOf(x)[NoCMD] = 0
    <3>1. NoCMD \in Issued
      BY DEF Issued
    <3>2. NoCMD.type # "READ"
      BY CloserHas
    <3> QED BY <3>1, <3>2, ReadOfIs
  <2>4. Flow(x, t) = ReadLoad(ReadOf(x), s) + 0
    BY <1>1, <2>2, <2>3 DEF Flow
  <2>5. CASE x = tag
    BY <1>12, <1>13, <2>4, <2>5
  <2>6. CASE x # tag
    <3>1. Flow(x, s) = ReadLoad(ReadOf(x), s) /\ Flow(x, s) \in Nat
      <4>1. ReadLoad(ReadOf(x), s) \in Nat /\ Flow(x, s) = ReadLoad(ReadOf(x), s) + ReadOf(x)[s.atomicCMD]
            /\ ReadOf(x)[s.atomicCMD] = IF s.atomicCMD.type = "READ" /\ s.atomicCMD.tag = x THEN 1 ELSE 0
        BY FlowIs
      <4> QED BY <1>1, <1>4, <2>6, <4>1
    <3>2. Flow(x, t) = Flow(x, s)
      BY <2>4, <3>1
    <3>3. ASSUME Holds(s, x) PROVE Holds(t, x)
      <4>1. PICK d : d = Requests[x].bank
        OBVIOUS
      <4>2. d \in Banks /\ s.lock[d] = x /\ Lacks(s.queue[d], x)
        BY <3>3, <4>1, RequestHas DEF Holds
      <4>3. d # b
        BY <1>14, <2>6, <4>2
      <4> QED BY <1>11, <4>1, <4>2, <4>3 DEF Holds
    <3> QED BY <2>1, <3>2, <3>3 DEF Locks, UnderWay
  <2> QED BY <2>5, <2>6
<1> QED BY <1>15, <1>16, <1>17, <1>18 DEF Locks

\* Another operation of atomicCMD.
LEMMA FlowLocks ==
  ASSUME OpenPage, NEW s, Locks(s), NEW t,
         t.queue = s.queue, t.lock = s.lock, t.down = s.down, t.converted = s.converted,
         \A x \in Tags : Locker(x) => Flow(x, t) = Flow(x, s)
  PROVE  Locks(t)
<1>1. ASSUME NEW x \in Tags, Locker(x) PROVE Flow(x, t) = Flow(x, s) /\ (Holds(s, x) => Holds(t, x))
  BY <1>1 DEF Holds
<1>2. UnderWay(t)
  BY <1>1 DEF Locks, UnderWay
<1>3. Singles(t) /\ Known(t) /\ Places(t)
  BY DEF Locks, Singles, Known, Places
<1> QED BY <1>2, <1>3 DEF Locks

\* The operation of an atomic keeps Locks.
LEMMA AtomicLocks ==
  ASSUME OpenPage, NEW s \in VaultSet, AtomicTurn(s), Locks(s), NEW t, t = AtomicOperation(s), t \in VaultSet
  PROVE  Locks(t)
<1>0. \A W \in Weights : ReadLoad(W, t) = ReadLoad(W, s)
  BY AtomicAccount
<1>1. PICK c : c = s.atomicCMD
  OBVIOUS
<1>2. /\ t.lock = s.lock /\ t.converted = s.converted /\ t.down = s.down
      /\ \/ t.queue = s.queue /\ (t.atomicCMD = s.atomicCMD \/ (t.atomicCMD = NoCMD /\ ~Locking(c)))
         \/ WritesBack(s, t, c)
  BY <1>1, AtomicIs
<1>3. CASE WritesBack(s, t, c)
  BY <1>0, <1>2, <1>3, WriteBackLocks
<1>4. CASE t.queue = s.queue /\ t.atomicCMD = s.atomicCMD
  BY <1>0, <1>2, <1>4, LocksFrame
<1>5. CASE t.queue = s.queue /\ t.atomicCMD = NoCMD /\ ~Locking(c)
  <2>1. ASSUME NEW x \in Tags, Locker(x) PROVE Flow(x, t) = Flow(x, s)
    <3>1. ReadLoad(ReadOf(x), t) = ReadLoad(ReadOf(x), s)
      BY <1>0, ReadOfIs
    <3>2. ReadOf(x)[NoCMD] = 0
      <4>1. NoCMD \in Issued
        BY DEF Issued
      <4>2. NoCMD.type # "READ"
        BY CloserHas
      <4> QED BY <4>1, <4>2, ReadOfIs
    <3>3. ReadOf(x)[c] = 0
      <4>1. c \in AskedReads \cup {NoCMD}
        BY <1>1, VaultSetIs DEF VaultHas
      <4>2. CASE c = NoCMD
        BY <3>2, <4>2
      <4>3. CASE c \in AskedReads
        <5>1. c \in Asked /\ c \in Issued
          BY <4>3 DEF AskedReads, Issued
        <5>2. c.tag # x
          BY <1>5, <2>1, <5>1, LockingIs
        <5> QED BY <5>1, <5>2, ReadOfIs
      <4> QED BY <4>1, <4>2, <4>3
    <3> QED BY <1>1, <1>5, <3>1, <3>2, <3>3 DEF Flow
  <2> QED BY <1>2, <1>5, <2>1, FlowLocks
<1> QED BY <1>2, <1>3, <1>4, <1>5

\* A read that returns keeps Locks: of an atomic that is to be operated on, or one that ends.
LEMMA EndedLocks ==
  ASSUME OpenPage, NEW s \in VaultSet, Welcome(s), Locks(s), NEW t, t = Ended(s), t \in VaultSet
  PROVE  Locks(t)
<1>1. IsVault(s)
  BY VaultSetIs
<1>2. t.queue = s.queue /\ t.lock = s.lock /\ t.down = s.down /\ t.converted = s.converted
  <2>1. Same(s, t, {"readData", "readLeft", "pendingRead", "atomicCMD", "atomicOperLeft", "up",
                        "pendingDataSize", "error"})
    BY <1>1, EndedFrame
  <2> QED BY <2>1 DEF Same, Fields
<1>3. ASSUME NEW W \in Weights
      PROVE  /\ ReadEnds(s) => ReadLoad(W, t) + W[s.readData] = ReadLoad(W, s)
             /\ ~ReadEnds(s) => ReadLoad(W, t) = ReadLoad(W, s)
  BY EndedLoad
<1>4. CASE ~ReadEnds(s)
  <2>1. t.atomicCMD = s.atomicCMD
    <3>1. Same(s, t, {"readLeft"})
      BY <1>1, <1>4, EndedFrame
    <3> QED BY <3>1 DEF Same, Fields
  <2> QED BY <1>2, <1>3, <1>4, <2>1, LocksFrame
<1>5. CASE ReadEnds(s)
  <2>1. PICK c : c = s.readData
    OBVIOUS
  <2>2. /\ c \in Asked /\ c.type = "READ" /\ c \in Issued
        /\ t.atomicCMD = IF c.last /\ Atomic(c) THEN c ELSE NoCMD
    <3>1. ReadReturned(s, t, c)
      BY <1>5, <2>1, EndedReturns
    <3> QED BY <3>1 DEF ReadReturned
  <2>3. s.atomicCMD = NoCMD
    BY <1>5 DEF Welcome
  <2>4. ASSUME NEW x \in Tags, Locker(x) PROVE Flow(x, t) = Flow(x, s)
    <3>1. NoCMD \in Issued /\ NoCMD.type # "READ"
      BY CloserHas DEF Issued
    <3>2. ReadOf(x)[NoCMD] = 0
      BY <3>1, ReadOfIs
    <3>3. ReadLoad(ReadOf(x), t) + ReadOf(x)[c] = ReadLoad(ReadOf(x), s)
      BY <1>3, <1>5, <2>1, ReadOfIs
    <3>4. ReadOf(x)[c] = IF c.tag = x THEN 1 ELSE 0
      BY <2>2, ReadOfIs
    <3>5. ReadOf(x)[t.atomicCMD] = ReadOf(x)[c]
      <4>1. CASE c.tag = x
        <5>1. c.last /\ Locking(c)
          BY <2>2, <2>4, <4>1, LockingIs
        <5>2. Atomic(c)
          BY <5>1 DEF Locking
        <5> QED BY <2>2, <5>1, <5>2
      <4>2. CASE c.tag # x
        <5>1. t.atomicCMD \in {c, NoCMD}
          BY <2>2
        <5> QED BY <3>2, <3>4, <4>2, <5>1
      <4> QED BY <4>1, <4>2
    <3>6. ReadLoad(ReadOf(x), t) \in Nat
      BY FlowIs
    <3> QED BY <2>3, <3>2, <3>3, <3>4, <3>5, <3>6 DEF Flow
  <2> QED BY <1>2, <2>4, FlowLocks
<1> QED BY <1>4, <1>5

-----------------------------------------------------------------------------
(* A Cycle. *)
LEMMA CycleAccount ==
  ASSUME OpenPage, ShortBursts, NEW s, NEW age, Base(s, age), Traffic(s, age), Account(s), Counted(s), Locks(s),
         NEW taken \in BOOLEAN, NEW due \in BOOLEAN,
         NEW u, NEW f, NEW p, NEW i, NEW a, NEW e, NEW k, NEW n, NEW w,
         Stages(s, taken, due, u, f, p, i, a, e, k, n, w)
  PROVE  /\ Account(w) /\ Counted(w) /\ Locks(w)
         /\ Locks(u) /\ Locks(f) /\ Orderly(f) /\ Locks(i)
<1>1. /\ u = UpdateCountdown(s, due) /\ f = Filled(s, taken, due) /\ p = CmdPop(f)
      /\ i = IssuePopped(p) /\ a = AtomicOperation(i) /\ e = EnablePowerdown(a)
      /\ k = Clocked(e) /\ n = Ended(k) /\ w = Begun(n)
  BY DEF Stages
<1>2. /\ s \in VaultSet /\ u \in VaultSet /\ f \in VaultSet /\ p \in VaultSet /\ i \in VaultSet
      /\ a \in VaultSet /\ e \in VaultSet /\ k \in VaultSet /\ n \in VaultSet /\ w \in VaultSet
      /\ Same(u, f, Converted \cup {"up"}) /\ f.popped = NoCMD
      /\ p.cmdBus = NoCMD /\ Pops(f, p)
  <2>1. Staged(s, u, f, p, i, a, e, k, n, w)
    BY StagesType
  <2> QED BY <2>1 DEF Staged
<1>3. /\ Due(s.writeData) => s.dataBus = NoCMD
      /\ ReadEnds(k) => k.dataBus = NoCMD /\ k.atomicCMD = NoCMD
      /\ ReadDue(n) => n.readData = NoCMD
  BY CycleTraffic
<1>4. OPEN_PAGE
  BY OpenPageIs
<1>5. /\ s.cmdBus # NoCMD => s.cmdLeft = 1
      /\ s.cmdBus # NoCMD => ReceiveCMD(s.bank, s.cmdBus) \in [Banks -> BankType]
  <2>1. s.cmdBus # NoCMD => s.cmdLeft = 1
    BY DEF Base, OnBus
  <2>2. ASSUME s.cmdBus # NoCMD PROVE ReceiveCMD(s.bank, s.cmdBus) \in [Banks -> BankType]
    <3>1. s.cmdBus \in Issued
      BY <1>2, VaultSetIs DEF VaultHas
    <3>2. s.cmdBus \in Arrival /\ Arrives(s.bank, age, s.cmdBus) /\ Timed(s.bank, age)
      BY <2>2, <3>1, IssuedHas DEF Base, Common
    <3> QED BY <3>2, ArrivalKeeps DEF Timed
  <2> QED BY <2>1, <2>2
\* UpdateCountdown.
<1>6. Account(u) /\ \A W \in Weights : ReadLoad(W, u) = ReadLoad(W, s)
  BY <1>1, <1>2, <1>3, <1>5, CountdownAccount
<1>7. Same(s, u, {"cmdBus", "cmdLeft", "bank", "reads", "dataBus", "dataLeft", "writeData", "up",
                        "pendingDataSize", "error", "refreshWaiting", "refreshes"})
  BY <1>1, <1>2, <1>5, CountdownIs
<1>8. Counted(u)
  <2>1. u.pendingRead = s.pendingRead /\ u.queue = s.queue
    BY <1>7 DEF Same, Fields
  <2> QED BY <1>6, <2>1, CountedFrame
<1>9. Locks(u)
  <2>1. u.queue = s.queue /\ u.lock = s.lock /\ u.down = s.down /\ u.converted = s.converted
        /\ u.atomicCMD = s.atomicCMD
    BY <1>7 DEF Same, Fields
  <2> QED BY <1>6, <2>1, LocksFrame
\* The conversions, and the response that is taken.
<1>10. Account(f)
  BY <1>1, <1>2, <1>4, <1>6, FilledAccount
<1>11. Counted(f)
  BY <1>1, <1>2, <1>8, FilledCounted
<1>12. Locks(f)
  BY <1>1, <1>2, <1>9, FilledLocks
<1>13. Orderly(f)
  <2>1. PICK calm \in BOOLEAN : calm = AtRest(s)
    BY DEF AtRest, IsEmpty
  <2>2. Mid(f, IF s.cmdBus = NoCMD THEN age ELSE Happened(age, s.cmdBus), calm)
    BY <1>1, <2>1, FilledMid
  <2> QED BY <2>2 DEF Mid, Common
\* The command that is popped and sent.
<1>14. Account(p) /\ (Reserves(p.popped) => RoomForResponse(p, p.popped))
  BY <1>2, <1>10, PopAccount
<1>15. Account(i)
  BY <1>1, <1>2, <1>14, IssueAccount
<1>16. Counted(i)
  BY <1>1, <1>2, <1>11, <1>13, IssueCounted
<1>17. Locks(i)
  BY <1>1, <1>2, <1>13, <1>12, IssueLocks
\* The atomic.
<1>18. AtomicTurn(i)
  <2>1. Same(f, p, {"tFAW", "issuedBank", "popped", "queue", "lock", "rowAccess", "refreshWaiting"})
    BY <1>2, PopFrame
  <2>2. Same(p, i, {"writeData", "pendingDataSize", "cmdBus", "cmdLeft", "popped"})
    <3>1. IsVault(p)
      BY <1>2, VaultSetIs
    <3> QED BY <1>1, <1>2, <3>1, IssueFrame
  <2>3. i.atomicCMD = p.atomicCMD /\ i.atomicOperLeft = p.atomicOperLeft /\ i.readData = p.readData
        /\ i.readLeft = p.readLeft
    BY <2>2 DEF Same, Fields
  <2>4. p.atomicCMD = f.atomicCMD /\ p.atomicOperLeft = f.atomicOperLeft /\ p.readData = f.readData
        /\ p.readLeft = f.readLeft
    BY <2>1 DEF Same, Fields
  <2>5. f.atomicCMD = u.atomicCMD /\ f.atomicOperLeft = u.atomicOperLeft /\ f.readData = u.readData
        /\ f.readLeft = u.readLeft
    BY <1>2 DEF Same, Fields, Converted
  <2>6. u.atomicCMD = s.atomicCMD /\ u.atomicOperLeft = s.atomicOperLeft /\ u.readData = s.readData
        /\ u.readLeft = s.readLeft
    BY <1>7 DEF Same, Fields
  <2>7. AtomicTurn(s)
    BY DEF Traffic
  <2> QED BY <2>3, <2>4, <2>5, <2>6, <2>7 DEF AtomicTurn
<1>19. Account(a)
  BY <1>1, <1>2, <1>15, <1>18, AtomicAccount
<1>20. Counted(a)
  BY <1>1, <1>2, <1>16, <1>18, AtomicCounted
<1>21. Locks(a)
  BY <1>1, <1>2, <1>18, <1>17, AtomicLocks
\* Power and the clocks.
<1>22. Account(k) /\ Counted(k) /\ Locks(k)
  <2>1. Same(a, e, {"bank", "powerDown"})
    <3>1. IsVault(a)
      BY <1>2, VaultSetIs
    <3> QED BY <1>1, <3>1, PowerFrame
  <2>2. Same(e, k, {"bank", "fresh"})
    <3>1. IsVault(e)
      BY <1>2, VaultSetIs
    <3> QED BY <1>1, <3>1, ClockedFrame
  <2>3. k.cmdBus = a.cmdBus /\ k.readData = a.readData /\ k.reads = a.reads /\ k.dataBus = a.dataBus
       /\ k.writeData = a.writeData /\ k.pendingRead = a.pendingRead /\ k.queue = a.queue
       /\ k.atomicCMD = a.atomicCMD /\ k.pendingDataSize = a.pendingDataSize /\ k.up = a.up /\ k.error = a.error
       /\ k.lock = a.lock /\ k.down = a.down /\ k.converted = a.converted
    BY <2>1, <2>2 DEF Same, Fields
  <2>4. \A W : ReadLoad(W, k) = ReadLoad(W, a) /\ WriteLoad(W, k) = WriteLoad(W, a)
    BY <2>3, LoadFrame
  <2>5. Account(k)
    BY <1>19, <2>3, <2>4, AccountFrame
  <2>6. Counted(k)
    BY <1>20, <2>3, <2>4, CountedFrame
  <2>7. Locks(k)
    BY <1>21, <2>3, <2>4, LocksFrame
  <2> QED BY <2>5, <2>6, <2>7
\* The reads.
<1>23. Welcome(k)
  <2>1. ASSUME ReadEnds(k) PROVE FoundIn(k, k.readData) # {}
    <3>1. k.readData # NoCMD
      BY <2>1 DEF ReadEnds
    <3> QED BY <1>2, <1>22, <3>1, CountedFinds
  <2> QED BY <1>3, <2>1 DEF Welcome
<1>24. Account(n)
  BY <1>1, <1>2, <1>22, <1>23, EndedAccount
<1>25. Counted(n)
  BY <1>1, <1>2, <1>22, <1>23, EndedCounted
<1>26. Locks(n)
  BY <1>1, <1>2, <1>22, <1>23, EndedLocks
<1>27. \A W \in Weights : ReadLoad(W, w) = ReadLoad(W, n) /\ WriteLoad(W, w) = WriteLoad(W, n)
  BY <1>1, <1>2, <1>3, BegunLoad
<1>28. Same(n, w, {"readData", "readLeft", "reads"})
  <2>1. IsVault(n)
    BY <1>2, VaultSetIs
  <2> QED BY <1>1, <2>1, BegunFrame
<1>29. w.pendingRead = n.pendingRead /\ w.queue = n.queue /\ w.atomicCMD = n.atomicCMD
       /\ w.pendingDataSize = n.pendingDataSize /\ w.up = n.up /\ w.error = n.error
       /\ w.lock = n.lock /\ w.down = n.down /\ w.converted = n.converted
  BY <1>28 DEF Same, Fields
<1>30. Account(w)
  BY <1>24, <1>27, <1>29, OwesWeigh, AccountFrame
<1>31. Counted(w)
  BY <1>25, <1>27, <1>29, CountedFrame
<1>32. Locks(w)
  BY <1>27, <1>29, <1>26, LocksFrame
<1> QED BY <1>9, <1>12, <1>13, <1>17, <1>30, <1>31, <1>32

-----------------------------------------------------------------------------
(* The whole invariant.                                                    *)
Books(s, age) == Base(s, age) /\ Traffic(s, age) /\ Account(s) /\ Counted(s) /\ Locks(s)

\* Nothing is under way.
Quiet(s) ==
    /\ s.cmdBus = NoCMD /\ s.readData = NoCMD /\ s.dataBus = NoCMD /\ s.atomicCMD = NoCMD
    /\ s.reads = <<>> /\ s.writeData = <<>> /\ s.pendingRead = <<>> /\ s.up = <<>> /\ s.down = <<>>
    /\ s.converted = <<>> /\ s.pendingDataSize = 0 /\ s.error = FALSE
    /\ \A b \in Banks : s.queue[b] = <<>> /\ s.lock[b] = NoTag

\* Nothing under way weighs nothing.
LEMMA QuietLoad ==
  ASSUME NEW s, Quiet(s), NEW W \in Weights
  PROVE  ReadLoad(W, s) = 0 /\ WriteLoad(W, s) = 0 /\ W[s.atomicCMD] = 0
<1>1. W[NoCMD] = 0 /\ OfCmds(W) \in [Pending -> Nat]
  BY WeightsHave
<1>2. Total(OfCmds(W), <<>>) = 0
  BY <1>1, SumEmpty
<1> QED BY <1>1, <1>2, CloserHas DEF Quiet, ReadLoad, WriteLoad

\* Empty pipelines.
LEMMA QuietTraffic ==
  ASSUME NEW s, Quiet(s), NEW age
  PROVE  Traffic(s, age)
<1>1. s.writeData = Joined(<<>>, s.cmdBus, "WRITE", WL)
  BY CloserHas DEF Quiet, Joined
<1>2. PICK q : q = <<>>
  OBVIOUS
<1>3. q \in Seq(Pending) /\ Len(q) = 0 /\ s.reads = q /\ s.writeData = Joined(q, s.cmdBus, "WRITE", WL)
  BY <1>1, <1>2 DEF Quiet
<1>4. s.readData = NoCMD /\ s.dataBus = NoCMD
  BY DEF Quiet
<1>5. \A e, n : Line(q, e, n, age)
  BY <1>3 DEF Line
<1>6. \A e, n, l : Busy(NoCMD, l, q, e, n, age)
  BY DEF Busy
<1>7. Apart(s.reads, s.readData, s.readLeft, q, s.dataBus, s.dataLeft)
  BY <1>3, <1>4 DEF Apart
<1>8. Lanes(s.reads, s.readData, s.readLeft, q, s.dataBus, s.dataLeft, age)
  BY <1>3, <1>4, <1>5, <1>6, <1>7 DEF Lanes
<1>9. AtomicTurn(s)
  BY DEF Quiet, AtomicTurn
<1> QED BY <1>3, <1>8, <1>9 DEF Traffic

\* Nothing is owed.
LEMMA QuietAccount ==
  ASSUME NEW s, Quiet(s)
  PROVE  Account(s)
<1>1. Due3(s) = 0
  BY QuietLoad, OwesWeigh DEF Due3
<1>2. Size(s.up) = 0
  <2>1. Length \in [Response -> Nat]
    BY DEF Length, Response
  <2>2. PICK q : q = <<>>
    OBVIOUS
  <2>5. q \in Seq(Response) /\ Len(q) = 0
    BY <2>2
  <2>7. HasLengths(q, Length, q)
    BY <2>5 DEF HasLengths
  <2>6. Size(q) = Total(Length, q)
    BY <2>1, <2>5, <2>7, SizeIs
  <2>3. Size(<<>>) = Total(Length, <<>>)
    BY <2>2, <2>6
  <2>4. Total(Length, <<>>) = 0
    BY <2>1, SumEmpty
  <2> QED BY <2>3, <2>4 DEF Quiet
<1>3. MAX_VLT_BUF \in Nat
  BY SizeAssumption
<1> QED BY <1>1, <1>2, <1>3 DEF Account, Quiet

\* No read is awaited.
LEMMA QuietCounted ==
  ASSUME NEW s, Quiet(s)
  PROVE  Counted(s)
<1>1. ASSUME NEW t \in Tags
      PROVE  Total(Mark(t), s.pendingRead) =
                 Total(ReadOf(t), s.queue[Requests[t].bank]) + ReadLoad(ReadOf(t), s)
  <2>1. Total(Mark(t), <<>>) = 0
    BY MarkIs, SumEmpty
  <2>2. Total(ReadOf(t), <<>>) = 0
    BY ReadOfIs, SumEmpty
  <2>3. ReadLoad(ReadOf(t), s) = 0
    BY ReadOfIs, QuietLoad
  <2>4. Requests[t].bank \in Banks
    BY RequestHas
  <2> QED BY <2>1, <2>2, <2>3, <2>4 DEF Quiet
<1> QED BY <1>1 DEF Counted

\* Nothing is locked.
LEMMA QuietLocks ==
  ASSUME NEW s, Quiet(s)
  PROVE  Locks(s)
<1>1. UnderWay(s)
  <2>1. ASSUME NEW t \in Tags PROVE Flow(t, s) = 0
    BY ReadOfIs, QuietLoad DEF Flow
  <2> QED BY <2>1 DEF UnderWay
<1>2. \A b \in Banks : Len(s.queue[b]) = 0 /\ Place(s.queue[b], s.lock[b]) = 0 /\ s.lock[b] = NoTag
  BY DEF Quiet, Place
<1>3. Singles(s) /\ Places(s)
  <2>1. MAX_CMD_QUE \in Nat
    BY SizeAssumption
  <2>2. Places(s)
    BY <1>2, <2>1 DEF Places
  <2>3. Singles(s)
    BY <1>2 DEF Singles, Single
  <2> QED BY <2>2, <2>3
<1>4. Known(s)
  <2>1. Len(s.down) = 0
    BY DEF Quiet
  <2> QED BY <1>2, <2>1 DEF Known, Once, From
<1> QED BY <1>1, <1>3, <1>4 DEF Locks

\* At first nothing is under way.
LEMMA InitBooks ==
  ASSUME OpenPage, Init
  PROVE  Books(vault, since)
<1>1. Queues = Banks
  BY OpenPageIs
<1>2. Quiet(vault)
  BY <1>1 DEF Init, Quiet
<1>3. PICK s, age : s = vault /\ age = since
  OBVIOUS
<1>4. Traffic(s, age) /\ Account(s) /\ Counted(s) /\ Locks(s)
  BY <1>2, <1>3, QuietTraffic, QuietAccount, QuietCounted, QuietLocks
<1> QED BY <1>3, <1>4, InitBase DEF Books

\* What arrives from the crossbar has not arrived before.
LEMMA ReceiveBooks ==
  ASSUME OpenPage, NEW s, NEW age, Books(s, age), NEW tag \in Tags,
         tag \notin Range(s.down) \cup Range(s.converted), NEW t, t = [s EXCEPT !.down = Append(@, tag)]
  PROVE  Books(t, age)
<1>1. Base(t, age) /\ Base(s, age)
  BY ReceiveBase DEF Books
<1>2. s \in VaultSet /\ IsVault(s) /\ s.down \in Seq(Tags) /\ Traffic(s, age) /\ Account(s) /\ Counted(s)
      /\ Locks(s)
  BY <1>1, VaultSetIs DEF Base, Common, VaultHas, Books
<1>3. Same(s, t, {"down"}) /\ t.down = Append(s.down, tag)
  BY <1>2 DEF Same, IsVault, Fields
<1>4. /\ t.cmdBus = s.cmdBus /\ t.readData = s.readData /\ t.reads = s.reads /\ t.dataBus = s.dataBus
      /\ t.writeData = s.writeData /\ t.pendingRead = s.pendingRead /\ t.queue = s.queue
      /\ t.atomicCMD = s.atomicCMD /\ t.pendingDataSize = s.pendingDataSize /\ t.up = s.up /\ t.error = s.error
      /\ t.lock = s.lock /\ t.converted = s.converted
      /\ t.readLeft = s.readLeft /\ t.dataLeft = s.dataLeft /\ t.atomicOperLeft = s.atomicOperLeft
  BY <1>3 DEF Same, Fields
<1>5. \A W : ReadLoad(W, t) = ReadLoad(W, s) /\ WriteLoad(W, t) = WriteLoad(W, s)
  BY <1>4, LoadFrame
<1>6. Traffic(t, age)
  BY <1>2, <1>4 DEF Traffic, AtomicTurn
<1>7. Account(t) /\ Counted(t)
  <2>1. Account(t)
    <3>1. ReadLoad(Owes, t) = ReadLoad(Owes, s) /\ WriteLoad(Owes, t) = WriteLoad(Owes, s)
      BY <1>5
    <3> QED BY <1>2, <1>4, <3>1, AccountFrame
  <2>2. Counted(t)
    <3>1. \A W \in Weights : ReadLoad(W, t) = ReadLoad(W, s)
      BY <1>5
    <3>2. t.pendingRead = s.pendingRead /\ t.queue = s.queue /\ Counted(s)
      BY <1>2, <1>4
    <3> QED BY Zenon, <3>1, <3>2, CountedFrame
  <2> QED BY <2>1, <2>2
<1>8. UnderWay(t) /\ Singles(t) /\ Places(t)
  <2>1. ASSUME NEW x \in Tags PROVE Flow(x, t) = Flow(x, s) /\ (Holds(s, x) <=> Holds(t, x))
    BY <1>4, <1>5 DEF Flow, Holds
  <2>2. UnderWay(t)
    BY <1>2, <2>1 DEF Locks, UnderWay
  <2> QED BY <1>2, <1>4, <2>2 DEF Locks, Singles, Places
<1>9. Known(t)
  <2>1. PICK K, d, e : K = Range(s.converted) /\ d = s.down /\ e = t.down
    OBVIOUS
  <2>2. Once(d, K) /\ d \in Seq(Tags) /\ tag \notin K /\ tag \notin Range(d)
    BY <1>2, <2>1 DEF Locks, Known
  <2>3. /\ Len(e) = Len(d) + 1 /\ Len(d) \in Nat /\ e[Len(d) + 1] = tag
        /\ \A i \in 1 .. Len(d) : e[i] = d[i]
    BY <1>3, <2>1, <2>2
  <2>4. \A i \in 1 .. Len(d) : d[i] # tag
    <3>1. DOMAIN d = 1 .. Len(d)
      BY <2>2
    <3> QED BY <2>2, <3>1 DEF Range
  <2>5. \A i \in 1 .. Len(e) : i \in 1 .. Len(d) \/ i = Len(d) + 1
    BY <2>3
  <2>6. Once(e, K)
    BY <2>2, <2>3, <2>4, <2>5 DEF Once
  <2> QED BY <1>2, <1>4, <2>1, <2>6 DEF Locks, Known
<1> QED BY <1>1, <1>6, <1>7, <1>8, <1>9 DEF Books, Locks

-----------------------------------------------------------------------------
\* A Cycle keeps the books.
LEMMA CycleBooks ==
  ASSUME OpenPage, ShortBursts, Books(vault, since), NEW taken \in BOOLEAN, NEW due \in BOOLEAN, Cycle(taken, due)
  PROVE  Books(vault', since')
<1>1. PICK s, age, w, g : s = vault /\ age = since /\ w = vault' /\ g = since'
  OBVIOUS
<1>2. w = Advanced(EnablePowerdown(AtomicOperation(IssuePopped(CmdPop(Filled(s, taken, due))))))
  BY <1>1, CycleIs
<1>3. Base(s, age) /\ Traffic(s, age) /\ Account(s) /\ Counted(s) /\ Locks(s)
  BY <1>1 DEF Books
<1>4. Base(w, g) /\ g = Older(Aged(s, age))
  <2>1. Base(vault, since)
    BY DEF Books
  <2>2. Base(vault', Older(Aged(vault, since))) /\ since' = Older(Aged(vault, since))
    BY <2>1, CycleBase, AgeIs
  <2> QED BY <1>1, <2>2
<1>5. PICK u, f, p, i, a, e, k, n :
         /\ u = UpdateCountdown(s, due) /\ f = Filled(s, taken, due) /\ p = CmdPop(f)
         /\ i = IssuePopped(p) /\ a = AtomicOperation(i) /\ e = EnablePowerdown(a)
         /\ k = Clocked(e) /\ n = Ended(k)
  OBVIOUS
<1>6. Stages(s, taken, due, u, f, p, i, a, e, k, n, w)
  BY <1>2, <1>5 DEF Advanced, Stages
<1>7. Traffic(w, g)
  BY <1>3, <1>4, <1>6, CycleTraffic
<1>8. Account(w) /\ Counted(w) /\ Locks(w)
  BY <1>3, <1>6, CycleAccount
<1> QED BY <1>1, <1>4, <1>7, <1>8 DEF Books

\* The histories name requests.
Histories == served \subseteq Tags /\ answers \subseteq Tags

\* What is served or answered is a request.
LEMMA CycleHistories ==
  ASSUME OpenPage, Base(vault, since), Base(vault', since'), Histories,
         NEW taken \in BOOLEAN, NEW due \in BOOLEAN, Cycle(taken, due)
  PROVE  Histories'
<1>1. PICK s, w, age, g : s = vault /\ w = vault' /\ age = since /\ g = since'
  OBVIOUS
<1>2. served' \subseteq Tags
  <2>1. PICK c : c = w.cmdBus
    OBVIOUS
  <2>2. w \in VaultSet
    BY <1>1 DEF Base, Common
  <2>3. c \in Issued
    BY <2>1, <2>2, VaultSetIs DEF VaultHas
  <2>4. ASSUME c.type \in Writes \cup Reads PROVE c.tag \in Tags
    <3>1. c.type \in {"ACTIVATE", "READ", "WRITE"}
      BY <2>3, <2>4, IssuedHas DEF Reads, Writes
    <3>2. c \in Asked
      BY <2>3, <3>1, IssuedHas
    <3> QED BY <3>2, AskedHas
  <2>5. Serve
    BY CycleIs
  <2>6. served' = IF w.cmdBus.last /\ (w.cmdBus.type \in Writes \/ (w.cmdBus.type \in Reads /\ ~Locking(w.cmdBus)))
                  THEN served \cup {w.cmdBus.tag} ELSE served
    BY <1>1, <2>5 DEF Serve
  <2> QED BY <2>1, <2>4, <2>6 DEF Histories
<1>3. answers' \subseteq Tags
  <2>1. PICK u, m : u = UpdateCountdown(s, due) /\ m = ConvAll(u)
    OBVIOUS
  <2>2. answers' = IF taken /\ m.up # <<>> THEN answers \cup {m.up[1].tag} ELSE answers
    BY <1>1, <2>1 DEF Cycle
  <2>3. PICK f, p, i, a, e, k, n :
         /\ f = Filled(s, taken, due) /\ p = CmdPop(f)
         /\ i = IssuePopped(p) /\ a = AtomicOperation(i) /\ e = EnablePowerdown(a)
         /\ k = Clocked(e) /\ n = Ended(k)
    OBVIOUS
  <2>4. w = Advanced(EnablePowerdown(AtomicOperation(IssuePopped(CmdPop(Filled(s, taken, due))))))
    BY <1>1, CycleIs
  <2>5. Stages(s, taken, due, u, f, p, i, a, e, k, n, w)
    BY <2>1, <2>3, <2>4 DEF Advanced, Stages
  <2>6. Base(s, age)
    BY <1>1
  <2>7. u \in VaultSet
    <3>1. Staged(s, u, f, p, i, a, e, k, n, w)
      BY <2>5, <2>6, StagesType
    <3> QED BY <3>1 DEF Staged
  <2>8. m \in VaultSet
    BY <2>1, <2>7, OpenPageIs, ConvAllType
  <2>9. m.up \in Seq(Response)
    BY <2>8, VaultSetIs DEF VaultHas
  <2>10. m.up # <<>> => m.up[1] \in Response
    BY <2>9
  <2> QED BY <2>2, <2>10 DEF Histories, Response
<1> QED BY <1>2, <1>3 DEF Histories

VaultBooksKept == Books(vault, since) /\ Histories
\* Every step keeps the books.
LEMMA NextBooks ==
  ASSUME OpenPage, ShortBursts, VaultBooksKept, [Next]_vars
  PROVE  VaultBooksKept'
<1>0. Books(vault, since) /\ Histories
  BY DEF VaultBooksKept
<1>1. ASSUME NEW tag \in Tags, ReceiveDown(tag) PROVE VaultBooksKept'
  <2>1. vault' = [vault EXCEPT !.down = Append(@, tag)] /\ since' = since
        /\ served' = served /\ answers' = answers /\ tag \notin Arrived
    BY <1>1 DEF ReceiveDown
  <2>2. PICK s, t, age : s = vault /\ t = vault' /\ age = since
    OBVIOUS
  <2>3. Books(s, age) /\ tag \notin Range(s.down) \cup Range(s.converted)
        /\ t = [s EXCEPT !.down = Append(@, tag)]
    BY <1>0, <2>1, <2>2 DEF Arrived
  <2>4. Books(t, age)
    BY <2>3, ReceiveBooks
  <2>5. Histories'
    BY <1>0, <2>1 DEF Histories
  <2>6. Books(vault', since')
    BY <2>1, <2>2, <2>4
  <2> QED BY <2>5, <2>6 DEF VaultBooksKept
<1>2. ASSUME NEW taken \in BOOLEAN, NEW due \in BOOLEAN, Cycle(taken, due) PROVE VaultBooksKept'
  <2>1. Books(vault', since')
    BY <1>0, <1>2, CycleBooks
  <2>2. Base(vault, since) /\ Base(vault', since')
    BY <1>0, <2>1 DEF Books
  <2>3. Histories'
    BY <1>0, <1>2, <2>2, CycleHistories
  <2> QED BY <2>1, <2>3 DEF VaultBooksKept
<1>3. ASSUME UNCHANGED vars PROVE VaultBooksKept'
  <2>1. vault' = vault /\ since' = since /\ served' = served /\ answers' = answers
    BY <1>3 DEF vars
  <2>2. Books(vault', since')
    BY <1>0, <2>1
  <2>3. Histories'
    BY <1>0, <2>1 DEF Histories
  <2> QED BY <2>2, <2>3 DEF VaultBooksKept
<1> QED BY <1>1, <1>2, <1>3 DEF Next

-----------------------------------------------------------------------------
\* What the buses, the buffers and the queues hold.
Typed == [type : Reads \cup Writes \cup {"NONE", "ACTIVATE", "PRECHARGE", "REFRESH"},
          tag : Tags \cup {NoTag}, bank : Banks, row : Nat, last : BOOLEAN]

\* Whatever is issued has the type of a command.
LEMMA IssuedTyped == Issued \subseteq Typed
<1>1. {"READ", "WRITE", "ACTIVATE", "NONE", "PRECHARGE", "REFRESH"}
          \subseteq Reads \cup Writes \cup {"NONE", "ACTIVATE", "PRECHARGE", "REFRESH"}
  BY DEF Reads, Writes
<1>2. Asked \subseteq Typed
  <2>1. ASSUME NEW c \in Asked PROVE c \in Typed
    <3>1. c \in CommandSet
      BY DEF Asked
    <3> QED BY <1>1, <3>1, AskedHas DEF CommandSet, Typed
  <2> QED BY <2>1
<1>3. 0 \in Banks
  BY BankNumbers
<1>4. ASSUME NEW b \in Banks PROVE Closer(b) \in Typed
  BY <1>1 DEF Closer, Command, Typed
<1>5. Refresher \in Typed /\ NoCMD \in Typed
  BY <1>1, <1>3 DEF Refresher, NoCMD, Command, Typed
<1> QED BY <1>2, <1>4, <1>5 DEF Issued

\* The types.
LEMMA BooksType ==
  ASSUME OpenPage, Books(vault, since), Histories
  PROVE  TypeOK
<1>1. PICK s : s = vault
  OBVIOUS
<1>2. s \in VaultSet /\ VaultHas(s) /\ Account(s) /\ s.popped = NoCMD /\ s.fresh = {} /\ Len(s.tFAW) <= 4
      /\ since \in Ages
  BY <1>1, VaultSetIs DEF Books, Base, Common, Timed
<1>3. s.down \in Seq(Tags) /\ s.converted \in Seq(Tags) /\ s.lock \in [Banks -> Tags \cup {NoTag}]
      /\ s.issuedBank \in Banks
  BY <1>2 DEF VaultHas
<1>4. {s.cmdBus, s.dataBus, s.atomicCMD, s.readData} \subseteq Typed
  <2>1. s.cmdBus \in Issued /\ s.dataBus \in AskedWrites \cup {NoCMD}
        /\ s.atomicCMD \in AskedReads \cup {NoCMD} /\ s.readData \in AskedReads \cup {NoCMD}
    BY <1>2 DEF VaultHas
  <2>2. AskedWrites \subseteq Issued /\ AskedReads \subseteq Issued /\ NoCMD \in Issued
    BY DEF AskedWrites, AskedReads, Issued
  <2> QED BY <2>1, <2>2, IssuedTyped
<1>5. ASSUME NEW q \in Queues PROVE Range(s.queue[q]) \subseteq Typed
  <2>1. s.queue[q] \in Seq(Asked)
    BY <1>2 DEF VaultHas
  <2>2. Range(s.queue[q]) \subseteq Asked
    BY <2>1 DEF Range
  <2> QED BY <2>2, IssuedTyped DEF Issued
<1>6. s.pendingDataSize \in 0 .. MAX_VLT_BUF
  BY <1>2, AccountParts
<1>7. served \subseteq Tags /\ answers \subseteq Tags
  BY DEF Histories
<1>8. TypeOK <=>
         /\ vault.down \in Seq(Tags) /\ vault.converted \in Seq(Tags)
         /\ {vault.cmdBus, vault.dataBus, vault.atomicCMD, vault.readData} \subseteq Typed
         /\ \A q \in Queues : Range(vault.queue[q]) \subseteq Typed
         /\ vault.lock \in [Banks -> Tags \cup {NoTag}]
         /\ vault.issuedBank \in Banks /\ vault.pendingDataSize \in 0 .. MAX_VLT_BUF
         /\ vault.popped = NoCMD /\ vault.fresh = {}
         /\ Len(vault.tFAW) <= 4
         /\ served \subseteq Tags /\ answers \subseteq Tags
         /\ since \in [Events -> [Banks -> 0 .. HORIZON]]
  BY Zenon DEF TypeOK, Typed
<1> QED BY <1>1, <1>2, <1>3, <1>4, <1>5, <1>6, <1>7, <1>8 DEF Ages

\* The length of the responses owed for accesses in a buffer, as a sum.
LEMMA OwedForIs ==
  ASSUME NEW p \in Seq(Pending)
  PROVE  OwedFor(p) = Total(OfCmds(Owes), p)
<1>1. OfCmds(Owes) \in [Pending -> Nat] /\ \A x \in Pending : OfCmds(Owes)[x] = Owes[x.cmd]
  BY OwesWeigh, WeightsHave
<1>2. PICK z : z = [i \in DOMAIN p |-> [lng |-> Owed(p[i].cmd)]]
  OBVIOUS
<1>3. DOMAIN p = 1 .. Len(p) /\ Len(p) \in Nat
  OBVIOUS
<1>4. Len(z) = Len(p)
  <2>1. DOMAIN z = 1 .. Len(p)
    BY <1>2, <1>3
  <2> QED BY <1>2, <1>3, <2>1
<1>5. ASSUME NEW i \in 1 .. Len(p) PROVE OfCmds(Owes)[p[i]] = z[i].lng
  <2>1. p[i] \in Pending /\ z[i].lng = Owed(p[i].cmd)
    BY <1>2, <1>3
  <2>2. p[i].cmd \in Issued
    BY <2>1 DEF Pending, Issued
  <2> QED BY <1>1, <2>1, <2>2, OwesWeigh
<1>6. HasLengths(z, OfCmds(Owes), p)
  BY <1>4, <1>5 DEF HasLengths
<1>7. Size(z) = Total(OfCmds(Owes), p)
  BY <1>1, <1>6, SizeIs
<1> QED BY <1>2, <1>7 DEF OwedFor

\* The account of the response buffer, as ResponseRoom states it.
LEMMA BooksRoom ==
  ASSUME OpenPage, Books(vault, since)
  PROVE  ResponseRoom
<1>1. PICK s : s = vault
  OBVIOUS
<1>2. s \in VaultSet /\ VaultHas(s) /\ Account(s)
  BY <1>1, VaultSetIs DEF Books, Base, Common
<1>3. s.reads \in Seq(Pending) /\ s.writeData \in Seq(Pending)
  <2>1. PendingReads \subseteq Pending /\ PendingWrites \subseteq Pending
    BY DEF PendingReads, PendingWrites, Pending, AskedReads, AskedWrites
  <2>2. s.reads \in Seq(PendingReads) /\ s.writeData \in Seq(PendingWrites)
    BY <1>2 DEF VaultHas
  <2> QED BY <2>1, <2>2
<1>4. OwedFor(s.reads) = Total(OfCmds(Owes), s.reads) /\ OwedFor(s.writeData) = Total(OfCmds(Owes), s.writeData)
  BY <1>3, OwedForIs
<1>5. Owes[s.cmdBus] = Owed(s.cmdBus) /\ Owes[s.dataBus] = Owed(s.dataBus)
      /\ Owes[s.readData] = Owed(s.readData) /\ Owes[s.atomicCMD] = Owed(s.atomicCMD)
  <2>1. s.cmdBus \in Issued /\ s.dataBus \in Issued /\ s.readData \in Issued /\ s.atomicCMD \in Issued
    BY <1>2 DEF VaultHas, AskedWrites, AskedReads, Issued
  <2> QED BY <2>1, OwesWeigh
<1>6. s.cmdBus.type \in Writes <=> s.cmdBus.type = "WRITE"
  <2>1. s.cmdBus \in Issued
    BY <1>2 DEF VaultHas
  <2> QED BY <2>1, IssuedHas DEF Writes
<1>7. OfCmds(Owes) \in [Pending -> Nat]
  BY OwesWeigh, WeightsHave
<1>8. Total(OfCmds(Owes), s.reads) \in Nat /\ Total(OfCmds(Owes), s.writeData) \in Nat
  BY <1>3, <1>7, SumType
<1>9. Owes \in [Issued -> Nat]
  BY OwesWeigh, WeightsHave
<1>10. PICK k \in Nat, d \in Nat, r \in Nat, a \in Nat, x \in Nat, y \in Nat :
          /\ k = (IF s.cmdBus.type = "WRITE" THEN 0 ELSE Owes[s.cmdBus])
          /\ d = Owes[s.dataBus] /\ r = Owes[s.readData] /\ a = Owes[s.atomicCMD]
          /\ x = Total(OfCmds(Owes), s.reads) /\ y = Total(OfCmds(Owes), s.writeData)
  <2>1. s.cmdBus \in Issued /\ s.dataBus \in Issued /\ s.readData \in Issued /\ s.atomicCMD \in Issued
    BY <1>2 DEF VaultHas, AskedWrites, AskedReads, Issued
  <2> QED BY <1>8, <1>9, <2>1
<1>11. s.pendingDataSize = k + r + x + (d + y) + a
  BY <1>2, <1>10 DEF Account, Due3, ReadLoad, WriteLoad
<1>12. s.pendingDataSize = k + d + r + a + y + x
  BY <1>11
<1>13. s.pendingDataSize =
           (IF s.cmdBus.type \in Writes THEN 0 ELSE Owed(s.cmdBus))
               + Owed(s.dataBus) + Owed(s.readData) + Owed(s.atomicCMD)
               + OwedFor(s.writeData) + OwedFor(s.reads)
  BY <1>4, <1>5, <1>6, <1>10, <1>12
<1> QED BY <1>1, <1>2, <1>13 DEF ResponseRoom, Account

\* The bound on the command queues.
LEMMA BooksQueues ==
  ASSUME OpenPage, Books(vault, since)
  PROVE  QueueBound
<1>1. PICK s : s = vault
  OBVIOUS
<1>2. s \in VaultSet /\ Places(s)
  BY <1>1 DEF Books, Base, Common, Locks
<1>3. ASSUME NEW b \in Banks
      PROVE  Len(s.queue[b]) + (IF s.lock[b] # NoTag
                                   /\ ~\E i \in DOMAIN s.queue[b] : s.queue[b][i].tag = s.lock[b]
                                THEN 1 ELSE 0) <= MAX_CMD_QUE
  <2>1. PICK q, t : q = s.queue[b] /\ t = s.lock[b]
    OBVIOUS
  <2>2. q \in Seq(Asked)
    BY <1>2, <2>1, LockParts
  <2>3. DOMAIN q = 1 .. Len(q)
    BY <2>2
  <2>4. Lacks(q, t) <=> ~\E i \in DOMAIN q : q[i].tag = t
    BY <2>3 DEF Lacks
  <2>5. Len(q) + Place(q, t) <= MAX_CMD_QUE
    BY <1>2, <2>1 DEF Places
  <2> QED BY <2>1, <2>4, <2>5 DEF Place
<1>4. QueueBound <=>
        \A b \in Banks :
           Len(vault.queue[Q(b)])
             + (IF vault.lock[b] # NoTag
                   /\ ~\E i \in DOMAIN vault.queue[Q(b)] : vault.queue[Q(b)][i].tag = vault.lock[b]
                THEN 1 ELSE 0) <= MAX_CMD_QUE
  BY Zenon DEF QueueBound
<1> QED BY <1>1, <1>3, <1>4, OpenPageIs

(* VaultInv always holds: the simulator never exits with an ERROR, upBuffers *)
(* has room for every response that is owed, and a command queue keeps the   *)
(* place of a write-back (VaultController::Update, CommandQueue::CmdPop).     *)
THEOREM VaultInvHolds ==
  ASSUME OpenPage, ShortBursts
  PROVE  Spec => []VaultInv
<1>1. Init => VaultBooksKept
  <2>1. Init => served = {} /\ answers = {}
    BY DEF Init
  <2> QED BY <2>1, InitBooks DEF VaultBooksKept, Histories
<1>2. VaultBooksKept /\ [Next]_vars => VaultBooksKept'
  BY NextBooks
<1>3. VaultBooksKept => VaultInv
  <2> SUFFICES ASSUME VaultBooksKept PROVE VaultInv
    OBVIOUS
  <2>1. Books(vault, since) /\ Histories
    BY DEF VaultBooksKept
  <2>2. TypeOK /\ ResponseRoom /\ QueueBound
    BY <2>1, BooksType, BooksRoom, BooksQueues
  <2>3. NoErrorExit
    BY <2>1 DEF Books, Account, NoErrorExit
  <2> QED BY <2>2, <2>3 DEF VaultInv
<1> QED BY <1>1, <1>2, <1>3, PTL DEF Spec

-----------------------------------------------------------------------------
(* The order of the accesses to a row. *)
\* v: the requests in the order of their conversion.
Sooner(v, x, y) == \E i, j \in 1 .. Len(v) : i < j /\ v[i] = x /\ v[j] = y
Access(c) == c.type # "ACTIVATE"
\* The accesses to a row wait in that order.
InOrder(v, q) ==
    \A i, j \in 1 .. Len(q) :
        i < j /\ Access(q[i]) /\ Access(q[j]) /\ q[i].row = q[j].row => ~Sooner(v, q[j].tag, q[i].tag)
\* No access of another request waits that should go before t's.
Ahead(v, q, t) ==
    \A i \in 1 .. Len(q) :
        Access(q[i]) /\ q[i].row = Requests[t].row /\ q[i].tag # t => ~Sooner(v, q[i].tag, t)
\* The last access of request t waits, or t's result is still to be written back.
FinalWaits(q, t) == \E i \in 1 .. Len(q) : q[i].tag = t /\ Access(q[i]) /\ q[i].last
Waits(s, t) ==
    \/ FinalWaits(s.queue[Requests[t].bank], t)
    \/ Locker(t) /\ s.lock[Requests[t].bank] = t
Sorted(s) ==
    \A b \in Banks : /\ InOrder(s.converted, s.queue[b])
                     /\ s.lock[b] # NoTag => Ahead(s.converted, s.queue[b], s.lock[b])
\* V: the requests served.  No other is lost.
AllKept(s, V) ==
    /\ V \subseteq Range(s.converted)
    /\ \A t \in Range(s.converted) : t \in V \/ Waits(s, t)
SameRow(x, y) == Requests[x].bank = Requests[y].bank /\ Requests[x].row = Requests[y].row
\* SameRowOrder, request by request.
InTurn(v, V) == \A x, y \in Range(v) : Sooner(v, x, y) /\ y \in V /\ SameRow(x, y) => x \in V
Order(s, V) == Sorted(s) /\ AllKept(s, V) /\ InTurn(s.converted, V)

\* The request converted last is sooner than none, and changes nothing for the others.
LEMMA SoonerAppend ==
  ASSUME NEW v \in Seq(Tags), NEW tag \in Tags, tag \notin Range(v), NEW w, w = Append(v, tag)
  PROVE  /\ \A x : ~Sooner(w, tag, x)
         /\ \A x, y : y # tag /\ Sooner(w, x, y) => Sooner(v, x, y)
<1>1. PICK n : n = Len(v)
  OBVIOUS
<1>2. n \in Nat /\ Len(w) = n + 1 /\ w[n + 1] = tag /\ \A i \in 1 .. n : w[i] = v[i]
  BY <1>1
<1>3. \A i \in 1 .. n : v[i] # tag
  <2>1. \A i \in 1 .. n : v[i] \in Range(v)
    BY <1>1 DEF Range
  <2> QED BY <2>1
<1>4. ASSUME NEW x, Sooner(w, tag, x) PROVE FALSE
  <2>1. PICK i \in 1 .. n + 1, j \in 1 .. n + 1 : i < j /\ w[i] = tag
    BY <1>2, <1>4 DEF Sooner
  <2>2. i \in 1 .. n
    BY <1>2, <2>1
  <2> QED BY <1>2, <1>3, <2>1, <2>2
<1>5. ASSUME NEW x, NEW y, y # tag, Sooner(w, x, y) PROVE Sooner(v, x, y)
  <2>1. PICK i \in 1 .. n + 1, j \in 1 .. n + 1 : i < j /\ w[i] = x /\ w[j] = y
    BY <1>2, <1>5 DEF Sooner
  <2>2. j # n + 1
    BY <1>2, <1>5, <2>1
  <2>3. i \in 1 .. n /\ j \in 1 .. n
    BY <1>2, <2>1, <2>2
  <2>4. v[i] = x /\ v[j] = y
    BY <1>2, <2>1, <2>3
  <2> QED BY <1>1, <2>1, <2>3, <2>4 DEF Sooner
<1> QED BY <1>4, <1>5

\* A queue the conversion does not touch.
LEMMA AppendOrder ==
  ASSUME NEW v \in Seq(Tags), NEW tag \in Tags, tag \notin Range(v), NEW w, w = Append(v, tag),
         NEW q, From(q, Range(v))
  PROVE  /\ InOrder(v, q) => InOrder(w, q)
         /\ \A t \in Range(v) : Ahead(v, q, t) => Ahead(w, q, t)
<1>1. \A x, y : y # tag /\ Sooner(w, x, y) => Sooner(v, x, y)
  BY SoonerAppend
<1>2. \A i \in 1 .. Len(q) : q[i].tag # tag
  BY DEF From
<1>3. InOrder(v, q) => InOrder(w, q)
  BY <1>1, <1>2 DEF InOrder
<1>4. ASSUME NEW t \in Range(v), Ahead(v, q, t) PROVE Ahead(w, q, t)
  <2>1. t # tag
    OBVIOUS
  <2> QED BY <1>1, <1>4, <2>1 DEF Ahead
<1> QED BY <1>3, <1>4

\* The queue the conversion appends to.
LEMMA JoinOrder ==
  ASSUME OPEN_PAGE, NEW v \in Seq(Tags), NEW tag \in Tags, tag \notin Range(v), NEW w, w = Append(v, tag),
         NEW q \in Seq(Asked), From(q, Range(v)),
         NEW new, new = Commands(tag), NEW r, r = q \o new
  PROVE  /\ InOrder(v, q) => InOrder(w, r)
         /\ \A t \in Range(v) : Ahead(v, q, t) => Ahead(w, r, t)
         /\ FinalWaits(r, tag)
         /\ \A t : FinalWaits(q, t) => FinalWaits(r, t)
<1>1. /\ new \in Seq(Asked) /\ Len(new) = Requests[tag].cmds + 1
      /\ \A i \in 1 .. Len(new) : new[i].tag = tag
      /\ \A i \in 2 .. Len(new) : new[i].type \in {"WRITE", "READ"} /\ (new[i].last <=> i = Len(new))
  <2>1. /\ new \in Seq(Asked) /\ Len(new) = Requests[tag].cmds + 1
        /\ \A i \in 1 .. Len(new) : new[i].tag = tag
    BY CommandsIs
  <2>2. ASSUME NEW i \in 2 .. Len(new)
        PROVE  new[i].type \in {"WRITE", "READ"} /\ (new[i].last <=> i = Len(new))
    BY CommandsIs
  <2> QED BY <2>1, <2>2
<1>2. /\ r \in Seq(Asked) /\ Len(r) = Len(q) + Len(new)
      /\ \A i \in 1 .. Len(q) + Len(new) : r[i] = IF i <= Len(q) THEN q[i] ELSE new[i - Len(q)]
  BY <1>1, ConcatIs
<1>3. PICK m, n : m = Len(q) /\ n = Len(new)
  OBVIOUS
<1>4. m \in Nat /\ n \in Nat /\ n >= 2
  <2>1. Requests[tag].cmds \in Nat \ {0}
    BY RequestHas
  <2> QED BY <1>1, <1>3, <2>1
<1>5. /\ \A i \in 1 .. Len(r) : i <= m => i \in 1 .. Len(q) /\ r[i] = q[i]
      /\ \A i \in 1 .. Len(r) : ~(i <= m) => r[i].tag = tag
      /\ \A i \in 1 .. Len(q) : i \in 1 .. Len(r) /\ r[i] = q[i]
  <2>1. \A i \in 1 .. Len(r) : i <= m => i \in 1 .. Len(q) /\ r[i] = q[i]
    BY <1>2, <1>3, <1>4
  <2>2. ASSUME NEW i \in 1 .. Len(r), ~(i <= m) PROVE r[i].tag = tag
    <3>1. r[i] = new[i - m] /\ i - m \in 1 .. Len(new)
      BY <1>2, <1>3, <1>4, <2>2
    <3> QED BY <1>1, <3>1
  <2>3. \A i \in 1 .. Len(q) : i \in 1 .. Len(r) /\ r[i] = q[i]
    BY <1>2, <1>3, <1>4
  <2> QED BY <2>1, <2>2, <2>3
<1>6. /\ \A x : ~Sooner(w, tag, x)
      /\ InOrder(v, q) => InOrder(w, q)
      /\ \A t \in Range(v) : Ahead(v, q, t) => Ahead(w, q, t)
  BY SoonerAppend, AppendOrder
<1>7. ASSUME InOrder(w, q) PROVE InOrder(w, r)
  <2>1. SUFFICES ASSUME NEW i \in 1 .. Len(r), NEW j \in 1 .. Len(r), i < j,
                        Access(r[i]), Access(r[j]), r[i].row = r[j].row
                 PROVE  ~Sooner(w, r[j].tag, r[i].tag)
    BY DEF InOrder
  <2>2. CASE j <= m
    <3>1. i <= m
      BY <1>4, <2>1, <2>2
    <3>2. i \in 1 .. Len(q) /\ j \in 1 .. Len(q) /\ r[i] = q[i] /\ r[j] = q[j]
      BY <1>5, <2>2, <3>1
    <3> QED BY <1>7, <2>1, <3>2 DEF InOrder
  <2>3. CASE ~(j <= m)
    BY <1>5, <1>6, <2>3
  <2> QED BY <2>2, <2>3
<1>8. ASSUME NEW t, Ahead(w, q, t) PROVE Ahead(w, r, t)
  <2>1. SUFFICES ASSUME NEW i \in 1 .. Len(r), Access(r[i]), r[i].row = Requests[t].row, r[i].tag # t
                 PROVE  ~Sooner(w, r[i].tag, t)
    BY DEF Ahead
  <2>2. CASE i <= m
    <3>1. i \in 1 .. Len(q) /\ r[i] = q[i]
      BY <1>5, <2>2
    <3> QED BY <1>8, <2>1, <3>1 DEF Ahead
  <2>3. CASE ~(i <= m)
    BY <1>5, <1>6, <2>3
  <2> QED BY <2>2, <2>3
<1>9. FinalWaits(r, tag)
  <2>1. m + n \in 1 .. Len(r) /\ r[m + n] = new[n] /\ n \in 2 .. Len(new) /\ n \in 1 .. Len(new)
    BY <1>2, <1>3, <1>4
  <2>2. new[n].last /\ Access(new[n]) /\ new[n].tag = tag
    BY <1>1, <1>3, <2>1 DEF Access
  <2> QED BY <2>1, <2>2 DEF FinalWaits
<1>10. ASSUME NEW t, FinalWaits(q, t) PROVE FinalWaits(r, t)
  BY <1>5, <1>10 DEF FinalWaits
<1> QED BY <1>6, <1>7, <1>8, <1>9, <1>10

-----------------------------------------------------------------------------
\* What the order is about.
LEMMA OrderFrame ==
  ASSUME NEW s, NEW V, Order(s, V), NEW t, t.queue = s.queue, t.lock = s.lock, t.converted = s.converted
  PROVE  Order(t, V)
<1>1. Sorted(t)
  BY DEF Order, Sorted
<1>2. AllKept(t, V)
  BY DEF Order, AllKept, Waits
<1> QED BY <1>1, <1>2 DEF Order

\* A conversion keeps the order.
LEMMA ConvOrder ==
  ASSUME OpenPage, NEW s \in VaultSet, Locks(s), NEW V, Order(s, V), NEW i \in 1 .. Len(s.down),
         NEW t, t = ConvPacketIntoCMDs(s, i)
  PROVE  Order(t, V)
<1>0. OPEN_PAGE /\ (\A b \in Banks : Q(b) = b)
  BY OpenPageIs
<1>1. IsVault(s)
  BY VaultSetIs
<1>2. PICK tag, b, v, w : tag = s.down[i] /\ b = Requests[tag].bank /\ v = s.converted /\ w = t.converted
  OBVIOUS
<1>3. /\ s.queue \in [Banks -> Seq(Asked)] /\ s.lock \in [Banks -> Tags \cup {NoTag}]
      /\ s.down \in Seq(Tags) /\ v \in Seq(Tags)
  BY <1>2, LockParts
<1>4. PICK K, L : K = Range(v) /\ L = Range(w)
  OBVIOUS
<1>5. Converts(s, t, i, tag, b)
  BY <1>1, <1>2, ConvFrame
<1>6. w = Append(v, tag)
  BY <1>2, <1>5 DEF Converts
<1>7. tag \in Tags /\ tag \notin K /\ L = K \cup {tag}
  <2>1. Once(s.down, K)
    BY <1>2, <1>4 DEF Locks, Known
  <2>2. tag \in Tags /\ tag \notin K
    BY <1>2, <1>3, <2>1 DEF Once
  <2>3. PICK M : M = K \cup {tag}
    OBVIOUS
  <2>4. L = M
    BY <1>3, <1>4, <1>6, <2>2, <2>3, AppendRange
  <2> QED BY <2>2, <2>3, <2>4
<1>8. b \in Banks
  BY <1>2, <1>7, RequestHas
<1>9. PICK q, new, r : q = s.queue[b] /\ new = Commands(tag) /\ r = q \o new
  OBVIOUS
<1>10. t.queue = [s.queue EXCEPT ![b] = r] /\ t.lock = s.lock
  <2>1. Same(s, t, {"queue", "fresh", "down", "converted", "pendingRead"})
    BY <1>5 DEF Converts
  <2>2. t.queue = [s.queue EXCEPT ![b] = r]
    BY <1>0, <1>5, <1>8, <1>9 DEF Converts
  <2> QED BY <2>1, <2>2 DEF Same, Fields
<1>11. t.queue[b] = r /\ \A d \in Banks : d # b => t.queue[d] = s.queue[d]
  BY <1>3, <1>8, <1>10
<1>12. \A d \in Banks : From(s.queue[d], Range(v)) /\ (s.lock[d] # NoTag => s.lock[d] \in Range(v))
  BY <1>2 DEF Locks, Known
<1>13. /\ InOrder(v, q) => InOrder(w, r)
       /\ \A x \in Range(v) : Ahead(v, q, x) => Ahead(w, r, x)
       /\ FinalWaits(r, tag)
       /\ \A x : FinalWaits(q, x) => FinalWaits(r, x)
  <2>1. q \in Seq(Asked) /\ From(q, Range(v)) /\ tag \notin Range(v)
    BY <1>3, <1>4, <1>7, <1>8, <1>9, <1>12
  <2>2. OPEN_PAGE /\ v \in Seq(Tags) /\ tag \in Tags /\ w = Append(v, tag)
        /\ new = Commands(tag) /\ r = q \o new
    BY <1>0, <1>3, <1>6, <1>7, <1>9
  <2>3. InOrder(v, q) => InOrder(w, r)
    BY <2>1, <2>2, JoinOrder
  <2>4. \A x \in Range(v) : Ahead(v, q, x) => Ahead(w, r, x)
    BY <2>1, <2>2, JoinOrder
  <2>5. FinalWaits(r, tag)
    BY <2>1, <2>2, JoinOrder
  <2>6. ASSUME NEW x, FinalWaits(q, x) PROVE FinalWaits(r, x)
    BY <2>1, <2>2, <2>6, JoinOrder
  <2> QED BY <2>3, <2>4, <2>5, <2>6
<1>14. Sorted(s) /\ AllKept(s, V) /\ InTurn(v, V)
  BY <1>2 DEF Order
<1>15. Sorted(t)
  <2>1. ASSUME NEW d \in Banks
        PROVE  InOrder(w, t.queue[d]) /\ (t.lock[d] # NoTag => Ahead(w, t.queue[d], t.lock[d]))
    <3>1. InOrder(v, s.queue[d]) /\ (s.lock[d] # NoTag => Ahead(v, s.queue[d], s.lock[d]))
      BY <1>2, <1>14 DEF Sorted
    <3>2. CASE d = b
      BY <1>9, <1>10, <1>11, <1>12, <1>13, <3>1, <3>2
    <3>3. CASE d # b
      <4>1. /\ InOrder(v, s.queue[d]) => InOrder(w, s.queue[d])
            /\ \A x \in Range(v) : Ahead(v, s.queue[d], x) => Ahead(w, s.queue[d], x)
        <5>1. PICK z : z = s.queue[d]
          OBVIOUS
        <5>2. From(z, Range(v)) /\ tag \notin Range(v)
          BY <1>4, <1>7, <1>12, <5>1
        <5> QED BY <1>3, <1>6, <1>7, <5>1, <5>2, AppendOrder
      <4> QED BY <1>10, <1>11, <1>12, <3>1, <3>3, <4>1
    <3> QED BY <3>2, <3>3
  <2> QED BY <1>2, <2>1 DEF Sorted
<1>16. ASSUME NEW x \in Tags, Waits(s, x) PROVE Waits(t, x)
  <2>1. PICK d : d = Requests[x].bank
    OBVIOUS
  <2>2. d \in Banks
    BY <2>1, RequestHas
  <2>3. FinalWaits(s.queue[d], x) => FinalWaits(t.queue[d], x)
    BY <1>9, <1>11, <1>13, <2>2
  <2> QED BY <1>10, <1>16, <2>1, <2>3 DEF Waits
<1>17. AllKept(t, V)
  <2>1. V \subseteq L
    BY <1>2, <1>4, <1>7, <1>14 DEF AllKept
  <2>2. Waits(t, tag)
    BY <1>2, <1>11, <1>13 DEF Waits
  <2>3. ASSUME NEW x \in K PROVE x \in V \/ Waits(t, x)
    <3>1. x \in Tags
      BY <1>3, <1>4 DEF Range
    <3>2. x \in V \/ Waits(s, x)
      BY <1>2, <1>4, <1>14 DEF AllKept
    <3> QED BY <1>16, <3>1, <3>2
  <2> QED BY <1>2, <1>4, <1>7, <2>1, <2>2, <2>3 DEF AllKept
<1>18. InTurn(w, V)
  <2>1. SUFFICES ASSUME NEW x \in L, NEW y \in L, Sooner(w, x, y), y \in V, SameRow(x, y)
                 PROVE  x \in V
    BY <1>4 DEF InTurn
  <2>2. y \in K
    BY <1>2, <1>4, <1>14, <2>1 DEF AllKept
  <2>3. /\ \A z : ~Sooner(w, tag, z)
        /\ \A z, z1 : z1 # tag /\ Sooner(w, z, z1) => Sooner(v, z, z1)
    BY <1>3, <1>4, <1>6, <1>7, SoonerAppend
  <2>4. x # tag /\ Sooner(v, x, y)
    BY <1>7, <2>1, <2>2, <2>3
  <2>5. x \in K
    BY <1>7, <2>4
  <2> QED BY <1>4, <1>14, <2>1, <2>2, <2>4, <2>5 DEF InTurn
<1> QED BY <1>2, <1>15, <1>17, <1>18 DEF Order

\* All conversions of a cycle.
LEMMA FilledOrder ==
  ASSUME OpenPage, NEW u \in VaultSet, NEW s, NEW due, u = UpdateCountdown(s, due), Locks(u),
         NEW V, Order(u, V), NEW taken \in BOOLEAN, NEW f, f = Filled(s, taken, due)
  PROVE  Order(f, V)
<1>1. PICK m : m = ConvAll(u)
  OBVIOUS
<1> DEFINE S == {x \in VaultSet : Locks(x) /\ Order(x, V)}
<1>2. u \in S /\ S \in SUBSET VaultSet
  OBVIOUS
<1>3. ASSUME NEW x \in S, NEW i \in 1 .. Len(x.down),
             AvailableSpace(x, Requests[x.down[i]].bank, Requests[x.down[i]].cmds + 1)
      PROVE  ConvPacketIntoCMDs(x, i) \in S
  <2>1. PICK y : y = ConvPacketIntoCMDs(x, i)
    OBVIOUS
  <2>2. x \in VaultSet /\ Locks(x) /\ Order(x, V)
    OBVIOUS
  <2>3. y \in VaultSet
    BY <2>1, <2>2, OpenPageIs, ConvType
  <2>4. Locks(y)
    BY <1>3, <2>1, <2>2, ConvLocks
  <2>5. Order(y, V)
    BY <1>3, <2>1, <2>2, ConvOrder
  <2> QED BY <2>1, <2>3, <2>4, <2>5
<1> HIDE DEF S
<1>4. m \in S
  BY <1>1, <1>2, <1>3, ConversionsStay
<1>5. m \in VaultSet /\ Order(m, V)
  BY <1>4 DEF S
<1>6. f = Sent(m, taken)
  BY <1>1 DEF Filled
<1>7. Same(m, f, {"up"})
  BY <1>5, <1>6, SentIs
<1>8. f.queue = m.queue /\ f.lock = m.lock /\ f.converted = m.converted
  BY <1>7 DEF Same, Fields
<1> QED BY <1>5, <1>8, OrderFrame

-----------------------------------------------------------------------------
\* Taking commands away changes no order.
LEMMA WithinOrder ==
  ASSUME NEW v, NEW q, NEW r, NEW lo, NEW hi, Within(r, q, lo, hi)
  PROVE  /\ InOrder(v, q) => InOrder(v, r)
         /\ \A t : Ahead(v, q, t) => Ahead(v, r, t)
<1>1. PICK d : d = hi - lo + 1
  OBVIOUS
<1>2. lo \in Nat /\ d \in Nat
  BY <1>1 DEF Within
<1>3. ASSUME InOrder(v, q) PROVE InOrder(v, r)
  <2>1. SUFFICES ASSUME NEW i \in 1 .. Len(r), NEW j \in 1 .. Len(r), i < j,
                        Access(r[i]), Access(r[j]), r[i].row = r[j].row
                 PROVE  ~Sooner(v, r[j].tag, r[i].tag)
    BY DEF InOrder
  <2>2. PICK m, n : m = (IF i < lo THEN i ELSE i + d) /\ n = (IF j < lo THEN j ELSE j + d)
    OBVIOUS
  <2>3. m \in 1 .. Len(q) /\ r[i] = q[m]
    BY <1>1, <2>2, WithinIs
  <2>4. n \in 1 .. Len(q) /\ r[j] = q[n]
    BY <1>1, <2>2, WithinIs
  <2>5. m < n
    BY <1>2, <2>1, <2>2
  <2> QED BY <1>3, <2>1, <2>3, <2>4, <2>5 DEF InOrder
<1>4. ASSUME NEW t, Ahead(v, q, t) PROVE Ahead(v, r, t)
  <2>1. SUFFICES ASSUME NEW i \in 1 .. Len(r), Access(r[i]), r[i].row = Requests[t].row, r[i].tag # t
                 PROVE  ~Sooner(v, r[i].tag, t)
    BY DEF Ahead
  <2>2. PICK m : m = IF i < lo THEN i ELSE i + d
    OBVIOUS
  <2>3. m \in 1 .. Len(q) /\ r[i] = q[m]
    BY <1>1, <2>2, WithinIs
  <2> QED BY <1>4, <2>1, <2>3 DEF Ahead
<1> QED BY <1>3, <1>4

\* What is taken away is the command at hi and an ACTIVATE.
LEMMA WithinWaits ==
  ASSUME NEW q, NEW r, NEW lo, NEW hi, Within(r, q, lo, hi), hi = lo \/ hi = lo + 1,
         lo < hi => q[lo].type = "ACTIVATE", NEW k \in 1 .. Len(q), k # hi, Access(q[k])
  PROVE  \E m \in 1 .. Len(r) : r[m] = q[k]
<1>1. PICK d : d = hi - lo + 1
  OBVIOUS
<1>2. /\ Len(q) \in Nat /\ Len(r) \in Nat /\ lo \in 1 .. Len(q) /\ hi \in lo .. Len(q)
      /\ Len(r) = Len(q) - d
      /\ \A m \in 1 .. Len(r) : r[m] = IF m < lo THEN q[m] ELSE q[m + d]
  BY <1>1 DEF Within
<1>3. k < lo \/ k > hi
  BY <1>2 DEF Access
<1>4. CASE k < lo
  <2>1. k \in 1 .. Len(r)
    BY <1>1, <1>2, <1>4
  <2> QED BY <1>2, <1>4, <2>1
<1>5. CASE k > hi
  <2>1. k - d \in 1 .. Len(r) /\ ~(k - d < lo) /\ k - d + d = k
    BY <1>1, <1>2, <1>5
  <2> QED BY <1>2, <2>1
<1> QED BY <1>3, <1>4, <1>5

\* The command that is taken passes no access to its row.
FirstOfRow(q, i) == \A k \in 1 .. i - 1 : Access(q[k]) => q[k].row # q[i].row

\* An atomic that takes the lock has its turn: READ or ACTIVATE.
LEMMA LockAhead ==
  ASSUME NEW v, NEW q \in Seq(Asked), Chain(q), InOrder(v, q), NEW i \in 1 .. Len(q), FirstOfRow(q, i)
  PROVE  Ahead(v, q, q[i].tag)
<1>1. PICK t : t = q[i].tag
  OBVIOUS
<1>2. \A k \in 1 .. Len(q) : q[k].row = Requests[q[k].tag].row
  BY AskedHas
<1>3. SUFFICES ASSUME NEW k \in 1 .. Len(q), Access(q[k]), q[k].row = Requests[t].row, q[k].tag # t
               PROVE  ~Sooner(v, q[k].tag, t)
  BY <1>1 DEF Ahead
<1>4. k \in Int /\ i \in Int /\ Len(q) \in Nat
  OBVIOUS
<1>5. q[k].row = q[i].row
  BY <1>1, <1>2, <1>3
<1>6. ~(k < i)
  <2>1. SUFFICES ASSUME k < i PROVE FALSE
    OBVIOUS
  <2>2. k \in 1 .. i - 1
    BY <1>4, <2>1
  <2> QED BY <1>3, <1>5, <2>2 DEF FirstOfRow
<1>7. k # i
  BY <1>1, <1>3
<1>8. CASE Access(q[i])
  <2>1. i < k
    BY <1>4, <1>6, <1>7
  <2> QED BY <1>1, <1>3, <1>5, <1>8, <2>1 DEF InOrder
<1>9. CASE ~Access(q[i])
  <2>1. i < Len(q) /\ Access(q[i + 1]) /\ q[i + 1].tag = t
    BY <1>1, <1>9 DEF Chain, Access
  <2>2. i + 1 \in 1 .. Len(q)
    BY <1>4, <2>1
  <2>3. q[i + 1].row = q[k].row
    BY <1>2, <1>3, <2>1, <2>2
  <2>4. k # i + 1
    BY <1>3, <2>1
  <2>5. i + 1 < k
    BY <1>4, <1>6, <1>7, <2>4
  <2> QED BY <1>3, <2>1, <2>2, <2>3, <2>5 DEF InOrder
<1> QED BY <1>8, <1>9

\* The requests served, once command c goes out (Serve).
After(V, c) ==
    IF c.last /\ (c.type \in Writes \/ (c.type \in Reads /\ ~Locking(c))) THEN V \cup {c.tag} ELSE V
\* Command i of bank b goes out: c.
Leaves(f, t, b, i, c) ==
    /\ b \in Banks /\ i \in 1 .. Len(f.queue[b]) /\ c = f.queue[b][i]
    /\ t.queue = [f.queue EXCEPT ![b] = Rest(f.queue[b], i)]
    /\ t.lock = [f.lock EXCEPT ![b] = Holder(f, b, c)]
    /\ f.lock[b] # NoTag => i = 1 /\ c.tag = f.lock[b]
    /\ f.lock[b] = NoTag => ~DependencyFound(f.queue[b], i)
    /\ t.converted = f.converted
\* DependencyFound has looked at what stands in front of it.
LEMMA LeavesFirst ==
  ASSUME OpenPage, NEW f \in VaultSet, Orderly(f), NEW t, NEW b, NEW i, NEW c, Leaves(f, t, b, i, c)
  PROVE  FirstOfRow(f.queue[b], i)
<1>1. PICK q : q = f.queue[b]
  OBVIOUS
<1>2. b \in Banks /\ i \in 1 .. Len(q) /\ OPEN_PAGE
  BY <1>1, OpenPageIs DEF Leaves
<1>3. \A k \in 1 .. Len(q) : q[k].bank = b
  BY <1>1, <1>2 DEF Orderly
<1>4. Len(q) \in Nat
  <2>1. q \in Seq(Asked)
    BY <1>1, <1>2, LockParts
  <2> QED BY <2>1
<1>5. SUFFICES ASSUME NEW k \in 1 .. i - 1, Access(q[k]), q[k].row = q[i].row PROVE FALSE
  BY <1>1 DEF FirstOfRow
<1>6. i # 1
  BY <1>5
<1>7. ~DependencyFound(q, i)
  BY <1>1, <1>6 DEF Leaves
<1>8. k \in 1 .. Len(q)
  BY <1>2, <1>4
<1>9. q[k].bank = q[i].bank
  BY <1>2, <1>3, <1>8
<1> QED BY <1>2, <1>5, <1>7, <1>9 DEF DependencyFound, Access

-----------------------------------------------------------------------------
\* The command that goes out was the next of its row.
LEMMA LeavesOrder ==
  ASSUME OpenPage, NEW f \in VaultSet, Orderly(f), Locks(f), NEW V, Order(f, V),
         NEW t, NEW b, NEW i, NEW c, Leaves(f, t, b, i, c)
  PROVE  Order(t, After(V, c))
<1>1. /\ f.queue \in [Banks -> Seq(Asked)] /\ f.lock \in [Banks -> Tags \cup {NoTag}]
      /\ f.converted \in Seq(Tags) /\ Queues = Banks
  BY LockParts, OpenPageIs
<1>2. PICK q, r, v, K : q = f.queue[b] /\ r = Rest(q, i) /\ v = f.converted /\ K = Range(f.converted)
  OBVIOUS
<1>3. /\ b \in Banks /\ i \in 1 .. Len(q) /\ c = q[i] /\ q \in Seq(Asked)
      /\ t.queue = [f.queue EXCEPT ![b] = r] /\ t.lock = [f.lock EXCEPT ![b] = Holder(f, b, c)]
      /\ f.lock[b] # NoTag => i = 1 /\ c.tag = f.lock[b]
      /\ t.converted = v
  BY <1>1, <1>2 DEF Leaves
<1>4. Chain(q) /\ From(q, K) /\ InOrder(v, q) /\ (f.lock[b] # NoTag => Ahead(v, q, f.lock[b]))
  BY <1>1, <1>2, <1>3 DEF Orderly, Chains, Locks, Known, Order, Sorted
<1>5. /\ t.queue[b] = r /\ \A d \in Banks : d # b => t.queue[d] = f.queue[d]
      /\ t.lock[b] = Holder(f, b, c) /\ \A d \in Banks : d # b => t.lock[d] = f.lock[d]
  BY <1>1, <1>3
<1>6. r \in Seq(Asked) /\ \E lo \in {i - 1, i} : Cut(q, r, lo, i)
  BY <1>2, <1>3, <1>4, RestCuts
<1>7. PICK lo : Cut(q, r, lo, i)
  BY <1>6
<1>8. Within(r, q, lo, i)
  BY <1>3, <1>6, <1>7, CutWithin
<1>9. c \in Asked
  BY <1>3
<1>10. /\ Locking(c) <=> Locker(c.tag)
       /\ c.tag \in Tags /\ c.tag # NoTag /\ c.bank = Requests[c.tag].bank /\ c.row = Requests[c.tag].row
       /\ c.type \in {"ACTIVATE", "READ", "WRITE"}
       /\ Locker(c.tag) => c.last
  BY <1>9, LockingIs, AskedHas
<1>11. c.tag \in K
  BY <1>3, <1>4 DEF From
<1>12. c.bank = b
  BY <1>2, <1>3 DEF Orderly
<1>13. FirstOfRow(q, i)
  BY <1>2, LeavesFirst
<1>14. PICK W : W = After(V, c)
  OBVIOUS
<1>15. /\ V \subseteq W /\ W \subseteq V \cup {c.tag}
       /\ Access(c) /\ c.last /\ c.tag \notin W => c.type = "READ" /\ Locking(c)
       /\ c.type = "WRITE" /\ c.last => c.tag \in W
       /\ c.tag \in W => c.tag \in V \/ Access(c)
  <2>1. /\ c.type \in Writes <=> c.type = "WRITE"
        /\ c.type \in Reads <=> c.type = "READ"
        /\ Access(c) <=> c.type \in {"READ", "WRITE"}
    BY <1>10 DEF Writes, Reads, Access
  <2> QED BY <1>14, <2>1 DEF After
\* The order of what is left.
<1>16. Sorted(t)
  <2>1. ASSUME NEW d \in Banks
        PROVE  InOrder(v, t.queue[d]) /\ (t.lock[d] # NoTag => Ahead(v, t.queue[d], t.lock[d]))
    <3>1. CASE d # b
      BY <1>2, <1>5, <3>1 DEF Order, Sorted
    <3>2. CASE d = b
      <4>1. InOrder(v, r) /\ \A x : Ahead(v, q, x) => Ahead(v, r, x)
        BY <1>4, <1>8, WithinOrder
      <4>2. Ahead(v, q, c.tag)
        BY <1>3, <1>4, <1>13, LockAhead
      <4>3. Holder(f, b, c) \in {NoTag, c.tag, f.lock[b]}
        BY DEF Holder
      <4> QED BY <1>4, <1>5, <3>2, <4>1, <4>2, <4>3
    <3> QED BY <3>1, <3>2
  <2> QED BY <1>3, <2>1 DEF Sorted
\* Who waits goes on waiting, or is served.
<1>17. ASSUME NEW x \in K, Waits(f, x) PROVE x \in W \/ Waits(t, x)
  <2>1. PICK d : d = Requests[x].bank
    OBVIOUS
  <2>2. x \in Tags /\ d \in Banks /\ x # NoTag
    <3>1. x \in Tags
      BY <1>1, <1>2 DEF Range
    <3> QED BY <2>1, <3>1, RequestHas
  <2>3. CASE d # b
    BY <1>5, <1>17, <2>1, <2>2, <2>3 DEF Waits
  <2>4. CASE d = b /\ FinalWaits(q, x)
    <3>1. PICK k \in 1 .. Len(q) : q[k].tag = x /\ Access(q[k]) /\ q[k].last
      BY <2>4 DEF FinalWaits
    <3>2. CASE k = i
      <4>1. SUFFICES ASSUME x \notin W PROVE Waits(t, x)
        OBVIOUS
      <4>2. c.tag = x /\ c.type = "READ" /\ Locking(c)
        BY <1>3, <1>15, <3>1, <3>2, <4>1
      <4>3. Holder(f, b, c) = x
        BY <1>3, <4>2 DEF Holder, Writes
      <4> QED BY <1>5, <1>10, <2>1, <2>2, <2>4, <4>2, <4>3 DEF Waits
    <3>3. CASE k # i
      <4>1. (i = lo \/ i = lo + 1) /\ (lo < i => q[lo].type = "ACTIVATE")
        BY <1>7 DEF Cut
      <4>2. \E m \in 1 .. Len(r) : r[m] = q[k]
        BY <1>8, <3>1, <3>3, <4>1, WithinWaits
      <4>3. FinalWaits(r, x)
        BY <3>1, <4>2 DEF FinalWaits
      <4> QED BY <1>5, <2>1, <2>2, <2>4, <4>3 DEF Waits
    <3> QED BY <3>2, <3>3
  <2>5. CASE d = b /\ Locker(x) /\ f.lock[b] = x
    <3>1. c.tag = x /\ c.last
      BY <1>3, <1>10, <2>2, <2>5
    <3>2. CASE c.type = "WRITE"
      BY <1>15, <3>1, <3>2
    <3>3. CASE c.type # "WRITE"
      <4>1. Holder(f, b, c) = x
        BY <1>10, <2>2, <2>5, <3>3 DEF Holder, Writes
      <4> QED BY <1>5, <2>1, <2>2, <2>5, <4>1 DEF Waits
    <3> QED BY <3>2, <3>3
  <2> QED BY <1>2, <1>17, <2>1, <2>3, <2>4, <2>5 DEF Waits
<1>18. AllKept(t, W)
  <2>1. V \subseteq K /\ \A x \in K : x \in V \/ Waits(f, x)
    BY <1>2 DEF Order, AllKept
  <2>2. W \subseteq K
    BY <1>11, <1>15, <2>1
  <2> QED BY <1>2, <1>3, <1>15, <1>17, <2>1, <2>2 DEF AllKept
\* Who is served has its turn.
<1>19. InTurn(v, W)
  <2>1. SUFFICES ASSUME NEW x \in K, NEW y \in K, Sooner(v, x, y), y \in W, SameRow(x, y), x \notin W
                 PROVE  FALSE
    BY <1>2 DEF InTurn
  <2>2. y \notin V
    <3>1. InTurn(v, V) /\ x \notin V
      BY <1>2, <1>15, <2>1 DEF Order
    <3> QED BY <1>2, <2>1, <3>1 DEF InTurn
  <2>3. y = c.tag /\ Access(c)
    BY <1>15, <2>1, <2>2
  <2>4. x # c.tag
    BY <2>1, <2>3
  <2>5. Waits(f, x)
    BY <1>2, <1>15, <2>1 DEF Order, AllKept
  <2>6. Requests[x].bank = b /\ Requests[x].row = c.row
    BY <1>10, <1>12, <2>1, <2>3 DEF SameRow
  <2>7. x # NoTag
    <3>1. x \in Tags
      BY <1>1, <1>2 DEF Range
    <3> QED BY <3>1, RequestHas
  <2>8. f.lock[b] # x
    BY <1>3, <2>4, <2>7
  <2>9. PICK k \in 1 .. Len(q) : q[k].tag = x /\ Access(q[k])
    BY <1>2, <2>5, <2>6, <2>8 DEF Waits, FinalWaits
  <2>10. q[k].row = c.row
    BY <1>3, <2>6, <2>9, AskedHas
  <2>11. ~(k < i)
    <3>1. SUFFICES ASSUME k < i PROVE FALSE
      OBVIOUS
    <3>2. k \in 1 .. i - 1
      BY <1>3, <3>1
    <3> QED BY <1>3, <1>13, <2>9, <2>10, <3>2 DEF FirstOfRow
  <2>12. k # i
    BY <1>3, <2>4, <2>9
  <2>13. i < k
    BY <1>3, <2>11, <2>12
  <2> QED BY <1>3, <1>4, <2>1, <2>3, <2>9, <2>10, <2>13 DEF InOrder
<1> QED BY <1>3, <1>14, <1>16, <1>18, <1>19 DEF Order

-----------------------------------------------------------------------------
\* The scheduler and the command bus keep the order.
LEMMA IssueOrder ==
  ASSUME OpenPage, NEW f \in VaultSet, NEW p \in VaultSet, Pops(f, p), f.popped = NoCMD,
         p.cmdBus = NoCMD, Orderly(f), Locks(f), NEW V, Order(f, V), NEW t, t = IssuePopped(p)
  PROVE  Order(t, After(V, p.popped))
<1>1. Same(f, p, {"tFAW", "issuedBank", "popped", "queue", "lock", "rowAccess", "refreshWaiting"})
  BY PopFrame
<1>2. PICK c : c = p.popped
  OBVIOUS
<1>3. t.queue = p.queue /\ t.lock = p.lock /\ t.converted = f.converted
  <2>1. IsVault(p)
    BY VaultSetIs
  <2>2. Same(p, t, {"writeData", "pendingDataSize", "cmdBus", "cmdLeft", "popped"})
    BY <2>1, IssueFrame
  <2> QED BY <1>1, <2>2 DEF Same, Fields
<1>4. CASE NoAccess(f, p)
  <2>1. t.queue = f.queue /\ t.lock = f.lock /\ c.type \in {"NONE", "PRECHARGE", "REFRESH"}
    BY <1>2, <1>3, <1>4 DEF NoAccess
  <2>2. After(V, c) = V
    BY <2>1 DEF After, Writes, Reads
  <2> QED BY <1>2, <1>3, <2>1, <2>2, OrderFrame
<1>5. CASE \E b \in Banks : \E i \in 1 .. Len(f.queue[b]) : TakesAccess(f, p, b, i)
  <2>1. PICK b \in Banks : \E i \in 1 .. Len(f.queue[b]) : TakesAccess(f, p, b, i)
    BY <1>5
  <2>2. PICK i \in 1 .. Len(f.queue[b]) : TakesAccess(f, p, b, i)
    BY <2>1
  <2>3. Leaves(f, t, b, i, c)
    BY <1>2, <1>3, <2>2 DEF TakesAccess, Leaves
  <2> QED BY <1>2, <2>3, LeavesOrder
<1> QED BY <1>4, <1>5, PopsIs

\* The write-back goes in front of all that waits for its row.
LEMMA WriteBackOrder ==
  ASSUME OpenPage, NEW s \in VaultSet, Locks(s), NEW V, Order(s, V), NEW t, NEW c, WritesBack(s, t, c),
         t.lock = s.lock, t.converted = s.converted
  PROVE  Order(t, V)
<1>1. c \in AskedReads /\ c = s.atomicCMD /\ Locking(c)
  BY DEF WritesBack
<1>2. c \in Asked /\ c.type = "READ"
  BY <1>1 DEF AskedReads
<1>3. PICK b, back, tag, v : b = c.bank /\ back = WriteBack(c) /\ tag = c.tag /\ v = s.converted
  OBVIOUS
<1>4. Locker(tag) /\ tag \in Tags /\ tag # NoTag /\ b = Requests[tag].bank
  BY <1>1, <1>2, <1>3, LockingIs
<1>5. b \in Banks
  BY <1>4, RequestHas
<1>6. back \in Asked /\ back.tag = tag /\ back.row = Requests[tag].row
  <2>1. back \in AskedWrites /\ back.tag = tag
    BY <1>1, <1>3, OpenPageIs, WriteBackIs
  <2>2. back \in Asked
    BY <2>1 DEF AskedWrites
  <2> QED BY <2>1, <2>2, AskedHas
<1>7. s.queue \in [Banks -> Seq(Asked)]
  BY LockParts
<1>8. PICK q, r : q = s.queue[b] /\ r = <<back>> \o q
  OBVIOUS
<1>9. t.queue = [s.queue EXCEPT ![b] = r]
  BY <1>3, <1>8 DEF WritesBack
<1>10. t.queue[b] = r /\ (\A d \in Banks : d # b => t.queue[d] = s.queue[d]) /\ q \in Seq(Asked)
  BY <1>5, <1>7, <1>8, <1>9
<1>11. s.lock[b] = tag /\ Lacks(q, tag)
  <2>1. Flow(tag, s) # 0
    <3>1. ReadLoad(ReadOf(tag), s) \in Nat /\ Flow(tag, s) = ReadLoad(ReadOf(tag), s) + ReadOf(tag)[s.atomicCMD]
          /\ ReadOf(tag)[s.atomicCMD] = IF s.atomicCMD.type = "READ" /\ s.atomicCMD.tag = tag THEN 1 ELSE 0
      BY <1>4, FlowIs
    <3> QED BY <1>1, <1>2, <1>3, <3>1
  <2>2. Holds(s, tag)
    BY <1>4, <2>1, UnderWayKnown
  <2> QED BY <1>4, <1>8, <2>2 DEF Holds
<1>12. /\ Len(r) = Len(q) + 1 /\ Len(q) \in Nat /\ r[1] = back
       /\ \A j \in 1 .. Len(r) : j # 1 => j - 1 \in 1 .. Len(q) /\ r[j] = q[j - 1]
       /\ \A j \in 1 .. Len(q) : j + 1 \in 1 .. Len(r) /\ r[j + 1] = q[j]
  <2>1. Len(r) = Len(q) + 1 /\ r[1] = back /\ \A j \in 2 .. Len(r) : r[j] = q[j - 1]
    BY <1>6, <1>8, <1>10, FrontPlaces
  <2>2. Len(q) \in Nat
    BY <1>10
  <2>3. \A j \in 1 .. Len(r) : j # 1 => j - 1 \in 1 .. Len(q) /\ j \in 2 .. Len(r)
    BY <2>1, <2>2
  <2>4. \A j \in 1 .. Len(q) : j + 1 \in 1 .. Len(r) /\ j + 1 \in 2 .. Len(r) /\ j + 1 - 1 = j
    BY <2>1, <2>2
  <2> QED BY <2>1, <2>2, <2>3, <2>4
<1>13. InOrder(v, q) /\ Ahead(v, q, tag)
  BY <1>3, <1>4, <1>5, <1>8, <1>11 DEF Order, Sorted
<1>14. InOrder(v, r)
  <2>1. SUFFICES ASSUME NEW i \in 1 .. Len(r), NEW j \in 1 .. Len(r), i < j,
                        Access(r[i]), Access(r[j]), r[i].row = r[j].row
                 PROVE  ~Sooner(v, r[j].tag, r[i].tag)
    BY DEF InOrder
  <2>2. j - 1 \in 1 .. Len(q) /\ r[j] = q[j - 1]
    BY <1>12, <2>1
  <2>3. CASE i = 1
    <3>1. q[j - 1].tag # tag
      BY <1>11, <2>2 DEF Lacks
    <3> QED BY <1>6, <1>12, <1>13, <2>1, <2>2, <2>3, <3>1 DEF Ahead
  <2>4. CASE i # 1
    <3>1. i - 1 \in 1 .. Len(q) /\ r[i] = q[i - 1] /\ i - 1 < j - 1
      BY <1>12, <2>1, <2>4
    <3> QED BY <1>13, <2>1, <2>2, <3>1 DEF InOrder
  <2> QED BY <2>3, <2>4
<1>15. Ahead(v, r, tag)
  <2>1. SUFFICES ASSUME NEW i \in 1 .. Len(r), Access(r[i]), r[i].row = Requests[tag].row, r[i].tag # tag
                 PROVE  ~Sooner(v, r[i].tag, tag)
    BY DEF Ahead
  <2>2. i # 1
    BY <1>6, <1>12, <2>1
  <2>3. i - 1 \in 1 .. Len(q) /\ r[i] = q[i - 1]
    BY <1>12, <2>2
  <2> QED BY <1>13, <2>1, <2>3 DEF Ahead
<1>16. Sorted(t)
  <2>1. ASSUME NEW d \in Banks
        PROVE  InOrder(v, t.queue[d]) /\ (t.lock[d] # NoTag => Ahead(v, t.queue[d], t.lock[d]))
    <3>1. CASE d # b
      BY <1>3, <1>10, <3>1 DEF Order, Sorted
    <3>2. CASE d = b
      BY <1>10, <1>11, <1>14, <1>15, <3>2
    <3> QED BY <3>1, <3>2
  <2> QED BY <1>3, <2>1 DEF Sorted
<1>17. ASSUME NEW x \in Tags, Waits(s, x) PROVE Waits(t, x)
  <2>1. PICK d : d = Requests[x].bank
    OBVIOUS
  <2>2. d \in Banks
    BY <2>1, RequestHas
  <2>3. FinalWaits(q, x) => FinalWaits(r, x)
    BY <1>12 DEF FinalWaits
  <2>4. FinalWaits(s.queue[d], x) => FinalWaits(t.queue[d], x)
    BY <1>8, <1>10, <2>2, <2>3
  <2> QED BY <1>17, <2>1, <2>4 DEF Waits
<1>18. AllKept(t, V)
  <2>1. \A x \in Range(v) : x \in Tags
    <3>1. v \in Seq(Tags)
      BY <1>3, LockParts
    <3> QED BY <3>1 DEF Range
  <2>2. V \subseteq Range(v) /\ \A x \in Range(v) : x \in V \/ Waits(s, x)
    BY <1>3 DEF Order, AllKept
  <2> QED BY <1>3, <1>17, <2>1, <2>2 DEF AllKept
<1> QED BY <1>16, <1>18 DEF Order

\* A Cycle keeps the order.
LEMMA CycleOrder ==
  ASSUME OpenPage, ShortBursts, NEW s, NEW age, Books(s, age), NEW V, Order(s, V),
         NEW taken \in BOOLEAN, NEW due \in BOOLEAN,
         NEW u, NEW f, NEW p, NEW i, NEW a, NEW e, NEW k, NEW n, NEW w,
         Stages(s, taken, due, u, f, p, i, a, e, k, n, w)
  PROVE  Order(w, After(V, w.cmdBus))
<1>1. /\ u = UpdateCountdown(s, due) /\ f = Filled(s, taken, due) /\ p = CmdPop(f)
      /\ i = IssuePopped(p) /\ a = AtomicOperation(i) /\ e = EnablePowerdown(a)
      /\ k = Clocked(e) /\ n = Ended(k) /\ w = Begun(n)
  BY DEF Stages
<1>2. /\ Base(s, age) /\ Traffic(s, age) /\ Account(s) /\ Counted(s) /\ Locks(s)
  BY DEF Books
<1>3. /\ s \in VaultSet /\ u \in VaultSet /\ f \in VaultSet /\ p \in VaultSet /\ i \in VaultSet
      /\ a \in VaultSet /\ e \in VaultSet /\ k \in VaultSet /\ n \in VaultSet /\ w \in VaultSet
      /\ f.popped = NoCMD /\ p.cmdBus = NoCMD /\ Pops(f, p)
  <2>1. Staged(s, u, f, p, i, a, e, k, n, w)
    BY <1>2, StagesType
  <2> QED BY <2>1 DEF Staged
<1>4. Locks(u) /\ Locks(f) /\ Orderly(f) /\ Locks(i)
  BY <1>2, CycleAccount
\* UpdateCountdown and the conversions.
<1>5. Order(u, V)
  <2>1. s.cmdBus # NoCMD => s.cmdLeft = 1
    BY <1>2 DEF Base, OnBus
  <2>2. ASSUME s.cmdBus # NoCMD PROVE ReceiveCMD(s.bank, s.cmdBus) \in [Banks -> BankType]
    <3>1. s.cmdBus \in Issued
      BY <1>3, VaultSetIs DEF VaultHas
    <3>2. s.cmdBus \in Arrival /\ Arrives(s.bank, age, s.cmdBus) /\ Timed(s.bank, age)
      BY <1>2, <2>2, <3>1, IssuedHas DEF Base, Common
    <3> QED BY <3>2, ArrivalKeeps DEF Timed
  <2>3. Same(s, u, {"cmdBus", "cmdLeft", "bank", "reads", "dataBus", "dataLeft", "writeData", "up",
                        "pendingDataSize", "error", "refreshWaiting", "refreshes"})
    BY <1>1, <1>3, <2>1, <2>2, CountdownIs
  <2>4. u.queue = s.queue /\ u.lock = s.lock /\ u.converted = s.converted
    BY <2>3 DEF Same, Fields
  <2> QED BY <2>4, OrderFrame
<1>6. Order(f, V)
  BY <1>1, <1>3, <1>4, <1>5, FilledOrder
\* The command that is popped and sent.
<1>7. PICK W : W = After(V, p.popped)
  OBVIOUS
<1>8. Order(i, W)
  BY <1>1, <1>3, <1>4, <1>6, <1>7, IssueOrder
\* The atomic.
<1>9. PICK c : c = i.atomicCMD
  OBVIOUS
<1>10. a.lock = i.lock /\ a.converted = i.converted /\ (a.queue = i.queue \/ WritesBack(i, a, c))
  BY <1>1, <1>3, <1>9, AtomicIs
<1>11. Order(a, W)
  <2>1. CASE a.queue = i.queue
    BY <1>8, <1>10, <2>1, OrderFrame
  <2>2. CASE WritesBack(i, a, c)
    BY <1>3, <1>4, <1>8, <1>10, <2>2, WriteBackOrder
  <2> QED BY <1>10, <2>1, <2>2
\* Power, the clocks and the reads.
<1>12. w.queue = a.queue /\ w.lock = a.lock /\ w.converted = a.converted /\ w.cmdBus = a.cmdBus
  <2>1. IsVault(a) /\ IsVault(e)
    BY <1>3, VaultSetIs
  <2>2. Same(a, e, {"bank", "powerDown"})
    BY <1>1, <2>1, PowerFrame
  <2>3. w = Advanced(e)
    BY <1>1 DEF Advanced
  <2>4. Same(e, w, {"bank", "fresh", "readData", "readLeft", "reads", "pendingRead", "atomicCMD",
                        "atomicOperLeft", "up", "pendingDataSize", "error"})
    BY <1>3, <2>3, AdvancedIs
  <2> QED BY <2>2, <2>4 DEF Same, Fields
<1>13. a.cmdBus = p.popped
  <2>1. IsVault(p) /\ IsVault(i)
    BY <1>3, VaultSetIs
  <2>2. i.cmdBus = p.popped
    BY <1>1, <1>3, <2>1, IssueFrame
  <2>3. /\ c = NoCMD => a = i
        /\ c # NoCMD /\ i.atomicOperLeft > 0 => AtomicCounts(i, a)
        /\ c # NoCMD /\ ~(i.atomicOperLeft > 0) => AtomicEnds(i, a, c)
    BY <1>1, <1>9, <2>1, AtomicFrame
  <2>4. a = i \/ Same(i, a, {"atomicOperLeft"}) \/ Same(i, a, {"atomicCMD", "queue", "up", "pendingDataSize", "error"})
    BY <2>3 DEF AtomicCounts, AtomicEnds
  <2> QED BY <2>2, <2>4 DEF Same, Fields
<1> QED BY <1>7, <1>11, <1>12, <1>13, OrderFrame

-----------------------------------------------------------------------------
\* At first there is nothing to order.
LEMMA InitOrder ==
  ASSUME OpenPage, Init
  PROVE  Order(vault, served)
<1>1. PICK s : s = vault
  OBVIOUS
<1>2. s.converted = <<>> /\ s.queue = [q \in Queues |-> <<>>] /\ s.lock = [b \in Banks |-> NoTag] /\ served = {}
  BY <1>1 DEF Init
<1>3. Queues = Banks
  BY OpenPageIs
<1>4. Range(s.converted) = {}
  BY <1>2 DEF Range
<1>5. ASSUME NEW b \in Banks PROVE InOrder(s.converted, s.queue[b]) /\ s.lock[b] = NoTag
  <2>1. Len(s.queue[b]) = 0 /\ s.lock[b] = NoTag
    BY <1>2, <1>3
  <2>2. InOrder(s.converted, s.queue[b])
    BY <2>1 DEF InOrder
  <2> QED BY <2>1, <2>2
<1>6. Sorted(s)
  BY <1>5 DEF Sorted
<1>7. AllKept(s, served)
  BY <1>2, <1>4 DEF AllKept
<1>8. InTurn(s.converted, served)
  BY <1>4 DEF InTurn
<1> QED BY <1>1, <1>6, <1>7, <1>8 DEF Order

\* A Cycle keeps the order.
LEMMA CycleInOrder ==
  ASSUME OpenPage, ShortBursts, Books(vault, since), Order(vault, served),
         NEW taken \in BOOLEAN, NEW due \in BOOLEAN, Cycle(taken, due)
  PROVE  Order(vault', served')
<1>1. PICK s, age, w, V : s = vault /\ age = since /\ w = vault' /\ V = served
  OBVIOUS
<1>2. w = Advanced(EnablePowerdown(AtomicOperation(IssuePopped(CmdPop(Filled(s, taken, due))))))
  BY <1>1, CycleIs
<1>3. Books(s, age) /\ Order(s, V)
  BY <1>1
<1>4. PICK u, f, p, i, a, e, k, n :
         /\ u = UpdateCountdown(s, due) /\ f = Filled(s, taken, due) /\ p = CmdPop(f)
         /\ i = IssuePopped(p) /\ a = AtomicOperation(i) /\ e = EnablePowerdown(a)
         /\ k = Clocked(e) /\ n = Ended(k)
  OBVIOUS
<1>5. Stages(s, taken, due, u, f, p, i, a, e, k, n, w)
  BY <1>2, <1>4 DEF Advanced, Stages
<1>6. Order(w, After(V, w.cmdBus))
  BY <1>3, <1>5, CycleOrder
<1>7. served' = After(V, w.cmdBus)
  <2>1. Serve
    BY CycleIs
  <2> QED BY <1>1, <2>1 DEF Serve, After
<1> QED BY <1>1, <1>6, <1>7

VaultOrderKept == VaultBooksKept /\ Order(vault, served)
\* Every step keeps the order.
LEMMA NextOrder ==
  ASSUME OpenPage, ShortBursts, VaultOrderKept, [Next]_vars
  PROVE  VaultOrderKept'
<1>0. VaultBooksKept /\ Books(vault, since) /\ Order(vault, served)
  BY DEF VaultOrderKept, VaultBooksKept
<1>1. ASSUME NEW tag \in Tags, ReceiveDown(tag) PROVE Order(vault', served')
  <2>1. vault' = [vault EXCEPT !.down = Append(@, tag)] /\ served' = served
    BY <1>1 DEF ReceiveDown
  <2>2. PICK s, t, V : s = vault /\ t = vault' /\ V = served
    OBVIOUS
  <2>3. t = [s EXCEPT !.down = Append(@, tag)] /\ Order(s, V)
    BY <1>0, <2>1, <2>2
  <2>4. s \in VaultSet
    BY <1>0, <2>2 DEF Books, Base, Common
  <2>5. IsVault(s)
    BY <2>4, VaultSetIs
  <2>6. t.queue = s.queue /\ t.lock = s.lock /\ t.converted = s.converted
    BY <2>3, <2>5 DEF IsVault, Fields
  <2>7. Order(t, V)
    BY <2>3, <2>6, OrderFrame
  <2> QED BY <2>1, <2>2, <2>7
<1>2. ASSUME NEW taken \in BOOLEAN, NEW due \in BOOLEAN, Cycle(taken, due) PROVE Order(vault', served')
  BY <1>0, <1>2, CycleInOrder
<1>3. ASSUME UNCHANGED vars PROVE Order(vault', served')
  <2>1. vault' = vault /\ served' = served
    BY <1>3 DEF vars
  <2> QED BY <1>0, <2>1
<1>4. VaultBooksKept'
  BY <1>0, NextBooks
<1>5. Order(vault', served')
  BY <1>1, <1>2, <1>3 DEF Next
<1> QED BY <1>4, <1>5 DEF VaultOrderKept

\* Request by request is SameRowOrder.
LEMMA OrderServes ==
  ASSUME OpenPage, Books(vault, since), Order(vault, served)
  PROVE  SameRowOrder
<1>1. PICK c, V : c = vault.converted /\ V = served
  OBVIOUS
<1>2. c \in Seq(Tags) /\ InTurn(c, V)
  <2>1. PICK s : s = vault
    OBVIOUS
  <2>2. Locks(s) /\ s \in VaultSet
    BY <2>1 DEF Books, Base, Common
  <2>3. s.converted \in Seq(Tags)
    BY <2>2, LockParts
  <2> QED BY <1>1, <2>1, <2>3 DEF Order
<1>3. DOMAIN c = 1 .. Len(c) /\ Len(c) \in Nat
  BY <1>2
<1>4. ASSUME NEW j \in DOMAIN c, c[j] \in V, NEW i \in 1 .. j - 1,
             Requests[c[i]].bank = Requests[c[j]].bank, Requests[c[i]].row = Requests[c[j]].row
      PROVE  c[i] \in V
  <2>1. i \in 1 .. Len(c) /\ j \in 1 .. Len(c) /\ i < j
    BY <1>3, <1>4
  <2>2. Sooner(c, c[i], c[j])
    BY <2>1 DEF Sooner
  <2>3. c[i] \in Range(c) /\ c[j] \in Range(c)
    BY <1>3, <2>1 DEF Range
  <2>4. SameRow(c[i], c[j])
    BY <1>4 DEF SameRow
  <2> QED BY <1>2, <1>4, <2>2, <2>3, <2>4 DEF InTurn
<1> QED BY <1>1, <1>4 DEF SameRowOrder

(* SameRowOrder always holds: the requests to a row are served in the order   *)
(* VaultController::ConvPacketIntoCMDs converted them in, and an atomic's     *)
(* write-back before all that was converted behind it (the dependency check   *)
(* and the lock of CommandQueue::CmdPop, and the insertion at the front of    *)
(* the queue in VaultController::Update).                                     *)
THEOREM VaultSameRowOrder ==
  ASSUME OpenPage, ShortBursts
  PROVE  Spec => []SameRowOrder
<1>1. Init => VaultOrderKept
  <2>1. Init => VaultBooksKept
    <3>1. Init => served = {} /\ answers = {}
      BY DEF Init
    <3> QED BY <3>1, InitBooks DEF VaultBooksKept, Histories
  <2> QED BY <2>1, InitOrder DEF VaultOrderKept
<1>2. VaultOrderKept /\ [Next]_vars => VaultOrderKept'
  BY NextOrder
<1>3. VaultOrderKept => SameRowOrder
  BY OrderServes DEF VaultOrderKept, VaultBooksKept
<1> QED BY <1>1, <1>2, <1>3, PTL DEF Spec

=============================================================================
