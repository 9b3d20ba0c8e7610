-------------------------- MODULE ArithmeticProofs --------------------------
(***************************************************************************)
(* The arithmetic that the proofs about the protocols share: how a batch   *)
(* is divided into lanes (rf_lane_range), for every size and number of     *)
(* lanes, and what the operations on ciphertexts do to the plaintext and   *)
(* to the key, for every modulus, key, shift and coin.                     *)
(***************************************************************************)
EXTENDS AHE, LaneRange, TLAPS

-----------------------------------------------------------------------------
(***************************************************************************)
(* Lanes.                                                                  *)
(***************************************************************************)
\* The lane that carries index i: the lane of the (i+1)-th of n items.
LaneOf(n, lanes, i) == ((i + 1) * lanes - 1) \div n

\* Taking n / lanes and n % lanes apart changes nothing: a lane begins at
\* floor(n * lane / lanes).
LEMMA LaneBeginIsFloor ==
    ASSUME NEW n \in Nat, NEW lanes \in Nat \ {0}, NEW lane \in Nat
    PROVE  /\ RfLaneBegin(n, lanes, lane) \in Nat
           /\ RfLaneBegin(n, lanes, lane) * lanes <= n * lane
           /\ n * lane < (RfLaneBegin(n, lanes, lane) + 1) * lanes
  <1> DEFINE d == n \div lanes
             m == n % lanes
             f == (m * lane) \div lanes
  <1>1. d \in Nat /\ m \in Nat /\ n = d * lanes + m
    OBVIOUS
  <1>2. m * lane \in Nat
    BY <1>1
  <1>3. f \in Nat /\ f * lanes <= m * lane /\ m * lane < (f + 1) * lanes
    <2> HIDE DEF m
    <2> QED BY <1>2
  <1>4. RfLaneBegin(n, lanes, lane) = d * lane + f
    BY DEF RfLaneBegin
  <1> HIDE DEF d, m, f
  <1>5. n * lane = d * lane * lanes + m * lane
    BY <1>1
  <1>6. d * lane \in Nat
    BY <1>1
  <1>7. (d * lane + f) * lanes = d * lane * lanes + f * lanes
    BY <1>3, <1>6
  <1>8. (d * lane + f + 1) * lanes = d * lane * lanes + (f + 1) * lanes
    BY <1>3, <1>6
  <1> QED BY <1>2, <1>3, <1>4, <1>5, <1>6, <1>7, <1>8

\* Consecutive lanes touch.
LEMMA LanesTouch ==
    ASSUME NEW n \in Nat, NEW lanes \in Nat \ {0}, NEW lane \in Nat
    PROVE  RfLaneEnd(n, lanes, lane) = RfLaneBegin(n, lanes, lane + 1)
  BY DEF RfLaneEnd, RfLaneBegin

\* The first lane begins at 0 and the last one ends at n.
THEOREM LanesCoverEnds ==
    ASSUME NEW n \in Nat, NEW lanes \in Nat \ {0}
    PROVE  RfLaneBegin(n, lanes, 0) = 0 /\ RfLaneEnd(n, lanes, lanes - 1) = n
  <1>1. RfLaneBegin(n, lanes, 0) = 0
    <2> DEFINE b == RfLaneBegin(n, lanes, 0)
    <2>1. b \in Nat /\ b * lanes <= n * 0
      BY LaneBeginIsFloor
    <2> HIDE DEF b
    <2>2. b * lanes <= 0
      BY <2>1
    <2>3. b >= 1 => b * lanes >= 1
      BY <2>1
    <2> QED BY <2>1, <2>2, <2>3 DEF b
  <1>2. RfLaneEnd(n, lanes, lanes - 1) = n
    <2> DEFINE b == RfLaneBegin(n, lanes, lanes)
    <2>1. b \in Nat /\ b * lanes <= n * lanes /\ n * lanes < (b + 1) * lanes
      BY LaneBeginIsFloor
    <2>2. RfLaneEnd(n, lanes, lanes - 1) = b
      BY LanesTouch, lanes - 1 \in Nat, (lanes - 1) + 1 = lanes
    <2> HIDE DEF b
    <2>3. b <= n
      BY <2>1
    <2>4. n < b + 1
      BY <2>1
    <2> QED BY <2>1, <2>2, <2>3, <2>4
  <1> QED BY <1>1, <1>2

\* Every index belongs to exactly one lane.
THEOREM LanesPartition ==
    ASSUME NEW n \in Nat \ {0}, NEW lanes \in Nat \ {0},
           NEW i \in 0..(n - 1), NEW lane \in 0..(lanes - 1)
    PROVE  /\ LaneOf(n, lanes, i) \in 0..(lanes - 1)
           /\ (RfLaneBegin(n, lanes, lane) <= i /\ i < RfLaneEnd(n, lanes, lane))
                <=> lane = LaneOf(n, lanes, i)
  <1> DEFINE b == RfLaneBegin(n, lanes, lane)
             e == RfLaneEnd(n, lanes, lane)
             k == LaneOf(n, lanes, i)
             t == (i + 1) * lanes - 1
  <1>1. b \in Nat /\ b * lanes <= n * lane /\ n * lane < (b + 1) * lanes
    BY LaneBeginIsFloor
  <1>2. e \in Nat /\ e * lanes <= n * (lane + 1) /\ n * (lane + 1) < (e + 1) * lanes
    <2>1. e = RfLaneBegin(n, lanes, lane + 1)
      BY LanesTouch
    <2> QED BY <2>1, LaneBeginIsFloor
  <1>3. (i + 1) * lanes \in Nat /\ (i + 1) * lanes >= 1
    OBVIOUS
  <1>4. t \in Nat /\ t + 1 = (i + 1) * lanes
    BY <1>3
  <1>5. k = t \div n
    BY DEF LaneOf
  <1> HIDE DEF b, e, k, t
  <1>6. k \in Nat /\ n * k <= t /\ t < n * (k + 1)
    BY <1>4, <1>5
  <1>7. b <= i <=> n * lane <= t
    <2>1. b <= i => (b + 1) * lanes <= (i + 1) * lanes
      BY <1>1
    <2>2. b > i => (i + 1) * lanes <= b * lanes
      BY <1>1
    <2>3. n * lane \in Nat /\ b * lanes \in Nat /\ (b + 1) * lanes \in Nat
      BY <1>1
    <2> QED BY <1>1, <1>3, <1>4, <2>1, <2>2, <2>3
  <1>8. i < e <=> t < n * (lane + 1)
    <2>1. i < e => (i + 1) * lanes <= e * lanes
      BY <1>2
    <2>2. i >= e => (e + 1) * lanes <= (i + 1) * lanes
      BY <1>2
    <2>3. n * (lane + 1) \in Nat /\ e * lanes \in Nat /\ (e + 1) * lanes \in Nat
      BY <1>2
    <2> QED BY <1>2, <1>3, <1>4, <2>1, <2>2, <2>3
  <1>9. n * lane <= t /\ t < n * (lane + 1) <=> lane = k
    <2>1. lane < k => n * (lane + 1) <= n * k
      BY <1>6
    <2>2. lane > k => n * (k + 1) <= n * lane
      BY <1>6
    <2>3. n * lane \in Nat /\ n * (lane + 1) \in Nat /\ n * k \in Nat /\ n * (k + 1) \in Nat
      BY <1>6
    <2> QED BY <1>4, <1>6, <2>1, <2>2, <2>3
  <1>10. k < lanes
    <2>1. (i + 1) * lanes <= n * lanes
      OBVIOUS
    <2>2. k >= lanes => n * lanes <= n * k
      BY <1>6
    <2>3. n * lanes \in Nat /\ n * k \in Nat
      BY <1>6
    <2> QED BY <1>3, <1>4, <1>6, <2>1, <2>2, <2>3
  <1> QED BY <1>6, <1>7, <1>8, <1>9, <1>10 DEF b, e, k

\* A lane's range lies inside the batch, and may be empty.
LEMMA LaneBounds ==
    ASSUME NEW n \in Nat, NEW lanes \in Nat \ {0}, NEW lane \in 0..(lanes - 1)
    PROVE  /\ RfLaneBegin(n, lanes, lane) \in Nat /\ RfLaneEnd(n, lanes, lane) \in Nat
           /\ RfLaneBegin(n, lanes, lane) <= RfLaneEnd(n, lanes, lane)
           /\ RfLaneEnd(n, lanes, lane) <= n
  <1> DEFINE b == RfLaneBegin(n, lanes, lane)
             e == RfLaneBegin(n, lanes, lane + 1)
  <1>1. b \in Nat /\ b * lanes <= n * lane
    BY LaneBeginIsFloor
  <1>2. e \in Nat /\ e * lanes <= n * (lane + 1) /\ n * (lane + 1) < (e + 1) * lanes
    BY LaneBeginIsFloor
  <1>3. RfLaneEnd(n, lanes, lane) = e
    BY LanesTouch
  <1> HIDE DEF b, e
  <1>4. n * lane <= n * (lane + 1) /\ n * (lane + 1) <= n * lanes
    OBVIOUS
  <1>5. b * lanes < (e + 1) * lanes
    BY <1>1, <1>2, <1>4
  <1>6. b < e + 1
    BY <1>1, <1>2, <1>5
  <1>7. e * lanes <= n * lanes
    BY <1>2, <1>4
  <1>8. e <= n
    BY <1>2, <1>7
  <1> QED BY <1>1, <1>2, <1>3, <1>6, <1>8 DEF b, e

\* Some lane carries index i.
LEMMA SomeLane ==
    ASSUME NEW n \in Nat \ {0}, NEW lanes \in Nat \ {0}, NEW i \in 0..(n - 1)
    PROVE  \E lane \in 0..(lanes - 1) :
             RfLaneBegin(n, lanes, lane) <= i /\ i < RfLaneEnd(n, lanes, lane)
  <1>1. 0 \in 0..(lanes - 1)
    OBVIOUS
  <1>2. LaneOf(n, lanes, i) \in 0..(lanes - 1)
    BY <1>1, LanesPartition
  <1> QED BY <1>2, LanesPartition

-------------------------------------------------------------------------------
(***************************************************************************)
(* Transfers of a chunk [b, e) over a lane: the lane starts at SliceBegin, *)
(* ends at SliceEnd, and is at q in between.                               *)
(***************************************************************************)
\* What Reached says at the ends of the batch, and that it grows with i.
LEMMA ReachedEnds ==
    ASSUME NEW n \in Nat, NEW lanes \in Nat \ {0}, NEW lane \in 0..(lanes - 1)
    PROVE  /\ Reached(n, lanes, lane, 0) = RfLaneBegin(n, lanes, lane)
           /\ Reached(n, lanes, lane, n) = RfLaneEnd(n, lanes, lane)
           /\ \A i \in Nat : /\ Reached(n, lanes, lane, i) \in Nat
                             /\ RfLaneBegin(n, lanes, lane) <= Reached(n, lanes, lane, i)
                             /\ Reached(n, lanes, lane, i) <= RfLaneEnd(n, lanes, lane)
           /\ \A i, j \in Nat : i <= j =>
                Reached(n, lanes, lane, i) <= Reached(n, lanes, lane, j)
  <1> DEFINE f == RfLaneBegin(n, lanes, lane)
             g == RfLaneEnd(n, lanes, lane)
  <1>1. f \in Nat /\ g \in Nat /\ f <= g /\ g <= n
    BY LaneBounds
  <1>2. \A i : Reached(n, lanes, lane, i) = Least(g, Greatest(f, i))
    BY DEF Reached
  <1> HIDE DEF f, g
  <1>3. Least(g, Greatest(f, 0)) = f /\ Least(g, Greatest(f, n)) = g
    BY <1>1 DEF Least, Greatest
  <1>4. \A i \in Nat : /\ Least(g, Greatest(f, i)) \in Nat
                       /\ f <= Least(g, Greatest(f, i)) /\ Least(g, Greatest(f, i)) <= g
    BY <1>1 DEF Least, Greatest
  <1>5. \A i, j \in Nat : i <= j => Least(g, Greatest(f, i)) <= Least(g, Greatest(f, j))
    BY <1>1 DEF Least, Greatest
  <1> QED BY <1>2, <1>3, <1>4, <1>5 DEF f, g

\* Starting a transfer at b leaves a lane where everything below b is done.
LEMMA SliceStart ==
    ASSUME NEW n \in Nat, NEW lanes \in Nat \ {0}, NEW lane \in 0..(lanes - 1), NEW b \in 0..n
    PROVE  /\ SliceBegin(n, lanes, lane, b) \in 0..n
           /\ Reached(n, lanes, lane, SliceBegin(n, lanes, lane, b)) = Reached(n, lanes, lane, b)
  BY LaneBounds DEF Reached, SliceBegin, Least, Greatest

\* A lane that has done its part of the chunk is where everything below e is
\* done; one that has not is at an index of its own and of the chunk.
LEMMA SliceProgress ==
    ASSUME NEW n \in Nat, NEW lanes \in Nat \ {0}, NEW lane \in 0..(lanes - 1),
           NEW b \in Nat, NEW e \in Nat, b < e, e <= n, NEW q \in Nat,
           SliceBegin(n, lanes, lane, b) <= q,
           q <= Greatest(SliceBegin(n, lanes, lane, b), SliceEnd(n, lanes, lane, e))
    PROVE  /\ q <= n
           /\ Reached(n, lanes, lane, b) <= Reached(n, lanes, lane, q)
           /\ Reached(n, lanes, lane, q) <= Reached(n, lanes, lane, e)
           /\ q >= SliceEnd(n, lanes, lane, e) =>
                Reached(n, lanes, lane, q) = Reached(n, lanes, lane, e)
           /\ q < SliceEnd(n, lanes, lane, e) =>
                /\ b <= q /\ q < e /\ q + 1 <= n
                /\ RfLaneBegin(n, lanes, lane) <= q /\ q < RfLaneEnd(n, lanes, lane)
                /\ Reached(n, lanes, lane, q) = q /\ Reached(n, lanes, lane, q + 1) = q + 1
                /\ q + 1 <= Reached(n, lanes, lane, e)
                /\ q + 1 <= Greatest(SliceBegin(n, lanes, lane, b), SliceEnd(n, lanes, lane, e))
  <1> DEFINE f == RfLaneBegin(n, lanes, lane)
             g == RfLaneEnd(n, lanes, lane)
  <1>1. f \in Nat /\ g \in Nat /\ f <= g /\ g <= n
    BY LaneBounds
  <1>2. /\ SliceBegin(n, lanes, lane, b) = Greatest(f, b)
        /\ SliceEnd(n, lanes, lane, e) = Least(g, e)
        /\ \A i : Reached(n, lanes, lane, i) = Least(g, Greatest(f, i))
    BY DEF Reached, SliceBegin, SliceEnd
  <1> HIDE DEF f, g
  <1>3. Greatest(f, b) <= q /\ q <= Greatest(Greatest(f, b), Least(g, e))
    BY <1>2
  <1>4. q <= n
    BY <1>1, <1>3 DEF Least, Greatest
  <1>5. Least(g, Greatest(f, b)) <= Least(g, Greatest(f, q))
    BY <1>1, <1>3 DEF Least, Greatest
  <1>6. Least(g, Greatest(f, q)) <= Least(g, Greatest(f, e))
    BY <1>1, <1>3 DEF Least, Greatest
  <1>7. q >= Least(g, e) => Least(g, Greatest(f, q)) = Least(g, Greatest(f, e))
    BY <1>1, <1>3 DEF Least, Greatest
  <1>8. ASSUME q < Least(g, e)
        PROVE  /\ b <= q /\ q < e /\ q + 1 <= n /\ f <= q /\ q < g
               /\ Least(g, Greatest(f, q)) = q /\ Least(g, Greatest(f, q + 1)) = q + 1
               /\ q + 1 <= Least(g, Greatest(f, e))
               /\ q + 1 <= Greatest(Greatest(f, b), Least(g, e))
    <2>1. b <= q /\ q < e /\ f <= q /\ q < g
      BY <1>1, <1>3, <1>8 DEF Least, Greatest
    <2> QED BY <1>1, <1>3, <1>8, <2>1 DEF Least, Greatest
  <1> QED BY <1>2, <1>4, <1>5, <1>6, <1>7, <1>8 DEF f, g

-----------------------------------------------------------------------------
(***************************************************************************)
(* Ciphertexts.                                                            *)
(***************************************************************************)
\* The remainder of a division is unique.
LEMMA ModUnique ==
    ASSUME NEW z \in Nat, NEW d \in Nat, NEW r \in Residues, z = Q * d + r
    PROVE  z % Q = r
  <1> DEFINE e == z \div Q
             s == z % Q
  <1>1. e \in Nat /\ s \in 0..(Q - 1) /\ z = Q * e + s
    BY QAssumption
  <1> HIDE DEF e, s
  <1>2. r \in Nat /\ r < Q /\ s < Q /\ Q \in Nat
    BY QAssumption, <1>1 DEF Residues
  <1>3. d < e => Q * d + Q <= Q * e
    BY <1>1, <1>2
  <1>4. e < d => Q * e + Q <= Q * d
    BY <1>1, <1>2
  <1>5. Q * d \in Nat /\ Q * e \in Nat
    BY <1>1, <1>2
  <1>6. d = e
    BY <1>1, <1>2, <1>3, <1>4, <1>5
  <1>7. r = s
    BY <1>1, <1>2, <1>5, <1>6
  <1> QED BY <1>7 DEF s

\* Reducing one summand first changes nothing.
LEMMA ModAdd ==
    ASSUME NEW u \in Nat, NEW b \in Residues
    PROVE  ((u % Q) + (b % Q)) % Q = (u + b) % Q
  <1>0. Q \in Nat /\ Q > 0 /\ b \in Nat /\ b % Q = b
    BY QAssumption DEF Residues
  <1> DEFINE d == u \div Q
             v == (u % Q) + b
             e == v \div Q
             r == v % Q
  <1>1. d \in Nat /\ u % Q \in Nat /\ u = Q * d + (u % Q)
    BY <1>0
  <1>2. v \in Nat /\ u + b = Q * d + v
    BY <1>0, <1>1
  <1> HIDE DEF v, d
  <1>3. e \in Nat /\ r \in 0..(Q - 1) /\ v = Q * e + r
    BY <1>0, <1>2
  <1> HIDE DEF e, r
  <1>4. u + b = Q * (d + e) + r
    BY <1>0, <1>1, <1>2, <1>3
  <1>5. (u + b) % Q = r
    BY <1>0, <1>1, <1>3, <1>4, ModUnique, u + b \in Nat, d + e \in Nat DEF Residues
  <1> QED BY <1>0, <1>5 DEF r, v

\* A fresh encryption.
LEMMA EncryptFacts ==
    ASSUME NEW k \in Int, NEW m \in Residues, NEW s \in Int
    PROVE  Encrypt(k, m, s) \in Ciphertexts /\ Encrypts(Encrypt(k, m, s), k, m)
  <1>1. m % Q = m
    BY QAssumption DEF Residues
  <1> QED BY <1>1 DEF Encrypt, Ciphertexts, Encrypts

\* A firewall's round-1 step moves a ciphertext from its key to the shifted
\* key and keeps the plaintext, provided the randomiser is under the latter.
LEMMA ForwardMovesKey ==
    ASSUME NEW c \in Ciphertexts, NEW k \in Int, NEW rho \in Int, NEW s \in Int,
           NEW m, Encrypts(c, k, m)
    PROVE  LET d == MaulFwdRerand(c, rho, EncZero(MaulPk(k, rho), s)) IN
           d \in Ciphertexts /\ Encrypts(d, MaulPk(k, rho), m)
  <1>1. c.r \in Int /\ c.e \in Int /\ c.m \in Residues /\ c.m = m /\ c.e = k * c.r
    BY DEF Ciphertexts, Encrypts
  <1>2. k * c.r + c.r * rho + (k + rho) * s = (k + rho) * (c.r + s)
    BY <1>1
  <1> QED BY <1>1, <1>2 DEF MaulFwdRerand, EncZero, MaulPk, Ciphertexts, Encrypts

\* Its round-2 step moves a ciphertext back from the shifted key.
LEMMA BackwardMovesKey ==
    ASSUME NEW c \in Ciphertexts, NEW k \in Int, NEW rho \in Int, NEW s \in Int,
           NEW m, Encrypts(c, MaulPk(k, rho), m)
    PROVE  LET d == MaulInvRerand(c, rho, EncZero(k, s)) IN
           d \in Ciphertexts /\ Encrypts(d, k, m)
  <1>1. c.r \in Int /\ c.e \in Int /\ c.m \in Residues /\ c.m = m
        /\ c.e = (k + rho) * c.r
    BY DEF Ciphertexts, Encrypts, MaulPk
  <1>2. (k + rho) * c.r - c.r * rho + k * s = k * (c.r + s)
    BY <1>1
  <1> QED BY <1>1, <1>2 DEF MaulInvRerand, EncZero, Ciphertexts, Encrypts

\* The sender's evaluation: Enc(x) becomes Enc(a x + b) under the same key.
LEMMA EvaluateFacts ==
    ASSUME NEW c \in Ciphertexts, NEW k \in Int, NEW x \in Residues, Encrypts(c, k, x),
           NEW a \in Residues, NEW b \in Residues, NEW s \in Int
    PROVE  LET d == Add(CMult(c, a), Encrypt(k, b, s)) IN
           d \in Ciphertexts /\ Encrypts(d, k, (a * x + b) % Q)
  <1>1. c.r \in Int /\ c.m = x /\ c.e = k * c.r
    BY DEF Ciphertexts, Encrypts
  <1>2. a \in Nat /\ x \in Nat /\ b \in Nat /\ Q \in Nat /\ Q > 0
    BY QAssumption DEF Residues
  <1>3. a * x \in Nat
    BY <1>2
  <1>4. (((a * x) % Q) + (b % Q)) % Q = (a * x + b) % Q
    <2> DEFINE u == a * x
    <2>1. u \in Nat
      BY <1>3
    <2> HIDE DEF u
    <2>2. ((u % Q) + (b % Q)) % Q = (u + b) % Q
      BY <2>1, ModAdd
    <2> QED BY <2>2 DEF u
  <1>5. (a * x + b) % Q \in Residues
    BY <1>2, <1>3 DEF Residues
  <1>6. a * (k * c.r) + k * s = k * (a * c.r + s)
    BY <1>1, <1>2
  <1>7. a * c.r + s \in Int /\ a * (k * c.r) + k * s \in Int
    BY <1>1, <1>2
  <1> DEFINE d == Add(CMult(c, a), Encrypt(k, b, s))
  <1>8. d = [r |-> a * c.r + s, m |-> (a * x + b) % Q, e |-> a * (k * c.r) + k * s]
    <2>1. CMult(c, a) = [r |-> a * c.r, m |-> (a * x) % Q, e |-> a * (k * c.r)]
      BY <1>1 DEF CMult
    <2>2. Encrypt(k, b, s) = [r |-> s, m |-> b % Q, e |-> k * s]
      BY DEF Encrypt
    <2>3. d = [r |-> a * c.r + s, m |-> (((a * x) % Q) + (b % Q)) % Q,
               e |-> a * (k * c.r) + k * s]
      BY <2>1, <2>2 DEF Add
    <2> QED BY <1>4, <2>3
  <1> HIDE DEF d
  <1>9. d \in Ciphertexts /\ Encrypts(d, k, (a * x + b) % Q)
    BY <1>5, <1>6, <1>7, <1>8 DEF Ciphertexts, Encrypts
  <1> QED BY <1>9 DEF d

\* Decryption inverts encryption under the matching key.
LEMMA DecryptFacts ==
    ASSUME NEW c \in Ciphertexts, NEW k \in Int, NEW m, Encrypts(c, k, m)
    PROVE  Decrypt(k, c) = m
  BY DEF Decrypt, Encrypts

\* One OLE through both firewalls, with gamma and rho for their shifts and
\* any coins, decrypts under the receiver's own key to a x + b: what the
\* firewalls' round 2 takes back is exactly what their round 1 added, whatever
\* the sender has done in between.
THEOREM RoundTrip ==
    ASSUME NEW sk \in Int, NEW gamma \in Int, NEW rho \in Int,
           NEW x \in Residues, NEW a \in Residues, NEW b \in Residues,
           NEW r0 \in Int, NEW r1 \in Int, NEW r2 \in Int, NEW r3 \in Int,
           NEW s1 \in Int, NEW s2 \in Int
    PROVE  LET pk1 == MaulPk(sk, gamma)
               pk2 == MaulPk(pk1, rho)
               c0 == Encrypt(sk, x, r0)
               c1 == MaulFwdRerand(c0, gamma, EncZero(pk1, r1))
               c2 == MaulFwdRerand(c1, rho, EncZero(pk2, r2))
               y2 == Add(CMult(c2, a), Encrypt(pk2, b, r3))
               y1 == MaulInvRerand(y2, rho, EncZero(pk1, s1))
               y0 == MaulInvRerand(y1, gamma, EncZero(sk, s2))
           IN  Decrypt(sk, y0) = (a * x + b) % Q
  <1> DEFINE pk1 == MaulPk(sk, gamma)
             pk2 == MaulPk(pk1, rho)
             c0 == Encrypt(sk, x, r0)
             c1 == MaulFwdRerand(c0, gamma, EncZero(pk1, r1))
             c2 == MaulFwdRerand(c1, rho, EncZero(pk2, r2))
             y2 == Add(CMult(c2, a), Encrypt(pk2, b, r3))
             y1 == MaulInvRerand(y2, rho, EncZero(pk1, s1))
             y0 == MaulInvRerand(y1, gamma, EncZero(sk, s2))
             y == (a * x + b) % Q
  <1>1. pk1 \in Int /\ pk2 \in Int
    BY DEF MaulPk
  <1>2. c0 \in Ciphertexts /\ Encrypts(c0, sk, x)
    BY EncryptFacts
  <1> HIDE DEF c0
  <1>3. c1 \in Ciphertexts /\ Encrypts(c1, pk1, x)
    BY <1>2, ForwardMovesKey
  <1> HIDE DEF c1, pk1
  <1>4. c2 \in Ciphertexts /\ Encrypts(c2, pk2, x)
    BY <1>1, <1>3, ForwardMovesKey
  <1> HIDE DEF c2, pk2
  <1>5. y2 \in Ciphertexts /\ Encrypts(y2, pk2, y)
    BY <1>1, <1>4, EvaluateFacts
  <1> HIDE DEF y2, y
  <1>6. y1 \in Ciphertexts /\ Encrypts(y1, pk1, y)
    BY <1>1, <1>5, BackwardMovesKey DEF pk2
  <1> HIDE DEF y1
  <1>7. y0 \in Ciphertexts /\ Encrypts(y0, sk, y)
    BY <1>1, <1>6, BackwardMovesKey DEF pk1
  <1> HIDE DEF y0
  <1>8. Decrypt(sk, y0) = y
    BY <1>7, DecryptFacts
  <1> QED BY <1>8 DEF y0, y1, y2, c0, c1, c2, pk1, pk2, y
-------------------------------------------------------------------------------
(***************************************************************************)
(* Blinded values: sums and products of plaintexts and of ciphertexts.     *)
(***************************************************************************)
\* Every integer is a multiple of Q and a residue.
LEMMA DivideByQ ==
    ASSUME NEW z \in Int
    PROVE  (z \div Q) \in Int /\ (z % Q) \in 0..(Q - 1) /\ z = Q * (z \div Q) + (z % Q)
  BY QAssumption

\* The remainder of a division of any integer is unique.
LEMMA RemainderUnique ==
    ASSUME NEW z \in Int, NEW d \in Int, NEW r \in Residues, z = Q * d + r
    PROVE  z % Q = r
  <1> DEFINE e == z \div Q
             s == z % Q
  <1>0. Q \in Nat /\ Q > 0
    BY QAssumption
  <1>1. e \in Int /\ s \in 0..(Q - 1) /\ z = Q * e + s
    BY DivideByQ, Zenon
  <1> HIDE DEF e, s
  <1>2. r \in Int /\ 0 <= r /\ r < Q /\ s \in Int /\ 0 <= s /\ s < Q /\ Q \in Int /\ Q > 0
    BY QAssumption, <1>1 DEF Residues
  <1>3. Q * (d - e) = s - r
    BY <1>1, <1>2
  <1>4. d - e >= 1 => Q * (d - e) >= Q
    BY <1>1, <1>2
  <1>5. e - d >= 1 => Q * (d - e) <= 0 - Q
    BY <1>1, <1>2
  <1>6. d = e
    BY <1>1, <1>2, <1>3, <1>4, <1>5
  <1>7. r = s
    BY <1>1, <1>2, <1>3, <1>6
  <1> QED BY <1>7 DEF s

\* Reducing a summand or a factor first changes nothing.
LEMMA ReduceFirst ==
    ASSUME NEW u \in Int, NEW v \in Int, NEW x \in Int
    PROVE  /\ u % Q \in Residues /\ (u % Q) \in Int
           /\ ((u % Q) + v) % Q = (u + v) % Q
           /\ ((u % Q) * x + v) % Q = (u * x + v) % Q
  <1> DEFINE d == u \div Q
             r == u % Q
  <1>1. Q \in Int /\ Q > 0 /\ d \in Int /\ r \in 0..(Q - 1) /\ u = Q * d + r
    BY QAssumption
  <1> HIDE DEF d, r
  <1>2. r \in Int /\ r \in Residues
    BY <1>1 DEF Residues
  <1>3. ASSUME NEW w \in Int, NEW c \in Int
        PROVE  (Q * c + w) % Q = w % Q
    <2> DEFINE e == w \div Q
               s == w % Q
    <2>1. e \in Int /\ s \in Residues /\ w = Q * e + s
      BY <1>1 DEF Residues
    <2> HIDE DEF e, s
    <2>2. s \in Int
      BY <2>1 DEF Residues
    <2>3. Q * c + w = Q * (c + e) + s
      BY <1>1, <2>1, <2>2
    <2>4. (Q * c + w) % Q = s
      BY <1>1, <2>1, <2>2, <2>3, RemainderUnique, Q * c + w \in Int, c + e \in Int
    <2> QED BY <2>4 DEF s
  <1>4. (u + v) % Q = (r + v) % Q
    <2>1. u + v = Q * d + (r + v)
      BY <1>1, <1>2
    <2>2. r + v \in Int
      BY <1>2
    <2> QED BY <1>1, <1>3, <2>1, <2>2
  <1>5. (u * x + v) % Q = (r * x + v) % Q
    <2>1. d * x \in Int /\ r * x + v \in Int
      BY <1>1, <1>2
    <2>2. (Q * d + r) * x = Q * (d * x) + r * x
      BY <1>1, <1>2
    <2>3. u * x + v = Q * (d * x) + (r * x + v)
      BY <1>1, <1>2, <2>1, <2>2
    <2> QED BY <1>3, <2>1, <2>3
  <1> QED BY <1>2, <1>4, <1>5 DEF r

\* Two ciphertexts under one key add up.
LEMMA AddFacts ==
    ASSUME NEW c \in Ciphertexts, NEW d \in Ciphertexts, NEW k \in Int,
           NEW u \in Residues, NEW v \in Residues, Encrypts(c, k, u), Encrypts(d, k, v)
    PROVE  Add(c, d) \in Ciphertexts /\ Encrypts(Add(c, d), k, (u + v) % Q)
  <1>1. /\ c.r \in Int /\ c.m = u /\ c.e = k * c.r
        /\ d.r \in Int /\ d.m = v /\ d.e = k * d.r
    BY DEF Ciphertexts, Encrypts
  <1>2. k * c.r + k * d.r = k * (c.r + d.r) /\ k * c.r + k * d.r \in Int /\ c.r + d.r \in Int
    BY <1>1
  <1>3. (u + v) % Q \in Residues
    BY QAssumption DEF Residues
  <1>4. Add(c, d) = [r |-> c.r + d.r, m |-> (u + v) % Q, e |-> k * c.r + k * d.r]
    BY <1>1 DEF Add
  <1> QED BY <1>2, <1>3, <1>4 DEF Ciphertexts, Encrypts

\* A ciphertext raised to the power x.
LEMMA CMultFacts ==
    ASSUME NEW c \in Ciphertexts, NEW k \in Int, NEW u \in Residues, Encrypts(c, k, u),
           NEW x \in Residues
    PROVE  CMult(c, x) \in Ciphertexts /\ Encrypts(CMult(c, x), k, (x * u) % Q)
  <1>1. c.r \in Int /\ c.m = u /\ c.e = k * c.r /\ x \in Int /\ u \in Int
    BY DEF Ciphertexts, Encrypts, Residues
  <1>2. x * (k * c.r) = k * (x * c.r) /\ x * (k * c.r) \in Int /\ x * c.r \in Int
    BY <1>1
  <1>3. x * u \in Int
    BY <1>1
  <1>4. (x * u) % Q \in Residues
    BY <1>3, ReduceFirst
  <1>5. CMult(c, x) = [r |-> x * c.r, m |-> (x * u) % Q, e |-> x * (k * c.r)]
    BY <1>1 DEF CMult
  <1> QED BY <1>2, <1>4, <1>5 DEF Ciphertexts, Encrypts
=============================================================================
