---------------------------- MODULE MsgIoProofs -----------------------------
(***************************************************************************)
(* Messages arrive whole and in order, for any messages, any number of     *)
(* them, any cuts of the byte stream and any number of connections.        *)
(*                                                                         *)
(* The first part is about byte sequences that are made of messages, the   *)
(* second about the states of the endpoints.                               *)
(***************************************************************************)
EXTENDS MsgIo, TLAPS

\* What the assumptions on the constants say, taken apart.
LEMMA Constants ==
  /\ HdrLen \in Nat \ {0} /\ PosMod \in Nat \ {0} /\ Capacity \in Nat \ {0}
  /\ MaxBreaks \in Nat
  /\ \A m \in Msg : /\ m \in Seq(Nat) /\ Len(m) \in Nat /\ Len(m) >= 1
                    /\ Len(m) >= HdrLen /\ m[1] = Len(m)
<1>1. HdrLen \in Nat \ {0} /\ \A m \in Msg : m \in Seq(Nat) /\ Len(m) >= HdrLen /\ m[1] = Len(m)
  BY MsgIoAssumption
<1>2. \A m \in Msg : Len(m) \in Nat /\ Len(m) >= 1
  <2>. SUFFICES ASSUME NEW m \in Msg PROVE Len(m) \in Nat /\ Len(m) >= 1
    OBVIOUS
  <2>1. m \in Seq(Nat) /\ Len(m) >= HdrLen
    BY <1>1
  <2>2. Len(m) \in Nat
    BY <2>1
  <2>. QED
    BY <1>1, <2>1, <2>2
<1>. QED
  BY <1>1, <1>2, MsgIoAssumption

-----------------------------------------------------------------------------
(* Byte sequences made of messages.  s are the bytes, q the messages their *)
(* sender has queued, B the places in s at which a message begins, idx[b]  *)
(* the number in q of the message that begins after place b.               *)

\* A message begins after place b and the next one at its end.
StartsAt(s, q, B, idx, b) ==
  /\ idx[b] \in 1..Len(q)
  /\ \A j \in 1..Len(q[idx[b]]) :
       j <= PosMod /\ b + j <= Len(s) => s[b + j] = q[idx[b]][j]
  /\ b + Len(q[idx[b]]) <= Len(s) =>
       b + Len(q[idx[b]]) \in B /\ idx[b] < idx[b + Len(q[idx[b]])]
  /\ \A c \in B : c > b => c >= b + Len(q[idx[b]])

Starts(s, q, B, idx) == \A b \in B : b < Len(s) => StartsAt(s, q, B, idx, b)

\* The messages r are among the first of q, in their order.
Taken(r, q, lim, f) ==
  /\ f \in [1..Len(r) -> Nat \ {0}]
  /\ \A i \in 1..Len(r) : f[i] < lim /\ Alike(r[i], q[f[i]])
  /\ \A i, j \in 1..Len(r) : i < j => f[i] < f[j]

\* All bytes of s belong to messages; a sender whose socket k is ok has put
\* the first p bytes of message sent + 1 to its end; c bytes at its beginning
\* are less than a message.
Parsed(s, q, sent, r, k, p, c, B, idx, f) ==
  /\ B \in SUBSET (0..Len(s)) /\ 0 \in B
  /\ idx \in [0..Len(s) -> 1..(sent + 1)]
  /\ Starts(s, q, B, idx)
  /\ k = "ok" => /\ Len(s) - p \in B
                 /\ p > 0 => idx[Len(s) - p] = sent + 1
  /\ c > 0 => c < Len(q[idx[0]])
  /\ Taken(r, q, idx[0], f)

Framed(s, q, sent, r, k, p, c) ==
  \E B, idx, f : Parsed(s, q, sent, r, k, p, c, B, idx, f)

\* t are the bytes s and n bytes of message k of q after place p.
Longer(t, s, l, e, q, k, m, L, p, n) ==
  /\ k \in 1..Len(q) /\ m = q[k] /\ L = Len(m)
  /\ l = Len(s) /\ e = Len(t)
  /\ \A i \in 1..l : t[i] = s[i]
  /\ \A i \in 1..n : p + i <= PosMod => t[l + i] = m[p + i]

\* The sender adds n bytes of its message sent + 1: s becomes t.  Either the
\* message is complete then or p2 bytes of it have been sent.
LEMMA FramedWrite ==
  ASSUME NEW s, NEW t, NEW q \in Seq(Msg), NEW r, NEW c \in Nat,
         NEW sent \in Nat, NEW sent2 \in Nat, NEW p \in Nat, NEW p2 \in Nat,
         NEW n \in Nat, NEW l \in Nat, NEW e \in Nat, NEW m, NEW L \in Nat,
         Longer(t, s, l, e, q, sent + 1, m, L, p, n),
         e = l + n, n >= 1, p + n <= L, c <= l,
         \/ p + n = L /\ sent2 = sent + 1 /\ p2 = 0
         \/ p + n < L /\ sent2 = sent /\ p2 = p + n,
         Framed(s, q, sent, r, "ok", p, c)
  PROVE  Framed(t, q, sent2, r, "ok", p2, c)
<1>0. sent + 1 \in 1..Len(q) /\ m = q[sent + 1] /\ L = Len(m) /\ Len(s) = l /\ Len(t) = e
  BY DEF Longer
<1>1. PICK B, idx, f : Parsed(s, q, sent, r, "ok", p, c, B, idx, f)
  BY DEF Framed
<1>2. PICK b : b = l - p
  OBVIOUS
<1>3. /\ B \in SUBSET (0..l) /\ 0 \in B /\ b \in B
      /\ idx \in [0..l -> 1..(sent + 1)]
      /\ p > 0 => idx[b] = sent + 1
      /\ c > 0 => c < Len(q[idx[0]])
      /\ Taken(r, q, idx[0], f)
  BY <1>0, <1>1, <1>2 DEF Parsed
<1>4. ASSUME NEW x \in B, x < l
      PROVE  StartsAt(s, q, B, idx, x)
  BY <1>0, <1>1, <1>4 DEF Parsed, Starts
<1>5. b \in Nat /\ b + p = l /\ b <= l
  BY <1>2, <1>3
<1>6. \A x \in B : x \in Nat /\ x <= l
  BY <1>3
<1>7. \A x \in B : x <= b
  <2>. SUFFICES ASSUME NEW x \in B, x > b PROVE FALSE
    BY <1>5, <1>6
  <2>1. p > 0 /\ b < l
    BY <1>5, <1>6
  <2>2. idx[b] = sent + 1 /\ x >= b + L
    BY <1>0, <1>3, <1>4, <2>1 DEF StartsAt
  <2>. QED
    BY <1>5, <1>6, <2>2
<1>8. PICK B2 : B2 = IF p + n = L THEN B \cup {e} ELSE B
  OBVIOUS
<1>9. PICK idx2 : idx2 = [i \in 0..e |-> IF i = b THEN sent + 1
                                         ELSE IF i = e THEN sent2 + 1
                                         ELSE IF i <= l THEN idx[i] ELSE 1]
  OBVIOUS
<1>10. e > l /\ e # b /\ e <= b + L /\ (p + n = L => e = b + L) /\ (e = b + L => p + n = L)
  <2>1. e = b + p + n
    BY <1>5
  <2>2. e > l
    OBVIOUS
  <2>. QED
    BY <1>5, <2>1, <2>2
<1>11. sent2 >= sent /\ (p + n = L => sent2 = sent + 1) /\ (p + n # L => sent2 = sent)
  OBVIOUS
<1>12. \A i \in 0..l : idx[i] \in 1..(sent + 1)
  BY <1>3
<1>13. idx2 \in [0..e -> 1..(sent2 + 1)]
  <2>1. ASSUME NEW i \in 0..e
        PROVE  (IF i = b THEN sent + 1
                ELSE IF i = e THEN sent2 + 1
                ELSE IF i <= l THEN idx[i] ELSE 1) \in 1..(sent2 + 1)
    <3>1. i <= l => i \in 0..l
      OBVIOUS
    <3>2. i <= l => idx[i] \in 1..(sent + 1)
      BY <3>1, <1>12
    <3>. QED
      BY <1>11, <3>2
  <2>. QED
    BY <1>9, <2>1
<1>14. idx2[b] = sent + 1 /\ idx2[e] = sent2 + 1
  <2>1. b \in 0..e /\ e \in 0..e
    BY <1>5, <1>10
  <2>. QED
    BY <1>9, <1>10, <2>1
<1>15. ASSUME NEW x \in B, x # b PROVE idx2[x] = idx[x]
  <2>1. x \in 0..e /\ x <= l /\ x # e
    BY <1>6, <1>10
  <2>. QED
    BY <1>9, <1>15, <2>1
<1>16. /\ B2 \in SUBSET (0..e) /\ 0 \in B2 /\ B \in SUBSET B2
       /\ \A x \in B2 : x \in B \/ (x = e /\ p + n = L)
       /\ p + n = L => e \in B2
  <2>1. \A x \in B : x \in 0..e
    BY <1>6, <1>10
  <2>. QED
    <3>1. CASE p + n = L
      BY <1>3, <1>8, <2>1, <3>1
    <3>2. CASE p + n # L
      BY <1>3, <1>8, <2>1, <3>2
    <3>. QED
      BY <3>1, <3>2
<1>17. ASSUME NEW x \in B2, x < e PROVE StartsAt(t, q, B2, idx2, x)
  <2>1. x \in B /\ x \in Nat
    BY <1>6, <1>16, <1>17
  <2>2. CASE x = b
    <3>1. q[idx2[x]] = m /\ idx2[x] \in 1..Len(q)
      BY <1>0, <1>14, <2>2
    <3>2. ASSUME NEW j \in 1..L, j <= PosMod, b + j <= e PROVE t[b + j] = m[j]
      <4>1. CASE j <= p
        <5>1. b < l /\ b + j \in 1..l /\ p > 0
          BY <1>5, <4>1
        <5>2. s[b + j] = m[j]
          <6>1. StartsAt(s, q, B, idx, b) /\ q[idx[b]] = m
            BY <1>0, <1>3, <1>4, <5>1
          <6>2. b + j <= Len(s) /\ j \in 1..Len(m) /\ j <= PosMod
            BY <1>0, <3>2, <5>1
          <6>. QED
            BY <6>1, <6>2 DEF StartsAt
        <5>. QED
          BY <5>1, <5>2 DEF Longer
      <4>2. CASE j > p
        <5>1. j - p \in 1..n /\ l + (j - p) = b + j /\ p + (j - p) = j
          <6>1. e = b + p + n /\ j \in Nat /\ j <= p + n
            BY <1>5, <3>2
          <6>. QED
            BY <1>5, <4>2, <6>1
        <5>2. t[l + (j - p)] = m[p + (j - p)]
          BY <3>2, <5>1 DEF Longer
        <5>. QED
          BY <5>1, <5>2
      <4>. QED
        BY <4>1, <4>2
    <3>3. ASSUME b + L <= e PROVE b + L \in B2 /\ sent + 1 < idx2[b + L]
      <4>1. p + n = L /\ b + L = e
        BY <1>5, <1>10, <3>3
      <4>. QED
        BY <1>11, <1>14, <1>16, <4>1
    <3>4. ASSUME NEW y \in B2, y > b PROVE y >= b + L
      <4>1. y = e /\ p + n = L
        BY <1>5, <1>6, <1>7, <1>16, <3>4
      <4>. QED
        BY <1>5, <1>10, <4>1
    <3>. QED
      BY <1>0, <1>14, <2>2, <3>1, <3>2, <3>3, <3>4 DEF StartsAt
  <2>3. CASE x # b
    <3>1. x < b /\ x < l
      BY <1>5, <1>7, <2>1, <2>3
    <3>2. idx2[x] = idx[x]
      BY <1>15, <2>1, <2>3
    <3>3. PICK g : g = q[idx[x]]
      OBVIOUS
    <3>4. StartsAt(s, q, B, idx, x)
      BY <1>4, <2>1, <3>1
    <3>5. idx[x] \in 1..Len(q) /\ g \in Msg
      BY <3>3, <3>4 DEF StartsAt
    <3>6. PICK G \in Nat : G = Len(g) /\ G >= 1
      BY <3>5, Constants
    <3>7. x + G <= b
      BY <1>3, <3>1, <3>3, <3>4, <3>6 DEF StartsAt
    <3>8. x + G \in B /\ idx[x] < idx[x + G]
      <4>1. x + G <= l
        BY <1>5, <2>1, <3>6, <3>7
      <4>. QED
        BY <1>0, <3>3, <3>4, <3>6, <4>1 DEF StartsAt
    <3>9. ASSUME NEW j \in 1..G, j <= PosMod PROVE t[x + j] = g[j]
      <4>1. x + j \in 1..l
        BY <1>5, <2>1, <3>6, <3>7
      <4>2. s[x + j] = g[j]
        BY <1>0, <3>3, <3>4, <3>6, <3>9, <4>1 DEF StartsAt
      <4>. QED
        BY <4>1, <4>2 DEF Longer
    <3>10. idx[x] < idx2[x + G]
      <4>1. CASE x + G = b
        <5>1. idx[b] \in 1..(sent + 1) /\ idx[x] \in Nat
          BY <1>5, <1>12, <3>5
        <5>. QED
          BY <1>14, <3>8, <4>1, <5>1
      <4>2. CASE x + G # b
        BY <1>15, <3>8, <4>2
      <4>. QED
        BY <4>1, <4>2
    <3>11. ASSUME NEW y \in B2, y > x PROVE y >= x + G
      <4>1. CASE y \in B
        BY <3>3, <3>4, <3>6, <3>11, <4>1 DEF StartsAt
      <4>2. CASE y = e
        BY <1>5, <1>10, <2>1, <3>6, <3>7, <4>2
      <4>. QED
        BY <1>16, <4>1, <4>2
    <3>12. x + G \in B2
      BY <1>16, <3>8
    <3>. QED
      BY <1>0, <3>2, <3>3, <3>5, <3>6, <3>9, <3>10, <3>11, <3>12 DEF StartsAt
  <2>. QED
    BY <2>2, <2>3
<1>18. Starts(t, q, B2, idx2)
  BY <1>0, <1>17 DEF Starts
<1>19. /\ e - p2 \in B2
       /\ p2 > 0 => idx2[e - p2] = sent2 + 1
  <2>1. CASE p + n = L
    BY <1>16, <2>1
  <2>2. CASE p + n # L
    <3>1. e - p2 = b /\ sent2 = sent
      BY <1>5, <2>2
    <3>. QED
      BY <1>3, <1>14, <1>16, <3>1
  <2>. QED
    BY <2>1, <2>2
<1>20. idx[0] \in Nat /\ idx2[0] \in Nat /\ idx2[0] >= idx[0] /\ (c > 0 => idx2[0] = idx[0])
  <2>1. idx[0] \in 1..(sent + 1) /\ (l > 0 \/ c = 0)
    BY <1>12
  <2>2. CASE b = 0
    BY <1>3, <1>5, <1>14, <2>1, <2>2
  <2>3. CASE b # 0
    BY SMTT(30), <1>3, <1>15, <2>1, <2>3
  <2>. QED
    BY <2>2, <2>3
<1>21. Taken(r, q, idx2[0], f)
  <2>1. \A i \in 1..Len(r) : f[i] \in Nat /\ f[i] < idx[0]
    BY <1>3 DEF Taken
  <2>2. \A i \in 1..Len(r) : f[i] < idx2[0]
    BY <1>20, <2>1
  <2>. QED
    BY <1>3, <2>2 DEF Taken
<1>22. Parsed(t, q, sent2, r, "ok", p2, c, B2, idx2, f)
  BY <1>0, <1>3, <1>13, <1>16, <1>18, <1>19, <1>20, <1>21 DEF Parsed
<1>. QED
  BY <1>22 DEF Framed

\* The application of the sender queues messages: q becomes q2.
LEMMA FramedQueue ==
  ASSUME NEW s, NEW q \in Seq(Msg), NEW q2 \in Seq(Msg), NEW r, NEW c \in Nat,
         NEW sent \in Nat, NEW k, NEW p, sent <= Len(q), c <= Len(s), Len(s) \in Nat,
         Len(q) <= Len(q2), \A i \in 1..Len(q) : q2[i] = q[i],
         Framed(s, q, sent, r, k, p, c)
  PROVE  Framed(s, q2, sent, r, k, p, c)
<1>1. PICK B, idx, f : Parsed(s, q, sent, r, k, p, c, B, idx, f)
  BY DEF Framed
<1>2. Len(q) \in Nat /\ Len(q2) \in Nat
  OBVIOUS
<1>3. ASSUME NEW b \in B, b < Len(s) PROVE StartsAt(s, q2, B, idx, b)
  <2>1. StartsAt(s, q, B, idx, b)
    BY <1>1, <1>3 DEF Parsed, Starts
  <2>2. idx[b] \in 1..Len(q)
    BY <2>1 DEF StartsAt
  <2>3. q2[idx[b]] = q[idx[b]] /\ idx[b] \in 1..Len(q2)
    BY <1>2, <2>2
  <2>. QED
    BY <2>1, <2>3 DEF StartsAt
<1>4. Starts(s, q2, B, idx)
  BY <1>3 DEF Starts
<1>5. c > 0 => c < Len(q2[idx[0]])
  <2>. SUFFICES ASSUME c > 0 PROVE c < Len(q2[idx[0]])
    OBVIOUS
  <2>1. 0 \in B /\ 0 < Len(s)
    BY <1>1 DEF Parsed
  <2>2. StartsAt(s, q, B, idx, 0)
    BY <1>1, <2>1 DEF Parsed, Starts
  <2>3. q2[idx[0]] = q[idx[0]]
    BY <2>2 DEF StartsAt
  <2>. QED
    BY <1>1, <2>3 DEF Parsed
<1>6. Taken(r, q2, idx[0], f)
  <2>1. Taken(r, q, idx[0], f) /\ idx[0] \in 1..(sent + 1)
    BY <1>1 DEF Parsed
  <2>2. ASSUME NEW i \in 1..Len(r) PROVE q2[f[i]] = q[f[i]]
    <3>1. f[i] \in Nat \ {0} /\ f[i] < idx[0]
      BY <2>1 DEF Taken
    <3>2. f[i] \in 1..Len(q)
      BY <1>2, <2>1, <3>1
    <3>. QED
      BY <3>2
  <2>. QED
    BY <2>1, <2>2 DEF Taken
<1>7. Parsed(s, q2, sent, r, k, p, c, B, idx, f)
  BY <1>1, <1>4, <1>5, <1>6 DEF Parsed
<1>. QED
  BY <1>7 DEF Framed

\* t is the beginning of s.
Begins(t, s) == /\ Len(t) \in Nat /\ Len(s) \in Nat /\ Len(t) <= Len(s)
                /\ \A i \in 1..Len(t) : t[i] = s[i]

\* The connection ends for the sender.  Bytes at the end of s may not arrive,
\* and messages it sends from now on are lost.
LEMMA FramedCut ==
  ASSUME NEW s, NEW t, NEW q \in Seq(Msg), NEW r, NEW c \in Nat,
         NEW sent \in Nat, NEW sent2 \in Nat, NEW k, NEW k2, NEW p, NEW p2,
         Begins(t, s), sent <= sent2, k2 # "ok", c <= Len(t),
         Framed(s, q, sent, r, k, p, c)
  PROVE  Framed(t, q, sent2, r, k2, p2, c)
<1>1. PICK B, idx, f : Parsed(s, q, sent, r, k, p, c, B, idx, f)
  BY DEF Framed
<1>2. PICK l \in Nat : l = Len(t)
  BY DEF Begins
<1>3. PICK n \in Nat : n = Len(s) /\ l <= n
  BY <1>2 DEF Begins
<1>4. /\ B \in SUBSET (0..n) /\ 0 \in B /\ idx \in [0..n -> 1..(sent + 1)]
      /\ c > 0 => c < Len(q[idx[0]])
      /\ Taken(r, q, idx[0], f)
  BY <1>1, <1>3 DEF Parsed
<1>5. PICK B2 : B2 = {b \in B : b <= l}
  OBVIOUS
<1>6. PICK idx2 : idx2 = [i \in 0..l |-> idx[i]]
  OBVIOUS
<1>7. \A i \in 0..l : i \in 0..n
  BY <1>3
<1>8. B2 \in SUBSET (0..l) /\ 0 \in B2 /\ B2 \in SUBSET B
  <2>1. ASSUME NEW b \in B2 PROVE b \in 0..l
    <3>1. b \in B /\ b <= l
      BY <1>5
    <3>2. b \in 0..n
      BY <1>4, <3>1
    <3>. QED
      BY <3>1, <3>2
  <2>2. 0 <= l
    OBVIOUS
  <2>3. 0 \in B2 /\ B2 \in SUBSET B
    BY <1>4, <1>5, <2>2
  <2>. QED
    BY <2>1, <2>3
<1>9. idx2 \in [0..l -> 1..(sent2 + 1)] /\ \A i \in 0..l : idx2[i] = idx[i]
  <2>1. ASSUME NEW i \in 0..l PROVE idx[i] \in 1..(sent2 + 1)
    <3>1. idx[i] \in 1..(sent + 1)
      BY <1>4, <1>7
    <3>. QED
      BY <3>1
  <2>. QED
    BY <1>6, <2>1
<1>10. ASSUME NEW b \in B2, b < l PROVE StartsAt(t, q, B2, idx2, b)
  <2>1. b \in B /\ b \in 0..l /\ b < n
    BY <1>3, <1>8, <1>10
  <2>2. StartsAt(s, q, B, idx, b)
    BY <1>1, <1>3, <2>1 DEF Parsed, Starts
  <2>3. PICK g : g = q[idx[b]]
    OBVIOUS
  <2>4. idx[b] \in 1..Len(q) /\ g \in Msg
    BY <2>2, <2>3 DEF StartsAt
  <2>5. PICK G \in Nat : G = Len(g) /\ G >= 1
    BY <2>4, Constants
  <2>6. ASSUME NEW j \in 1..G, j <= PosMod, b + j <= l PROVE t[b + j] = g[j]
    <3>1. b + j \in 1..l /\ b + j <= n
      BY <1>3, <2>1, <2>6
    <3>2. s[b + j] = g[j]
      BY <1>3, <2>2, <2>3, <2>5, <2>6, <3>1 DEF StartsAt
    <3>3. t[b + j] = s[b + j]
      BY <1>2, <3>1 DEF Begins
    <3>. QED
      BY <3>2, <3>3
  <2>7. ASSUME b + G <= l PROVE b + G \in B2 /\ idx2[b] < idx2[b + G]
    <3>1. b + G <= n /\ b + G \in 0..l
      BY <1>3, <2>1, <2>5, <2>7
    <3>2. b + G \in B /\ idx[b] < idx[b + G]
      BY <1>3, <2>2, <2>3, <2>5, <3>1 DEF StartsAt
    <3>. QED
      BY <1>5, <1>9, <2>1, <2>7, <3>1, <3>2
  <2>8. ASSUME NEW y \in B2, y > b PROVE y >= b + G
    BY <1>8, <2>2, <2>3, <2>5, <2>8 DEF StartsAt
  <2>9. q[idx2[b]] = g /\ idx2[b] \in 1..Len(q)
    BY <1>9, <2>1, <2>3, <2>4
  <2>. QED
    BY <1>2, <2>5, <2>6, <2>7, <2>8, <2>9 DEF StartsAt
<1>11. Starts(t, q, B2, idx2)
  BY <1>2, <1>10 DEF Starts
<1>12. idx2[0] = idx[0]
  BY <1>9
<1>13. Parsed(t, q, sent2, r, k2, p2, c, B2, idx2, f)
  BY <1>2, <1>4, <1>8, <1>9, <1>11, <1>12 DEF Parsed
<1>. QED
  BY <1>13 DEF Framed

\* A new stream begins, between two messages.
LEMMA FramedReset ==
  ASSUME NEW s, NEW q \in Seq(Msg), NEW r, NEW c,
         NEW sent \in Nat, NEW sent2 \in Nat, NEW k, NEW k2, NEW p, NEW p2,
         Len(s) \in Nat, sent <= sent2, k2 = "ok" => p2 = 0,
         Framed(s, q, sent, r, k, p, c)
  PROVE  Framed(<<>>, q, sent2, r, k2, p2, 0)
<1>1. PICK B, idx, f : Parsed(s, q, sent, r, k, p, c, B, idx, f)
  BY DEF Framed
<1>2. Taken(r, q, idx[0], f) /\ idx[0] \in 1..(sent + 1)
  BY <1>1 DEF Parsed
<1>3. PICK idx2 : idx2 = [i \in 0..0 |-> sent2 + 1]
  OBVIOUS
<1>4. idx2 \in [0..0 -> 1..(sent2 + 1)] /\ idx2[0] = sent2 + 1
  <2>1. sent2 + 1 \in 1..(sent2 + 1) /\ 0 \in 0..0
    OBVIOUS
  <2>. QED
    BY <1>3, <2>1
<1>5. Taken(r, q, idx2[0], f)
  <2>1. ASSUME NEW i \in 1..Len(r) PROVE f[i] < idx2[0]
    <3>1. f[i] \in Nat /\ f[i] < idx[0]
      BY <1>2 DEF Taken
    <3>. QED
      BY <1>2, <1>4, <3>1
  <2>. QED
    BY <1>2, <2>1 DEF Taken
<1>6. Len(<<>>) = 0
  OBVIOUS
<1>7. Starts(<<>>, q, {0}, idx2)
  BY <1>6 DEF Starts
<1>8. Parsed(<<>>, q, sent2, r, k2, p2, 0, {0}, idx2, f)
  BY <1>4, <1>5, <1>6, <1>7 DEF Parsed
<1>. QED
  BY <1>8 DEF Framed

\* t is what follows L bytes of s.
Ends(t, s, L) == /\ Len(t) \in Nat /\ Len(s) = Len(t) + L
                 /\ \A i \in 1..Len(t) : t[i] = s[i + L]

\* z is what has been received of the message m.
Arrived(z, m) == z \in Seq(Nat) /\ Alike(z, m)

\* The stream begins with the message m: its c bytes are not all of it, and
\* when it has been taken off the rest is a stream again.
First(m, s, q, sent, r, k, p, c) ==
  /\ \A j \in 1..Len(m) : j <= PosMod /\ j <= Len(s) => s[j] = m[j]
  /\ c > 0 => c < Len(m)
  /\ \A d \in Nat : d < Len(m) => Framed(s, q, sent, r, k, p, d)
  /\ \A t, z : Ends(t, s, Len(m)) /\ Arrived(z, m) =>
                 Framed(t, q, sent, Append(r, z), k, p, 0)

\* The receiver takes bytes, or a whole message, from the stream.
LEMMA FramedFirst ==
  ASSUME NEW s, NEW q \in Seq(Msg), NEW r \in Seq(Seq(Nat)), NEW c,
         NEW sent \in Nat, NEW k, NEW p \in Nat,
         Len(s) \in Nat, Len(s) > 0, p > 0 => p < Len(q[sent + 1]),
         Framed(s, q, sent, r, k, p, c)
  PROVE  \E m \in Msg : First(m, s, q, sent, r, k, p, c)
<1>1. PICK B, idx, f : Parsed(s, q, sent, r, k, p, c, B, idx, f)
  BY DEF Framed
<1>2. PICK n \in Nat : n = Len(s) /\ n > 0
  OBVIOUS
<1>3. /\ B \in SUBSET (0..n) /\ 0 \in B /\ idx \in [0..n -> 1..(sent + 1)]
      /\ k = "ok" => n - p \in B /\ (p > 0 => idx[n - p] = sent + 1)
      /\ c > 0 => c < Len(q[idx[0]])
      /\ Taken(r, q, idx[0], f)
  BY <1>1, <1>2 DEF Parsed
<1>4. ASSUME NEW b \in B, b < n PROVE StartsAt(s, q, B, idx, b)
  BY <1>1, <1>2, <1>4 DEF Parsed, Starts
<1>5. StartsAt(s, q, B, idx, 0)
  BY <1>2, <1>3, <1>4
<1>6. PICK m : m = q[idx[0]]
  OBVIOUS
<1>7. m \in Msg /\ idx[0] \in 1..Len(q)
  BY <1>5, <1>6 DEF StartsAt
<1>8. PICK L \in Nat : L = Len(m) /\ L >= 1
  BY <1>7, Constants
<1>9. ASSUME NEW j \in 1..L, j <= PosMod, j <= n PROVE s[j] = m[j]
  <2>1. 0 + j <= Len(s) /\ 0 + j = j
    BY <1>2, <1>9
  <2>. QED
    BY <1>5, <1>6, <1>8, <1>9, <2>1 DEF StartsAt
<1>10. ASSUME NEW d \in Nat, d < L PROVE Framed(s, q, sent, r, k, p, d)
  <2>1. Parsed(s, q, sent, r, k, p, d, B, idx, f)
    BY <1>1, <1>6, <1>8, <1>10 DEF Parsed
  <2>. QED
    BY <2>1 DEF Framed
<1>11. ASSUME NEW t, NEW z, Ends(t, s, L), Arrived(z, m)
       PROVE  Framed(t, q, sent, Append(r, z), k, p, 0)
  <2>1. PICK l \in Nat : l = Len(t) /\ n = l + L
    BY <1>2, <1>11 DEF Ends
  <2>2. L \in B /\ idx[0] < idx[L]
    <3>1. 0 + L <= Len(s) /\ 0 + L = L
      BY <1>2, <2>1
    <3>. QED
      BY <1>5, <1>6, <1>8, <3>1 DEF StartsAt
  <2>3. PICK B2 : B2 = {b \in 0..l : b + L \in B}
    OBVIOUS
  <2>4. PICK idx2 : idx2 = [i \in 0..l |-> idx[i + L]]
    OBVIOUS
  <2>5. B2 \in SUBSET (0..l) /\ 0 \in B2
    <3>1. 0 \in 0..l /\ 0 + L = L
      OBVIOUS
    <3>. QED
      BY <2>2, <2>3, <3>1
  <2>6. idx2 \in [0..l -> 1..(sent + 1)] /\ \A i \in 0..l : idx2[i] = idx[i + L]
    <3>1. ASSUME NEW i \in 0..l PROVE idx[i + L] \in 1..(sent + 1)
      <4>1. i + L \in 0..n
        BY <2>1
      <4>. QED
        BY <1>3, <4>1
    <3>. QED
      BY <2>4, <3>1
  <2>7. ASSUME NEW b \in B2, b < l PROVE StartsAt(t, q, B2, idx2, b)
    <3>1. b \in 0..l /\ b + L \in B
      BY <2>3
    <3>2. b + L < n
      BY <2>1, <2>7, <3>1
    <3>3. StartsAt(s, q, B, idx, b + L)
      BY <1>4, <3>1, <3>2
    <3>4. PICK g : g = q[idx[b + L]]
      OBVIOUS
    <3>5. idx[b + L] \in 1..Len(q) /\ g \in Msg
      BY <3>3, <3>4 DEF StartsAt
    <3>6. PICK G \in Nat : G = Len(g) /\ G >= 1
      BY <3>5, Constants
    <3>7. ASSUME NEW j \in 1..G, j <= PosMod, b + j <= l PROVE t[b + j] = g[j]
      <4>1. b + j \in 1..l /\ (b + L) + j <= n /\ (b + j) + L = (b + L) + j
        BY <2>1, <3>1, <3>7
      <4>2. s[(b + L) + j] = g[j]
        BY <1>2, <3>3, <3>4, <3>6, <3>7, <4>1 DEF StartsAt
      <4>3. t[b + j] = s[(b + j) + L]
        BY <1>11, <2>1, <4>1 DEF Ends
      <4>. QED
        BY <4>1, <4>2, <4>3
    <3>8. ASSUME b + G <= l PROVE b + G \in B2 /\ idx2[b] < idx2[b + G]
      <4>1. (b + L) + G <= n /\ b + G \in 0..l /\ (b + L) + G = (b + G) + L
        BY <2>1, <3>1, <3>6, <3>8
      <4>2. (b + L) + G \in B /\ idx[b + L] < idx[(b + L) + G]
        BY <1>2, <3>3, <3>4, <3>6, <4>1 DEF StartsAt
      <4>3. idx2[b] = idx[b + L] /\ idx2[b + G] = idx[(b + G) + L]
        BY <2>6, <3>1, <4>1
      <4>. QED
        BY <2>3, <4>1, <4>2, <4>3
    <3>9. ASSUME NEW y \in B2, y > b PROVE y >= b + G
      <4>1. y \in 0..l /\ y + L \in B
        BY <2>3
      <4>2. y + L > b + L
        BY <3>1, <3>9, <4>1
      <4>3. y + L >= (b + L) + G
        BY <3>3, <3>4, <3>6, <4>1, <4>2 DEF StartsAt
      <4>. QED
        BY <3>1, <3>6, <4>1, <4>3
    <3>10. q[idx2[b]] = g /\ idx2[b] \in 1..Len(q)
      BY <2>6, <3>1, <3>4, <3>5
    <3>. QED
      BY <2>1, <3>6, <3>7, <3>8, <3>9, <3>10 DEF StartsAt
  <2>8. Starts(t, q, B2, idx2)
    BY <2>1, <2>7 DEF Starts
  <2>9. ASSUME k = "ok" PROVE l - p \in B2 /\ (p > 0 => idx2[l - p] = sent + 1)
    <3>1. n - p \in B /\ n - p \in 0..n
      BY <1>3, <2>9
    <3>2. n - p # 0
      <4>. SUFFICES ASSUME n - p = 0 PROVE FALSE
        OBVIOUS
      <4>1. p > 0 /\ p = n
        BY <1>2
      <4>2. idx[0] = sent + 1
        BY <1>3, <2>9, <4>1
      <4>3. p < L
        BY <1>6, <1>8, <4>1, <4>2
      <4>. QED
        BY <2>1, <4>1, <4>3
    <3>3. n - p >= 0 + L
      <4>1. n - p > 0
        BY <3>1, <3>2
      <4>. QED
        BY <1>5, <1>6, <1>8, <3>1, <4>1 DEF StartsAt
    <3>4. l - p \in 0..l /\ (l - p) + L = n - p
      BY <2>1, <3>3
    <3>5. idx2[l - p] = idx[(l - p) + L]
      BY <2>6, <3>4
    <3>. QED
      BY <1>3, <2>3, <2>9, <3>1, <3>4, <3>5
  <2>10. PICK h : h = Len(r)
    OBVIOUS
  <2>11. /\ h \in Nat /\ Len(Append(r, z)) = h + 1
         /\ \A i \in 1..h : Append(r, z)[i] = r[i]
         /\ Append(r, z)[h + 1] = z
    <3>1. z \in Seq(Nat)
      BY <1>11 DEF Arrived
    <3>. QED
      BY <2>10, <3>1
  <2>12. PICK f2 : f2 = [i \in 1..(h + 1) |-> IF i = h + 1 THEN idx[0] ELSE f[i]]
    OBVIOUS
  <2>13. /\ f \in [1..h -> Nat \ {0}]
         /\ \A i \in 1..h : f[i] < idx[0] /\ Alike(r[i], q[f[i]])
         /\ \A i, j \in 1..h : i < j => f[i] < f[j]
    BY <1>3, <2>10 DEF Taken
  <2>14. idx[0] \in Nat \ {0} /\ idx2[0] \in Nat /\ idx[0] < idx2[0]
    <3>1. idx2[0] = idx[L] /\ L \in 0..n /\ 0 \in 0..n
      BY <2>1, <2>6
    <3>2. idx[0] \in 1..(sent + 1) /\ idx[L] \in 1..(sent + 1)
      BY <1>3, <3>1
    <3>. QED
      BY <2>2, <3>1, <3>2
  <2>15. Taken(Append(r, z), q, idx2[0], f2)
    <3>1. ASSUME NEW i \in 1..(h + 1)
          PROVE  \/ i = h + 1 /\ f2[i] = idx[0]
                 \/ i # h + 1 /\ i \in 1..h /\ f2[i] = f[i] /\ f[i] \in Nat \ {0} /\ f[i] < idx[0]
      <4>1. i # h + 1 => i \in 1..h
        BY <2>11
      <4>. QED
        BY <2>12, <2>13, <4>1
    <3>2. f2 \in [1..(h + 1) -> Nat \ {0}]
      <4>1. \A i \in 1..(h + 1) : f2[i] \in Nat \ {0}
        BY <2>14, <3>1
      <4>. QED
        BY <2>12, <4>1
    <3>3. ASSUME NEW i \in 1..(h + 1)
          PROVE  f2[i] < idx2[0] /\ Alike(Append(r, z)[i], q[f2[i]])
      <4>1. f2[i] < idx2[0]
        BY <2>14, <3>1
      <4>2. CASE i = h + 1
        <5>1. Alike(z, q[idx[0]])
          BY <1>6, <1>11 DEF Arrived
        <5>. QED
          BY <2>11, <3>1, <4>1, <4>2, <5>1
      <4>3. CASE i # h + 1
        BY <2>11, <2>13, <3>1, <4>1, <4>3
      <4>. QED
        BY <4>2, <4>3
    <3>4. ASSUME NEW i \in 1..(h + 1), NEW j \in 1..(h + 1), i < j
          PROVE  f2[i] < f2[j]
      <4>1. i # h + 1
        BY <2>11, <3>4
      <4>2. i \in 1..h /\ f2[i] = f[i] /\ f[i] < idx[0]
        BY <3>1, <4>1
      <4>3. CASE j = h + 1
        BY <3>1, <4>2, <4>3
      <4>4. CASE j # h + 1
        <5>1. j \in 1..h /\ f2[j] = f[j]
          BY <3>1, <4>4
        <5>. QED
          BY <2>13, <3>4, <4>2, <5>1
      <4>. QED
        BY <4>3, <4>4
    <3>. QED
      BY <2>11, <3>2, <3>3, <3>4 DEF Taken
  <2>16. Parsed(t, q, sent, Append(r, z), k, p, 0, B2, idx2, f2)
    BY <2>1, <2>5, <2>6, <2>8, <2>9, <2>15 DEF Parsed
  <2>. QED
    BY <2>16 DEF Framed
<1>. QED
  <2>1. First(m, s, q, sent, r, k, p, c)
    BY <1>2, <1>3, <1>6, <1>8, <1>9, <1>10, <1>11 DEF First
  <2>. QED
    BY <1>7, <2>1
-----------------------------------------------------------------------------
(* Sequences and numbers                                                   *)

\* The position of a message is not changed by a byte that is wide enough.
LEMMA ModSmall ==
  ASSUME NEW a \in Nat, NEW b \in Nat, a < b
  PROVE  a % b = a
  OBVIOUS

\* It never gets larger.
LEMMA ModLess ==
  ASSUME NEW a \in Nat, NEW b \in Nat \ {0}
  PROVE  a % b \in Nat /\ a % b <= a
<1>1. a % b \in 0..(b - 1)
  OBVIOUS
<1>2. CASE a < b
  BY <1>2, ModSmall
<1>3. CASE a >= b
  BY <1>1, <1>3
<1>. QED
  BY <1>2, <1>3

\* Taking a message leaves the messages received as they are.
LEMMA TakeSame ==
  ASSUME NEW g \in Seq(Seq(Nat)), NEW r \in Seq(Seq(Nat)), r # <<>>
  PROVE  Append(g, Head(r)) \o Tail(r) = g \o r
  OBVIOUS

\* A message that is complete is the last one received.
LEMMA AppendLast ==
  ASSUME NEW g \in Seq(Seq(Nat)), NEW r \in Seq(Seq(Nat)), NEW c \in Seq(Nat)
  PROVE  g \o Append(r, c) = Append(g \o r, c)
  OBVIOUS

\* The bytes of two sequences, one after the other.
LEMMA CatFacts ==
  ASSUME NEW c \in Seq(Nat), NEW w \in Seq(Nat)
  PROVE  /\ c \o w \in Seq(Nat) /\ Len(c) \in Nat /\ Len(w) \in Nat
         /\ Len(c \o w) \in Nat /\ Len(c \o w) = Len(c) + Len(w) /\ Len(c) <= Len(c \o w)
         /\ \A i \in 1..Len(c) : (c \o w)[i] = c[i]
         /\ \A i \in 1..Len(w) : (c \o w)[Len(c) + i] = w[i]
  OBVIOUS

\* What one sequence begins with is what both together begin with.
LEMMA CatBegins ==
  ASSUME NEW c \in Seq(Nat), NEW v \in Seq(Nat), NEW w \in Seq(Nat), Begins(v, w)
  PROVE  Begins(c \o v, c \o w)
<1>1. Len(v) <= Len(w) /\ \A i \in 1..Len(v) : v[i] = w[i]
  BY DEF Begins
<1>2. Len(c \o v) <= Len(c \o w) /\ Len(c \o v) \in Nat /\ Len(c \o w) \in Nat
  BY <1>1
<1>3. \A i \in 1..Len(c \o v) : (c \o v)[i] = (c \o w)[i]
  BY <1>1
<1>. QED
  BY <1>2, <1>3 DEF Begins

\* Concatenation is associative.
LEMMA Associative ==
  ASSUME NEW c \in Seq(Nat), NEW w \in Seq(Nat), NEW v \in Seq(Nat)
  PROVE  (c \o w) \o v = c \o (w \o v)
  OBVIOUS

\* Reading moves bytes from one part of the stream to the other.
LEMMA MoveBytes ==
  ASSUME NEW c \in Seq(Nat), NEW w \in Seq(Nat), NEW n \in 1..Len(w)
  PROVE  (c \o SubSeq(w, 1, n)) \o SubSeq(w, n + 1, Len(w)) = c \o w
<1>0. SubSeq(w, 1, n) \in Seq(Nat) /\ SubSeq(w, n + 1, Len(w)) \in Seq(Nat)
  OBVIOUS
<1>1. PICK u : u = SubSeq(w, 1, n)
  OBVIOUS
<1>2. PICK v : v = SubSeq(w, n + 1, Len(w))
  OBVIOUS
<1>3. u \o v = w
  BY <1>1, <1>2
<1>4. (c \o u) \o v = c \o (u \o v)
  <2>1. u \in Seq(Nat) /\ v \in Seq(Nat)
    BY <1>0, <1>1, <1>2
  <2>. QED
    BY <2>1, Associative
<1>. QED
  BY <1>1, <1>2, <1>3, <1>4

-----------------------------------------------------------------------------
(* Types                                                                   *)

\* There are two ends.
LEMMA TwoEnds ==
  /\ Other("client") = "server" /\ Other("server") = "client"
  /\ \A x \in End : Other(x) \in End /\ Other(x) # x /\ Other(Other(x)) = x
  /\ \A x, y \in End : y # x => y = Other(x)
<1>1. Other("client") = "server" /\ Other("server") = "client"
  BY DEF Other, End
<1>. QED
  BY <1>1 DEF End

\* The position lies within the first message.
PosOK(l, p) == IF l = <<>> THEN p = 0 ELSE p < Len(Head(l))

\* A position of 0 does, whatever the list.
LEMMA PosZero ==
  ASSUME NEW l \in Seq(Msg)
  PROVE  PosOK(l, 0)
<1>1. CASE l # <<>>
  <2>1. Head(l) \in Msg
    BY <1>1
  <2>2. Len(Head(l)) \in Nat /\ Len(Head(l)) >= 1
    BY <2>1, Constants
  <2>. QED
    BY <1>1, <2>2 DEF PosOK
<1>. QED
  BY <1>1 DEF PosOK

\* A message is added to a list.
LEMMA PosAppend ==
  ASSUME NEW l \in Seq(Msg), NEW m \in Msg, NEW p \in Nat, PosOK(l, p)
  PROVE  PosOK(Append(l, m), p)
<1>1. Append(l, m) \in Seq(Msg)
  OBVIOUS
<1>2. CASE l = <<>>
  BY <1>1, <1>2, PosZero DEF PosOK
<1>3. CASE l # <<>>
  <2>1. Append(l, m) # <<>> /\ Head(Append(l, m)) = Head(l)
    BY <1>3
  <2>. QED
    BY <1>3, <2>1 DEF PosOK
<1>. QED
  BY <1>2, <1>3

\* The types of the variables that a step may change, but for the position.
Types ==
  /\ state \in [End -> {"unconnected", "connecting", "connected"}]
  /\ sock \in [End -> {"none", "syn", "refused", "ok", "dead"}]
  /\ wire \in [End -> Seq(Nat)]
  /\ sendList \in [End -> Seq(Msg)]
  /\ pos \in [End -> Nat]
  /\ cur \in [End -> Seq(Nat)]
  /\ recvd \in [End -> Seq(Seq(Nat))]
  /\ queued \in [End -> Seq(Msg)]
  /\ got \in [End -> Seq(Seq(Nat))]
  /\ torn \in BOOLEAN
  /\ breaks \in 0..MaxBreaks

\* TypeOK in two parts.
LEMMA TypeParts == TypeOK <=> Types /\ \A x \in End : PosOK(sendList[x], pos[x])
  BY Zenon DEF TypeOK, Types, PosOK

\* The initial states.
LEMMA InitType == Init => TypeOK
<1>. SUFFICES ASSUME Init PROVE TypeOK
  OBVIOUS
<1>1. Types
  <2>1. torn \in BOOLEAN /\ breaks \in 0..MaxBreaks
    <3>1. torn \in BOOLEAN /\ breaks = 0
      BY Zenon DEF Init
    <3>. QED
      BY <3>1, Constants
  <2>2. /\ state \in [End -> {"unconnected", "connecting", "connected"}]
        /\ sock \in [End -> {"none", "syn", "refused", "ok", "dead"}]
        /\ pos \in [End -> Nat]
    BY DEF Init
  <2>3. \A S : <<>> \in Seq(S)
    OBVIOUS
  <2>4. /\ wire \in [End -> Seq(Nat)] /\ cur \in [End -> Seq(Nat)]
        /\ sendList \in [End -> Seq(Msg)] /\ queued \in [End -> Seq(Msg)]
        /\ recvd \in [End -> Seq(Seq(Nat))] /\ got \in [End -> Seq(Seq(Nat))]
    BY <2>3 DEF Init
  <2>. QED
    BY <2>1, <2>2, <2>4 DEF Types
<1>2. ASSUME NEW x \in End PROVE PosOK(sendList[x], pos[x])
  BY DEF Init, PosOK
<1>. QED
  BY <1>1, <1>2, TypeParts

\* The sockets and the wire after a disconnect have their types.
LEMMA DisconnectType ==
  ASSUME TypeOK, NEW x \in End, Disconnect(x), breaks' \in 0..MaxBreaks
  PROVE  TypeOK'
<1>0. Types /\ \A y \in End : PosOK(sendList[y], pos[y])
  BY TypeParts
<1>1. /\ state' \in [End -> {"unconnected", "connecting", "connected"}]
      /\ sock' \in [End -> {"none", "syn", "refused", "ok", "dead"}]
      /\ wire' \in [End -> Seq(Nat)]
  <2>1. /\ state' = [state EXCEPT ![x] = "unconnected"]
        /\ sock' = [sock EXCEPT ![x] = "none",
                                ![Other(x)] = IF @ = "ok" THEN "dead" ELSE @]
        /\ wire' = [wire EXCEPT ![x] = <<>>]
    BY DEF Disconnect
  <2>2. wire' \in [End -> Seq(Nat)]
    <3>1. <<>> \in Seq(Nat)
      OBVIOUS
    <3>. QED
      BY <1>0, <2>1, <3>1 DEF Types
  <2>3. sock' \in [End -> {"none", "syn", "refused", "ok", "dead"}]
    BY <1>0, <2>1 DEF Types
  <2>4. state' \in [End -> {"unconnected", "connecting", "connected"}]
    BY <1>0, <2>1 DEF Types
  <2>. QED
    BY <2>2, <2>3, <2>4
<1>2. recvd' = recvd /\ queued' = queued /\ got' = got
  BY DEF Disconnect
<1>3. CASE x = "server"
  <2>1. /\ sendList' = [sendList EXCEPT ![x] = <<>>] /\ pos' = [pos EXCEPT ![x] = 0]
        /\ cur' = [cur EXCEPT ![x] = <<>>] /\ torn' = torn
    BY <1>3 DEF Disconnect
  <2>2. Types'
    BY <1>0, <1>1, <1>2, <2>1 DEF Types
  <2>3. ASSUME NEW y \in End PROVE PosOK(sendList'[y], pos'[y])
    BY <1>0, <2>1 DEF PosOK, Types
  <2>. QED
    BY <2>2, <2>3, TypeParts DEF TypeOK, Types, PosOK
<1>4. CASE x # "server"
  <2>1. /\ sendList' = sendList /\ pos' = pos /\ cur' = cur
        /\ torn' = (torn \/ pos[x] > 0 \/ cur[x] # <<>>)
    BY <1>4 DEF Disconnect
  <2>2. torn' \in BOOLEAN
    BY <2>1, Zenon
  <2>3. Types'
    BY <1>0, <1>1, <1>2, <2>1, <2>2 DEF Types
  <2>. QED
    BY <1>0, <2>1, <2>3, Zenon DEF TypeOK, Types, PosOK
<1>. QED
  BY <1>3, <1>4

\* A part of the first message is sent.
LEMMA WriteType ==
  ASSUME TypeOK, NEW x \in End, WriteCurrentMessage(x)
  PROVE  TypeOK'
<1>0. Types /\ \A y \in End : PosOK(sendList[y], pos[y])
  BY TypeParts
<1>1. sendList[x] \in Seq(Msg) /\ sendList[x] # <<>> /\ pos[x] \in Nat
  BY <1>0 DEF Types, WriteCurrentMessage
<1>2. PICK m : m = Head(sendList[x])
  OBVIOUS
<1>3. m \in Msg /\ m \in Seq(Nat) /\ Len(m) \in Nat /\ pos[x] < Len(m)
  BY <1>0, <1>1, <1>2, Constants DEF PosOK
<1>4. PICK n \in 1..(Len(m) - pos[x]) :
        /\ Deliver(x, SubSeq(m, (pos[x] % PosMod) + 1, (pos[x] % PosMod) + n))
        /\ AfterWrite(x, n, Len(m) - pos[x])
  BY <1>2 DEF WriteCurrentMessage
<1>5. /\ state' = state /\ sock' = sock /\ cur' = cur /\ recvd' = recvd
      /\ queued' = queued /\ got' = got /\ torn' = torn /\ breaks' = breaks
  BY DEF WriteCurrentMessage, ghost
<1>6. wire' \in [End -> Seq(Nat)]
  <2>1. PICK p8 \in Nat : p8 = pos[x] % PosMod /\ p8 <= pos[x]
    BY <1>1, Constants, ModLess
  <2>2. p8 + n <= Len(m) /\ p8 + 1 \in Nat
    BY <1>1, <1>3, <2>1
  <2>3. SubSeq(m, p8 + 1, p8 + n) \in Seq(Nat)
    BY <1>3, <2>1, <2>2
  <2>4. CASE sock[x] = "ok"
    <3>1. wire' = [wire EXCEPT ![Other(x)] = @ \o SubSeq(m, p8 + 1, p8 + n)]
      BY <1>4, <2>1, <2>4 DEF Deliver
    <3>. QED
      BY <1>0, <2>3, <3>1, TwoEnds DEF Types
  <2>5. CASE sock[x] # "ok"
    BY <1>0, <1>4, <2>5 DEF Deliver, Types
  <2>. QED
    BY <2>4, <2>5
<1>7. CASE n = Len(m) - pos[x]
  <2>1. sendList' = [sendList EXCEPT ![x] = Tail(@)] /\ pos' = [pos EXCEPT ![x] = 0]
    BY <1>4, <1>7 DEF AfterWrite
  <2>2. Tail(sendList[x]) \in Seq(Msg)
    BY <1>1
  <2>3. Types'
    BY <1>0, <1>5, <1>6, <2>1, <2>2 DEF Types
  <2>4. ASSUME NEW y \in End PROVE PosOK(sendList'[y], pos'[y])
    BY <1>0, <2>1, <2>2, PosZero DEF Types
  <2>. QED
    BY <2>3, <2>4, Zenon DEF TypeOK, Types, PosOK
<1>8. CASE n # Len(m) - pos[x]
  <2>1. sendList' = sendList /\ pos' = [pos EXCEPT ![x] = @ + n]
    BY <1>4, <1>8 DEF AfterWrite
  <2>2. pos[x] + n \in Nat /\ pos[x] + n < Len(m)
    BY SMTT(30), <1>1, <1>3, <1>8
  <2>3. Types'
    BY <1>0, <1>5, <1>6, <2>1, <2>2 DEF Types
  <2>4. ASSUME NEW y \in End PROVE PosOK(sendList'[y], pos'[y])
    <3>1. CASE y = x
      BY <1>0, <1>1, <1>2, <2>1, <2>2, <3>1 DEF Types, PosOK
    <3>2. CASE y # x
      BY <1>0, <2>1, <3>2 DEF Types
    <3>. QED
      BY <3>1, <3>2
  <2>. QED
    BY <2>3, <2>4, Zenon DEF TypeOK, Types, PosOK
<1>. QED
  BY <1>7, <1>8

\* Some bytes are read.
LEMMA ReadType ==
  ASSUME TypeOK, NEW x \in End, ReadCurrentMessage(x)
  PROVE  TypeOK'
<1>0. Types /\ \A y \in End : PosOK(sendList[y], pos[y])
  BY TypeParts
<1>1. PICK n \in 1..BytesNeeded(cur[x]) :
        LET c == cur[x] \o SubSeq(wire[x], 1, n)
        IN  /\ n <= Len(wire[x])
            /\ wire' = [wire EXCEPT ![x] = SubSeq(@, n + 1, Len(@))]
            /\ IF BytesNeeded(c) = 0
               THEN /\ cur' = [cur EXCEPT ![x] = <<>>]
                    /\ recvd' = [recvd EXCEPT ![x] = Append(@, c)]
               ELSE /\ cur' = [cur EXCEPT ![x] = c]
                    /\ UNCHANGED recvd
  BY DEF ReadCurrentMessage
<1>2. PICK c : c = cur[x] \o SubSeq(wire[x], 1, n)
  OBVIOUS
<1>3. wire[x] \in Seq(Nat) /\ cur[x] \in Seq(Nat) /\ n \in 1..Len(wire[x])
  <2>1. wire[x] \in Seq(Nat) /\ cur[x] \in Seq(Nat)
    BY <1>0 DEF Types
  <2>2. Len(wire[x]) \in Nat
    BY <2>1
  <2>. QED
    BY <1>1, <2>1, <2>2
<1>4. c \in Seq(Nat) /\ SubSeq(wire[x], n + 1, Len(wire[x])) \in Seq(Nat)
  <2>1. SubSeq(wire[x], 1, n) \in Seq(Nat)
    BY <1>3
  <2>. QED
    BY <1>2, <1>3, <2>1
<1>5. /\ state' = state /\ sock' = sock /\ sendList' = sendList /\ pos' = pos
      /\ queued' = queued /\ got' = got /\ torn' = torn /\ breaks' = breaks
  BY DEF ReadCurrentMessage, ghost
<1>6. wire' \in [End -> Seq(Nat)]
  BY <1>0, <1>1, <1>4 DEF Types
<1>7. cur' \in [End -> Seq(Nat)] /\ recvd' \in [End -> Seq(Seq(Nat))]
  <2>1. CASE BytesNeeded(c) = 0
    <3>1. cur' = [cur EXCEPT ![x] = <<>>] /\ recvd' = [recvd EXCEPT ![x] = Append(@, c)]
      BY <1>1, <1>2, <2>1
    <3>2. Append(recvd[x], c) \in Seq(Seq(Nat)) /\ <<>> \in Seq(Nat)
      BY <1>0, <1>4 DEF Types
    <3>. QED
      BY <1>0, <3>1, <3>2 DEF Types
  <2>2. CASE BytesNeeded(c) # 0
    <3>1. cur' = [cur EXCEPT ![x] = c] /\ recvd' = recvd
      BY <1>1, <1>2, <2>2
    <3>. QED
      BY <1>0, <1>4, <3>1 DEF Types
  <2>. QED
    BY <2>1, <2>2
<1>8. Types'
  BY <1>0, <1>5, <1>6, <1>7 DEF Types
<1>. QED
  BY <1>0, <1>5, <1>8, Zenon DEF TypeOK, Types, PosOK

\* Every step keeps the types.
LEMMA TypeStep == TypeOK /\ [Next]_vars => TypeOK'
<1>. SUFFICES ASSUME TypeOK, [Next]_vars PROVE TypeOK'
  OBVIOUS
<1>0. Types /\ \A y \in End : PosOK(sendList[y], pos[y])
  BY TypeParts
<1>1. ASSUME NEW x \in End, WriteCurrentMessage(x) PROVE TypeOK'
  BY <1>1, WriteType
<1>2. ASSUME NEW x \in End, ReadCurrentMessage(x) PROVE TypeOK'
  BY <1>2, ReadType
<1>3. ASSUME NEW x \in End, Disconnect(x), breaks' = breaks PROVE TypeOK'
  <2>1. breaks' \in 0..MaxBreaks
    BY <1>0, <1>3 DEF Types
  <2>. QED
    BY <1>3, <2>1, DisconnectType
<1>4. ASSUME NEW x \in End, AppDisconnect(x) PROVE TypeOK'
  <2>1. breaks' \in 0..MaxBreaks
    BY <1>0, <1>4, Constants DEF Types, AppDisconnect
  <2>. QED
    BY <1>4, <2>1, DisconnectType DEF AppDisconnect
<1>5. ASSUME NEW x \in End, NEW m \in Msg, AddSendMessage(x, m) PROVE TypeOK'
  <2>1. /\ sendList' = [sendList EXCEPT ![x] = Append(@, m)]
        /\ queued' = [queued EXCEPT ![x] = Append(@, m)]
        /\ state' = state /\ sock' = sock /\ wire' = wire /\ pos' = pos
        /\ cur' = cur /\ recvd' = recvd /\ got' = got /\ torn' = torn /\ breaks' = breaks
    BY <1>5 DEF AddSendMessage, net
  <2>2. Append(sendList[x], m) \in Seq(Msg) /\ Append(queued[x], m) \in Seq(Msg)
    BY <1>0 DEF Types
  <2>3. Types'
    BY <1>0, <2>1, <2>2 DEF Types
  <2>4. ASSUME NEW y \in End PROVE PosOK(sendList'[y], pos'[y])
    <3>1. sendList[y] \in Seq(Msg) /\ pos[y] \in Nat
      BY <1>0 DEF Types
    <3>2. sendList'[y] = sendList[y] \/ sendList'[y] = Append(sendList[y], m)
      BY <1>0, <2>1 DEF Types
    <3>. QED
      BY <1>0, <2>1, <3>1, <3>2, PosAppend
  <2>. QED
    BY <2>3, <2>4, Zenon DEF TypeOK, Types, PosOK
<1>6. ASSUME NEW x \in End, TakeFirstReceivedMessage(x) PROVE TypeOK'
  <2>1. /\ recvd[x] # <<>>
        /\ recvd' = [recvd EXCEPT ![x] = Tail(@)]
        /\ got' = [got EXCEPT ![x] = Append(@, Head(recvd[x]))]
        /\ state' = state /\ sock' = sock /\ wire' = wire /\ pos' = pos
        /\ cur' = cur /\ sendList' = sendList /\ queued' = queued /\ torn' = torn
        /\ breaks' = breaks
    BY <1>6 DEF TakeFirstReceivedMessage, net
  <2>2. Tail(recvd[x]) \in Seq(Seq(Nat)) /\ Append(got[x], Head(recvd[x])) \in Seq(Seq(Nat))
    BY <1>0, <2>1 DEF Types
  <2>3. Types'
    BY <1>0, <2>1, <2>2 DEF Types
  <2>. QED
    BY <1>0, <2>1, <2>3, Zenon DEF TypeOK, Types, PosOK
<1>7. ASSUME UNCHANGED <<lists, queued, got, torn>>, breaks' \in 0..MaxBreaks,
             wire' \in [End -> Seq(Nat)],
             state' \in [End -> {"unconnected", "connecting", "connected"}],
             sock' \in [End -> {"none", "syn", "refused", "ok", "dead"}]
      PROVE  TypeOK'
  <2>1. Types'
    BY <1>0, <1>7 DEF Types, lists
  <2>. QED
    BY <1>0, <1>7, <2>1, Zenon DEF TypeOK, Types, PosOK, lists
<1>8. CASE ConnectStep
  <2>1. CASE StartConnect
    <3>1. /\ sock' = [x \in End |-> "ok"] \/ sock' = [sock EXCEPT !["client"] = "syn"]
          /\ \/ state' = [state EXCEPT !["client"] = "connected"]
             \/ state' = [state EXCEPT !["client"] = "connecting"]
          /\ wire' = wire /\ UNCHANGED <<lists, queued, got, torn>> /\ breaks' = breaks
      BY <2>1 DEF StartConnect, ghost
    <3>2. sock' \in [End -> {"none", "syn", "refused", "ok", "dead"}]
      BY <1>0, <3>1 DEF Types
    <3>3. state' \in [End -> {"unconnected", "connecting", "connected"}]
      BY <1>0, <3>1 DEF Types
    <3>4. wire' \in [End -> Seq(Nat)] /\ breaks' \in 0..MaxBreaks
      BY <1>0, <3>1 DEF Types
    <3>. QED
      BY <1>7, <3>1, <3>2, <3>3, <3>4
  <2>2. CASE Handshake
    <3>1. /\ sock' = [x \in End |-> "ok"] \/ sock' = [sock EXCEPT !["client"] = "refused"]
          /\ wire' = wire /\ UNCHANGED <<lists, queued, got, torn>> /\ state' = state
          /\ breaks' = breaks \/ (breaks < MaxBreaks /\ breaks' = breaks + 1)
      BY <2>2 DEF Handshake
    <3>2. sock' \in [End -> {"none", "syn", "refused", "ok", "dead"}]
      BY <1>0, <3>1 DEF Types
    <3>3. breaks' \in 0..MaxBreaks
      BY <1>0, <3>1, Constants DEF Types
    <3>4. wire' \in [End -> Seq(Nat)] /\ state' \in [End -> {"unconnected", "connecting", "connected"}]
      BY <1>0, <3>1 DEF Types
    <3>. QED
      BY <1>7, <3>1, <3>2, <3>3, <3>4
  <2>3. CASE CheckConnect \/ Accept
    <3>1. /\ sock' = sock \/ sock' = [sock EXCEPT !["client"] = "dead"]
          /\ \/ state' = state
             \/ state' = [state EXCEPT !["client"] = "connected"]
             \/ state' = [state EXCEPT !["server"] = "connected"]
          /\ wire' = wire /\ UNCHANGED <<lists, queued, got, torn>> /\ breaks' = breaks
      BY <2>3 DEF CheckConnect, Accept, ghost
    <3>2. sock' \in [End -> {"none", "syn", "refused", "ok", "dead"}]
      BY <1>0, <3>1 DEF Types
    <3>3. state' \in [End -> {"unconnected", "connecting", "connected"}]
      BY <1>0, <3>1 DEF Types
    <3>4. wire' \in [End -> Seq(Nat)] /\ breaks' \in 0..MaxBreaks
      BY <1>0, <3>1 DEF Types
    <3>. QED
      BY <1>7, <3>1, <3>2, <3>3, <3>4
  <2>. QED
    BY <1>8, <2>1, <2>2, <2>3 DEF ConnectStep
<1>9. CASE AcceptRefused
  <2>1. /\ breaks < MaxBreaks /\ breaks' = breaks + 1
        /\ sock' = [sock EXCEPT !["server"] = "none",
                                !["client"] = IF @ = "ok" THEN "dead" ELSE @]
        /\ wire' = [wire EXCEPT !["server"] = <<>>]
        /\ UNCHANGED <<lists, queued, got, torn>> /\ state' = state
    BY <1>9 DEF AcceptRefused
  <2>2. sock' \in [End -> {"none", "syn", "refused", "ok", "dead"}]
    BY <1>0, <2>1 DEF Types
  <2>3. wire' \in [End -> Seq(Nat)]
    <3>1. <<>> \in Seq(Nat)
      OBVIOUS
    <3>. QED
      BY <1>0, <2>1, <3>1 DEF Types
  <2>4. breaks' \in 0..MaxBreaks /\ state' \in [End -> {"unconnected", "connecting", "connected"}]
    BY <1>0, <2>1, Constants DEF Types
  <2>. QED
    BY <1>7, <2>1, <2>2, <2>3, <2>4
<1>10. CASE Break
  <2>1. PICK k \in [End -> 0..Capacity] :
          /\ \A x \in End : k[x] <= Len(wire[x])
          /\ wire' = [x \in End |-> SubSeq(wire[x], 1, k[x])]
    BY <1>10 DEF Break
  <2>2. ASSUME NEW x \in End PROVE SubSeq(wire[x], 1, k[x]) \in Seq(Nat)
    <3>1. wire[x] \in Seq(Nat) /\ k[x] <= Len(wire[x]) /\ k[x] \in Nat
      BY <1>0, <2>1, Constants DEF Types
    <3>. QED
      BY <3>1
  <2>3. wire' \in [End -> Seq(Nat)]
    BY <2>1, <2>2
  <2>4. /\ breaks < MaxBreaks /\ breaks' = breaks + 1 /\ sock' = [x \in End |-> "dead"]
        /\ UNCHANGED <<lists, queued, got, torn>> /\ state' = state
    BY <1>10 DEF Break
  <2>5. /\ breaks' \in 0..MaxBreaks
        /\ state' \in [End -> {"unconnected", "connecting", "connected"}]
        /\ sock' \in [End -> {"none", "syn", "refused", "ok", "dead"}]
    BY <1>0, <2>4, Constants DEF Types
  <2>. QED
    BY <1>7, <2>3, <2>4, <2>5
<1>11. CASE UNCHANGED vars
  BY <1>0, <1>7, <1>11 DEF Types, vars, net, lists, ghost
<1>. QED
  BY <1>1, <1>2, <1>3, <1>4, <1>5, <1>6, <1>8, <1>9, <1>10, <1>11
     DEF Next, IoStep, WriteFails, ReadBadSize, ReadEof

\* Lists, positions, states and sockets keep their types, whatever the sizes
\* of the messages.
THEOREM TypeCorrect == Spec => []TypeOK
  BY InitType, TypeStep, PTL DEF Spec
-----------------------------------------------------------------------------
(* Lists to send: what is left of the messages queued.                     *)

\* The list l is what is left of q.
Rest(q, l) == /\ Len(l) <= Len(q)
              /\ \A i \in 1..Len(l) : l[i] = q[Len(q) - Len(l) + i]

\* A message is queued.
LEMMA RestAppend ==
  ASSUME NEW q \in Seq(Msg), NEW l \in Seq(Msg), NEW m \in Msg, Rest(q, l)
  PROVE  Rest(Append(q, m), Append(l, m))
<1>1. PICK a \in Nat : a = Len(q)
  OBVIOUS
<1>2. PICK b \in Nat : b = Len(l) /\ b <= a
  BY <1>1 DEF Rest
<1>3. Len(Append(q, m)) = a + 1 /\ Len(Append(l, m)) = b + 1
  BY <1>1, <1>2
<1>4. ASSUME NEW i \in 1..(b + 1)
      PROVE  Append(l, m)[i] = Append(q, m)[(a + 1) - (b + 1) + i]
  <2>1. CASE i = b + 1
    <3>1. (a + 1) - (b + 1) + i = a + 1
      BY <1>2, <2>1
    <3>2. Append(l, m)[b + 1] = m /\ Append(q, m)[a + 1] = m
      BY <1>1, <1>2
    <3>. QED
      BY <2>1, <3>1, <3>2
  <2>2. CASE i # b + 1
    <3>1. i \in 1..b /\ (a + 1) - (b + 1) + i = a - b + i /\ a - b + i \in 1..a
      BY <1>2, <2>2
    <3>2. Append(l, m)[i] = l[i] /\ Append(q, m)[a - b + i] = q[a - b + i]
      BY <1>1, <1>2, <3>1
    <3>3. l[i] = q[a - b + i]
      BY <1>1, <1>2, <3>1 DEF Rest
    <3>. QED
      BY <3>1, <3>2, <3>3
  <2>. QED
    BY <2>1, <2>2
<1>5. b + 1 <= a + 1
  BY <1>2
<1>. QED
  BY <1>3, <1>4, <1>5 DEF Rest

\* The first message of the list is sent.
LEMMA RestTail ==
  ASSUME NEW q \in Seq(Msg), NEW l \in Seq(Msg), l # <<>>, Rest(q, l)
  PROVE  /\ Rest(q, Tail(l)) /\ Len(Tail(l)) = Len(l) - 1 /\ Len(l) >= 1
         /\ Head(l) = q[Len(q) - Len(l) + 1]
<1>1. PICK a \in Nat : a = Len(q)
  OBVIOUS
<1>2. PICK b \in Nat : b = Len(l) /\ b <= a
  BY <1>1 DEF Rest
<1>3. b >= 1 /\ Len(Tail(l)) = b - 1
  BY <1>2
<1>4. ASSUME NEW i \in 1..(b - 1)
      PROVE  Tail(l)[i] = q[a - (b - 1) + i]
  <2>1. i + 1 \in 1..b /\ a - (b - 1) + i = a - b + (i + 1)
    BY <1>2, <1>3
  <2>2. Tail(l)[i] = l[i + 1]
    BY <1>2, <1>3
  <2>3. l[i + 1] = q[a - b + (i + 1)]
    BY <1>1, <1>2, <2>1 DEF Rest
  <2>. QED
    BY <2>1, <2>2, <2>3
<1>5. Head(l) = q[a - b + 1]
  <2>1. 1 \in 1..b /\ Head(l) = l[1]
    BY <1>3
  <2>. QED
    BY <1>1, <1>2, <2>1 DEF Rest
<1>. QED
  BY <1>1, <1>2, <1>3, <1>4, <1>5 DEF Rest

\* Every list to send is the rest of what was queued.
Suffix == \A x \in End : Rest(queued[x], sendList[x])

\* Every step keeps that.
LEMMA SuffixStep ==
  ASSUME TypeOK, Suffix, [Next]_vars
  PROVE  Suffix'
<1>0. /\ sendList \in [End -> Seq(Msg)] /\ queued \in [End -> Seq(Msg)]
      /\ \A x \in End : Rest(queued[x], sendList[x])
  BY DEF TypeOK, Suffix
<1>1. CASE sendList' = sendList /\ queued' = queued
  BY <1>0, <1>1 DEF Suffix
<1>2. ASSUME NEW x \in End, NEW m \in Msg, AddSendMessage(x, m) PROVE Suffix'
  <2>1. /\ sendList' = [sendList EXCEPT ![x] = Append(@, m)]
        /\ queued' = [queued EXCEPT ![x] = Append(@, m)]
    BY <1>2 DEF AddSendMessage
  <2>2. ASSUME NEW y \in End PROVE Rest(queued'[y], sendList'[y])
    <3>1. CASE y = x
      <4>1. queued'[y] = Append(queued[y], m) /\ sendList'[y] = Append(sendList[y], m)
        BY <1>0, <2>1, <3>1
      <4>. QED
        BY <1>0, <4>1, RestAppend
    <3>2. CASE y # x
      BY <1>0, <2>1, <3>2
    <3>. QED
      BY <3>1, <3>2
  <2>. QED
    BY <2>2 DEF Suffix
<1>3. ASSUME NEW x \in End, sendList[x] # <<>>,
             sendList' = [sendList EXCEPT ![x] = Tail(@)], queued' = queued
      PROVE  Suffix'
  <2>1. ASSUME NEW y \in End PROVE Rest(queued'[y], sendList'[y])
    BY <1>0, <1>3, RestTail
  <2>. QED
    BY <2>1 DEF Suffix
<1>4. ASSUME NEW x \in End, sendList' = [sendList EXCEPT ![x] = <<>>], queued' = queued
      PROVE  Suffix'
  <2>1. ASSUME NEW y \in End PROVE Rest(queued'[y], sendList'[y])
    <3>1. CASE y = x
      <4>1. sendList'[y] = <<>> /\ queued'[y] \in Seq(Msg)
        BY <1>0, <1>4, <3>1
      <4>2. Len(<<>>) = 0 /\ Len(queued'[y]) \in Nat
        BY <4>1
      <4>3. \A i : i \notin 1..0
        OBVIOUS
      <4>. QED
        BY <4>1, <4>2, <4>3 DEF Rest
    <3>2. CASE y # x
      BY <1>0, <1>4, <3>2
    <3>. QED
      BY <3>1, <3>2
  <2>. QED
    BY <2>1 DEF Suffix
<1>5. ASSUME NEW x \in End, WriteCurrentMessage(x) PROVE Suffix'
  <2>1. /\ sendList[x] # <<>> /\ queued' = queued
        /\ sendList' = sendList \/ sendList' = [sendList EXCEPT ![x] = Tail(@)]
    BY <1>5 DEF WriteCurrentMessage, AfterWrite, ghost
  <2>. QED
    BY <1>1, <1>3, <2>1
<1>6. ASSUME NEW x \in End, Disconnect(x) PROVE Suffix'
  <2>1. /\ queued' = queued
        /\ sendList' = sendList \/ sendList' = [sendList EXCEPT ![x] = <<>>]
    BY <1>6 DEF Disconnect
  <2>. QED
    BY <1>1, <1>4, <2>1
<1>7. ASSUME NEW x \in End, ReadCurrentMessage(x) \/ TakeFirstReceivedMessage(x) PROVE Suffix'
  BY <1>1, <1>7 DEF ReadCurrentMessage, TakeFirstReceivedMessage, ghost
<1>8. CASE ConnectStep \/ AcceptRefused \/ Break \/ UNCHANGED vars
  BY <1>1, <1>8 DEF ConnectStep, StartConnect, Handshake, CheckConnect, Accept,
                    AcceptRefused, Break, vars, lists, ghost
<1>. QED
  BY <1>2, <1>5, <1>6, <1>7, <1>8
     DEF Next, IoStep, WriteFails, ReadBadSize, ReadEof, AppDisconnect

-----------------------------------------------------------------------------
(* Connections                                                             *)

\* Both sides have a connection or neither; without one nothing is on its way,
\* and a connection begins with nothing half read or half sent.
Conn ==
  /\ sock["client"] = "ok" <=> sock["server"] = "ok"
  /\ sock["server"] = "none" => wire["server"] = <<>> /\ state["server"] = "unconnected"
  /\ state["server"] = "unconnected" =>
       cur["server"] = <<>> /\ pos["server"] = 0 /\ sendList["server"] = <<>>
  /\ state["client"] = "unconnected" => sock["client"] = "none"
  /\ sock["client"] \in {"none", "syn"} => wire["client"] = <<>>
  /\ sock["client"] = "syn" => sock["server"] = "none" /\ state["client"] = "connecting"
  /\ state["client"] # "connected" /\ ~torn => cur["client"] = <<>> /\ pos["client"] = 0

\* What a disconnect does to either end.
LEMMA DisconnectFacts ==
  ASSUME TypeOK, NEW x \in End, Disconnect(x)
  PROVE  /\ state'[x] = "unconnected" /\ state'[Other(x)] = state[Other(x)]
         /\ sock'[x] = "none"
         /\ sock'[Other(x)] = IF sock[Other(x)] = "ok" THEN "dead" ELSE sock[Other(x)]
         /\ wire'[x] = <<>> /\ wire'[Other(x)] = wire[Other(x)]
         /\ x = "server" => sendList'[x] = <<>> /\ pos'[x] = 0 /\ cur'[x] = <<>> /\ torn' = torn
         /\ x = "client" => /\ sendList'[x] = sendList[x] /\ pos'[x] = pos[x] /\ cur'[x] = cur[x]
                            /\ torn' = (torn \/ pos[x] > 0 \/ cur[x] # <<>>)
         /\ sendList'[Other(x)] = sendList[Other(x)] /\ pos'[Other(x)] = pos[Other(x)]
         /\ cur'[Other(x)] = cur[Other(x)]
         /\ recvd' = recvd /\ queued' = queued /\ got' = got
<1>0. Other(x) \in End /\ Other(x) # x
  BY TwoEnds
<1>1. state'[x] = "unconnected" /\ state'[Other(x)] = state[Other(x)]
  BY <1>0 DEF Disconnect, TypeOK
<1>2. /\ sock'[x] = "none"
      /\ sock'[Other(x)] = IF sock[Other(x)] = "ok" THEN "dead" ELSE sock[Other(x)]
  BY <1>0 DEF Disconnect, TypeOK
<1>3. wire'[x] = <<>> /\ wire'[Other(x)] = wire[Other(x)]
  BY <1>0 DEF Disconnect, TypeOK
<1>4. CASE x = "server"
  <2>1. /\ sendList' = [sendList EXCEPT ![x] = <<>>] /\ pos' = [pos EXCEPT ![x] = 0]
        /\ cur' = [cur EXCEPT ![x] = <<>>] /\ torn' = torn
    BY <1>4 DEF Disconnect
  <2>2. sendList'[x] = <<>> /\ sendList'[Other(x)] = sendList[Other(x)]
    BY <1>0, <2>1 DEF TypeOK
  <2>3. cur'[x] = <<>> /\ cur'[Other(x)] = cur[Other(x)]
    BY <1>0, <2>1 DEF TypeOK
  <2>4. pos'[x] = 0 /\ pos'[Other(x)] = pos[Other(x)]
    BY <1>0, <2>1 DEF TypeOK
  <2>5. recvd' = recvd /\ queued' = queued /\ got' = got
    BY DEF Disconnect
  <2>. QED
    BY <1>1, <1>2, <1>3, <1>4, <2>1, <2>2, <2>3, <2>4, <2>5
<1>5. CASE x = "client"
  BY <1>0, <1>1, <1>2, <1>3, <1>5, Zenon DEF Disconnect, TypeOK
<1>. QED
  BY <1>4, <1>5 DEF End

\* Every step keeps Conn.
LEMMA ConnKeeps ==
  ASSUME TypeOK, Conn, [Next]_vars
  PROVE  Conn'
<1>0. /\ "client" \in End /\ "server" \in End
      /\ Other("client") = "server" /\ Other("server") = "client"
  BY TwoEnds DEF End
<1>1. ASSUME Disconnect("server") PROVE Conn'
  BY <1>0, <1>1, DisconnectFacts DEF Conn
<1>2. ASSUME Disconnect("client") PROVE Conn'
  <2>1. pos["client"] \in Nat
    BY <1>0 DEF TypeOK
  <2>2. ~torn' => pos["client"] = 0 /\ cur["client"] = <<>>
    <3>1. torn' = (torn \/ pos["client"] > 0 \/ cur["client"] # <<>>)
      BY <1>0, <1>2, DisconnectFacts, Zenon
    <3>2. ~torn' => ~(pos["client"] > 0) /\ cur["client"] = <<>>
      BY <3>1, Zenon
    <3>. QED
      BY <2>1, <3>2
  <2>. QED
    BY <1>0, <1>2, <2>2, DisconnectFacts DEF Conn
<1>3. ASSUME NEW x \in End, WriteCurrentMessage(x) PROVE Conn'
  <2>1. /\ state[x] = "connected" /\ state' = state /\ sock' = sock /\ cur' = cur /\ torn' = torn
    BY <1>3 DEF WriteCurrentMessage, ghost
  <2>2. \A y \in End : y # x => sendList'[y] = sendList[y] /\ pos'[y] = pos[y]
    BY <1>3 DEF WriteCurrentMessage, AfterWrite, TypeOK
  <2>3. sock[x] # "ok" => wire' = wire
    BY <1>3 DEF WriteCurrentMessage, Deliver
  <2>4. wire'[x] = wire[x]
    BY <1>3, TwoEnds DEF WriteCurrentMessage, Deliver, TypeOK
  <2>. QED
    BY <1>0, <2>1, <2>2, <2>3, <2>4 DEF Conn, End
<1>4. ASSUME NEW x \in End, ReadCurrentMessage(x) PROVE Conn'
  <2>1. /\ state[x] = "connected" /\ state' = state /\ sock' = sock /\ torn' = torn
        /\ wire[x] # <<>> /\ sendList' = sendList /\ pos' = pos
    BY <1>4 DEF ReadCurrentMessage, ghost
  <2>2. \A y \in End : y # x => cur'[y] = cur[y] /\ wire'[y] = wire[y]
    <3>1. \E v : wire' = [wire EXCEPT ![x] = v]
      BY <1>4, Zenon DEF ReadCurrentMessage
    <3>2. \E v : cur' = [cur EXCEPT ![x] = v]
      BY <1>4, Zenon DEF ReadCurrentMessage
    <3>. QED
      BY <3>1, <3>2 DEF TypeOK
  <2>. QED
    BY <1>0, <2>1, <2>2 DEF Conn, End
<1>5. ASSUME NEW x \in End, NEW m \in Msg, AddSendMessage(x, m) PROVE Conn'
  <2>1. /\ state' = state /\ sock' = sock /\ wire' = wire /\ pos' = pos /\ cur' = cur
        /\ torn' = torn /\ (x = "server" => state[x] = "connected")
    BY <1>5 DEF AddSendMessage, net
  <2>2. \A y \in End : y # x => sendList'[y] = sendList[y]
    BY <1>5 DEF AddSendMessage, TypeOK
  <2>. QED
    BY <1>0, <2>1, <2>2 DEF Conn, End
<1>6. ASSUME NEW x \in End, TakeFirstReceivedMessage(x) PROVE Conn'
  BY <1>6 DEF Conn, TakeFirstReceivedMessage, net
<1>7. CASE ConnectStep
  <2>0. wire' = wire /\ lists' = lists /\ torn' = torn
    BY <1>7 DEF ConnectStep, StartConnect, Handshake, CheckConnect, Accept, ghost
  <2>1. CASE StartConnect
    <3>1. /\ state["client"] = "unconnected" /\ sock["server"] = "none"
          /\ \/ /\ state' = [state EXCEPT !["client"] = "connected"]
                /\ sock' = [x \in End |-> "ok"]
             \/ /\ state' = [state EXCEPT !["client"] = "connecting"]
                /\ sock' = [sock EXCEPT !["client"] = "syn"]
      BY <2>1 DEF StartConnect
    <3>2. /\ \/ state'["client"] = "connected" /\ sock'["client"] = "ok" /\ sock'["server"] = "ok"
             \/ /\ state'["client"] = "connecting" /\ sock'["client"] = "syn"
                /\ sock'["server"] = sock["server"]
          /\ state'["server"] = state["server"]
      BY <1>0, <3>1 DEF TypeOK
    <3>. QED
      BY <2>0, <3>1, <3>2 DEF Conn, lists
  <2>2. CASE Handshake
    <3>1. /\ sock["client"] = "syn" /\ state' = state
          /\ \/ sock' = [x \in End |-> "ok"]
             \/ sock' = [sock EXCEPT !["client"] = "refused"]
      BY <2>2 DEF Handshake
    <3>2. \/ sock'["client"] = "ok" /\ sock'["server"] = "ok"
          \/ sock'["client"] = "refused" /\ sock'["server"] = sock["server"]
      BY <1>0, <3>1 DEF TypeOK
    <3>. QED
      BY <2>0, <3>1, <3>2 DEF Conn, lists
  <2>3. CASE CheckConnect
    <3>1. /\ state["client"] = "connecting"
          /\ \/ /\ sock["client"] = "refused" /\ state' = state
                /\ sock' = [sock EXCEPT !["client"] = "dead"]
             \/ /\ sock["client"] \in {"ok", "dead"} /\ sock' = sock
                /\ state' = [state EXCEPT !["client"] = "connected"]
      BY <2>3 DEF CheckConnect
    <3>2. /\ \/ /\ sock["client"] = "refused" /\ state' = state /\ sock'["client"] = "dead"
             \/ /\ sock["client"] \in {"ok", "dead"} /\ sock' = sock
                /\ state'["client"] = "connected"
          /\ state'["server"] = state["server"] /\ sock'["server"] = sock["server"]
      BY <1>0, <3>1 DEF TypeOK
    <3>. QED
      BY <2>0, <3>1, <3>2 DEF Conn, lists
  <2>4. CASE Accept
    <3>1. /\ sock["server"] # "none" /\ sock' = sock
          /\ state' = [state EXCEPT !["server"] = "connected"]
      BY <2>4 DEF Accept
    <3>2. state'["client"] = state["client"] /\ state'["server"] = "connected"
      BY <1>0, <3>1 DEF TypeOK
    <3>. QED
      BY <2>0, <3>1, <3>2 DEF Conn, lists
  <2>. QED
    BY <1>7, <2>1, <2>2, <2>3, <2>4 DEF ConnectStep
<1>8. CASE AcceptRefused
  <2>1. /\ state["server"] = "unconnected" /\ state' = state /\ lists' = lists /\ torn' = torn
        /\ sock' = [sock EXCEPT !["server"] = "none",
                                !["client"] = IF @ = "ok" THEN "dead" ELSE @]
        /\ wire' = [wire EXCEPT !["server"] = <<>>]
    BY <1>8 DEF AcceptRefused
  <2>2. /\ sock'["server"] = "none"
        /\ sock'["client"] = IF sock["client"] = "ok" THEN "dead" ELSE sock["client"]
        /\ wire'["server"] = <<>> /\ wire'["client"] = wire["client"]
    BY <1>0, <2>1 DEF TypeOK
  <2>. QED
    BY <2>1, <2>2 DEF Conn, lists
<1>9. CASE Break
  <2>1. /\ sock["client"] = "ok" /\ sock["server"] = "ok" /\ state' = state
        /\ lists' = lists /\ torn' = torn /\ sock' = [x \in End |-> "dead"]
    BY <1>9 DEF Break
  <2>2. sock'["client"] = "dead" /\ sock'["server"] = "dead"
    BY <1>0, <2>1
  <2>. QED
    BY <2>1, <2>2 DEF Conn, lists
<1>10. CASE UNCHANGED vars
  BY <1>10 DEF Conn, vars, net, lists, ghost
<1>11. ASSUME NEW x \in End, Disconnect(x) PROVE Conn'
  BY <1>1, <1>2, <1>11 DEF End
<1>. QED
  BY <1>3, <1>4, <1>5, <1>6, <1>7, <1>8, <1>9, <1>10, <1>11
     DEF Next, IoStep, WriteFails, ReadBadSize, ReadEof, AppDisconnect
-----------------------------------------------------------------------------
(* Streams                                                                 *)

\* The messages x has sent completely, or lost.
Sent(x) == Len(queued[x]) - Len(sendList[x])

\* The bytes y has of a message and the bytes on their way to it are those of
\* messages x has queued after the ones y has received.
StreamOK(x, y) ==
  Framed(cur[y] \o wire[y], queued[x], Sent(x), Received(y), sock[x], pos[x], Len(cur[y]))

StreamsOK == StreamOK("client", "server") /\ StreamOK("server", "client")

\* Neither the bytes on their way from x to y nor the sender's socket change.
StreamKept(x, y) == wire'[y] = wire[y] /\ sock'[x] = sock[x]

\* Numbers and types of a sender.
LEMMA SenderFacts ==
  ASSUME TypeOK, Suffix, NEW x \in End
  PROVE  /\ queued[x] \in Seq(Msg) /\ sendList[x] \in Seq(Msg) /\ pos[x] \in Nat
         /\ Len(queued[x]) \in Nat /\ Len(sendList[x]) \in Nat
         /\ Sent(x) \in Nat /\ Sent(x) <= Len(queued[x])
         /\ sendList[x] # <<>> =>
              /\ Sent(x) + 1 \in 1..Len(queued[x])
              /\ Head(sendList[x]) = queued[x][Sent(x) + 1]
              /\ pos[x] < Len(queued[x][Sent(x) + 1])
         /\ pos[x] > 0 => sendList[x] # <<>>
<1>1. /\ queued[x] \in Seq(Msg) /\ sendList[x] \in Seq(Msg) /\ pos[x] \in Nat
      /\ Rest(queued[x], sendList[x])
  BY DEF TypeOK, Suffix
<1>2. Len(queued[x]) \in Nat /\ Len(sendList[x]) \in Nat
  BY <1>1
<1>3. Len(sendList[x]) <= Len(queued[x])
  BY <1>1 DEF Rest
<1>7. PICK a \in Nat, b \in Nat : a = Len(queued[x]) /\ b = Len(sendList[x]) /\ b <= a
  BY <1>2, <1>3
<1>8. b <= a
  BY <1>7
<1>9. Sent(x) = a - b
  BY <1>7 DEF Sent
<1>4. Sent(x) \in Nat /\ Sent(x) <= Len(queued[x])
  <2>1. a - b \in Nat /\ a - b <= a
    BY <1>8
  <2>. QED
    BY <1>7, <1>9, <2>1
<1>5. IF sendList[x] = <<>> THEN pos[x] = 0 ELSE pos[x] < Len(Head(sendList[x]))
  BY DEF TypeOK
<1>6. ASSUME sendList[x] # <<>>
      PROVE  /\ Sent(x) + 1 \in 1..Len(queued[x])
             /\ Head(sendList[x]) = queued[x][Sent(x) + 1]
  <2>1. b >= 1 /\ Head(sendList[x]) = queued[x][a - b + 1]
    BY <1>1, <1>6, <1>7, RestTail
  <2>2. a - b + 1 \in 1..a
    BY <1>8, <2>1
  <2>. QED
    BY <1>7, <1>9, <2>1, <2>2
<1>. QED
  BY <1>1, <1>2, <1>4, <1>5, <1>6

\* Types of a receiver.
LEMMA ReceiverFacts ==
  ASSUME TypeOK, NEW y \in End
  PROVE  /\ cur[y] \in Seq(Nat) /\ wire[y] \in Seq(Nat) /\ Received(y) \in Seq(Seq(Nat))
         /\ cur[y] \o wire[y] \in Seq(Nat)
         /\ Len(cur[y]) \in Nat /\ Len(wire[y]) \in Nat
         /\ Len(cur[y] \o wire[y]) = Len(cur[y]) + Len(wire[y])
         /\ \A i \in 1..Len(cur[y]) : (cur[y] \o wire[y])[i] = cur[y][i]
         /\ \A i \in 1..Len(wire[y]) : (cur[y] \o wire[y])[Len(cur[y]) + i] = wire[y][i]
<1>1. /\ cur[y] \in Seq(Nat) /\ wire[y] \in Seq(Nat)
      /\ recvd[y] \in Seq(Seq(Nat)) /\ got[y] \in Seq(Seq(Nat))
  BY DEF TypeOK
<1>2. Received(y) \in Seq(Seq(Nat))
  BY <1>1 DEF Received
<1>. QED
  BY <1>1, <1>2, CatFacts

\* Nothing happens to a stream.
LEMMA StreamSame ==
  ASSUME NEW x, NEW y, StreamOK(x, y),
         cur'[y] = cur[y], wire'[y] = wire[y], recvd'[y] = recvd[y], got'[y] = got[y],
         queued'[x] = queued[x], sendList'[x] = sendList[x], sock'[x] = sock[x],
         pos'[x] = pos[x]
  PROVE  StreamOK(x, y)'
  BY DEF StreamOK, Sent, Received

\* The sender has no connection any more.
LEMMA StreamCut ==
  ASSUME TypeOK, Suffix, TypeOK', Suffix', NEW x \in End, NEW y \in End,
         StreamOK(x, y), cur'[y] = cur[y], Begins(wire'[y], wire[y]),
         recvd'[y] = recvd[y], got'[y] = got[y], queued'[x] = queued[x],
         Len(sendList'[x]) <= Len(sendList[x]), sock'[x] # "ok"
  PROVE  StreamOK(x, y)'
<1>1. PICK s : s = cur[y] \o wire[y]
  OBVIOUS
<1>2. PICK t : t = cur'[y] \o wire'[y]
  OBVIOUS
<1>3. cur[y] \in Seq(Nat) /\ wire[y] \in Seq(Nat) /\ wire'[y] \in Seq(Nat) /\ t = cur[y] \o wire'[y]
  BY <1>2 DEF TypeOK
<1>4. PICK c \in Nat : c = Len(cur[y]) /\ c <= Len(t)
  BY <1>3, CatFacts
<1>8. Begins(t, s)
  BY <1>1, <1>3, CatBegins
<1>5. queued[x] \in Seq(Msg) /\ Sent(x) \in Nat /\ Sent(x)' \in Nat /\ Sent(x) <= Sent(x)'
  <2>1. queued[x] \in Seq(Msg) /\ Len(queued[x]) \in Nat /\ Len(sendList[x]) \in Nat /\ Sent(x) \in Nat
    BY SenderFacts
  <2>2. Rest(queued'[x], sendList'[x]) /\ sendList'[x] \in Seq(Msg)
    BY DEF TypeOK, Suffix
  <2>3. Len(sendList'[x]) \in Nat
    BY <2>2
  <2>4. Len(sendList'[x]) <= Len(queued'[x])
    BY <2>2 DEF Rest
  <2>5. PICK a \in Nat, b \in Nat, d \in Nat :
          a = Len(queued[x]) /\ b = Len(sendList[x]) /\ d = Len(sendList'[x]) /\ d <= b /\ d <= a
    BY <2>1, <2>3, <2>4
  <2>6. Sent(x) = a - b /\ Sent(x)' = a - d
    BY <2>5 DEF Sent
  <2>7. a - d \in Nat /\ a - b <= a - d
    BY <2>5
  <2>. QED
    BY <2>1, <2>6, <2>7
<1>6. Framed(s, queued[x], Sent(x), Received(y), sock[x], pos[x], c)
  BY <1>1, <1>4 DEF StreamOK
<1>7. Framed(t, queued[x], Sent(x)', Received(y), sock'[x], pos'[x], c)
  BY <1>4, <1>8, <1>5, <1>6, FramedCut
<1>. QED
  BY <1>2, <1>4, <1>7 DEF StreamOK, Received

\* The receiver has nothing, and nothing is on its way.
LEMMA StreamReset ==
  ASSUME TypeOK, Suffix, TypeOK', Suffix', NEW x \in End, NEW y \in End,
         StreamOK(x, y), cur'[y] = <<>>, wire'[y] = <<>>,
         recvd'[y] = recvd[y], got'[y] = got[y], queued'[x] = queued[x],
         sendList'[x] = sendList[x], sock'[x] = "ok" => pos'[x] = 0
  PROVE  StreamOK(x, y)'
<1>1. PICK s : s = cur[y] \o wire[y]
  OBVIOUS
<1>2. Len(s) \in Nat
  BY <1>1, CatFacts, ReceiverFacts
<1>3. queued[x] \in Seq(Msg) /\ Sent(x) \in Nat /\ Sent(x) <= Sent(x)
  BY SenderFacts
<1>4. Framed(s, queued[x], Sent(x), Received(y), sock[x], pos[x], Len(cur[y]))
  BY <1>1 DEF StreamOK
<1>5. Framed(<<>>, queued[x], Sent(x), Received(y), sock'[x], pos'[x], 0)
  BY <1>2, <1>3, <1>4, FramedReset
<1>6. cur'[y] \o wire'[y] = <<>> /\ Len(cur'[y]) = 0
  OBVIOUS
<1>7. Sent(x)' = Sent(x) /\ Received(y)' = Received(y)
  BY DEF Sent, Received
<1>. QED
  BY <1>5, <1>6, <1>7 DEF StreamOK

\* AddSendMessage.
LEMMA StreamQueue ==
  ASSUME TypeOK, Suffix, NEW x \in End, NEW y \in End, NEW m \in Msg, StreamOK(x, y),
         AddSendMessage(x, m)
  PROVE  StreamOK(x, y)'
<1>1. /\ sendList'[x] = Append(sendList[x], m) /\ queued'[x] = Append(queued[x], m)
      /\ sock' = sock /\ wire' = wire /\ pos' = pos /\ cur' = cur /\ recvd' = recvd /\ got' = got
  BY DEF AddSendMessage, net, TypeOK
<1>2. PICK q \in Seq(Msg) : q = queued[x]
  BY SenderFacts
<1>3. PICK q2 : q2 = Append(q, m)
  OBVIOUS
<1>4. /\ q2 \in Seq(Msg) /\ Len(q) <= Len(q2) /\ \A i \in 1..Len(q) : q2[i] = q[i]
      /\ queued'[x] = q2
  BY <1>1, <1>2, <1>3
<1>5. Sent(x)' = Sent(x)
  <2>1. PICK l \in Seq(Msg) : l = sendList[x]
    BY SenderFacts
  <2>2. PICK a \in Nat, b \in Nat : a = Len(q) /\ b = Len(l)
    BY <2>1
  <2>3. Len(q2) = a + 1 /\ Len(Append(l, m)) = b + 1
    BY <1>3, <2>2
  <2>4. Sent(x) = a - b /\ Sent(x)' = (a + 1) - (b + 1)
    BY <1>1, <1>2, <1>4, <2>1, <2>2, <2>3 DEF Sent
  <2>5. (a + 1) - (b + 1) = a - b
    OBVIOUS
  <2>. QED
    BY <2>4, <2>5
<1>6. Sent(x) \in Nat /\ Sent(x) <= Len(q)
  BY <1>2, SenderFacts
<1>7. PICK s : s = cur[y] \o wire[y]
  OBVIOUS
<1>8. Len(cur[y]) \in Nat /\ Len(s) \in Nat /\ Len(cur[y]) <= Len(s)
  BY <1>7, CatFacts, ReceiverFacts
<1>9. Framed(s, q, Sent(x), Received(y), sock[x], pos[x], Len(cur[y]))
  BY <1>2, <1>7 DEF StreamOK
<1>10. Framed(s, q2, Sent(x), Received(y), sock[x], pos[x], Len(cur[y]))
  BY <1>4, <1>6, <1>8, <1>9, FramedQueue
<1>. QED
  BY <1>1, <1>4, <1>5, <1>7, <1>10 DEF StreamOK, Received

\* WriteCurrentMessage: bytes are appended, or lost.
LEMMA StreamWrite ==
  ASSUME TypeOK, Suffix, TypeOK', Suffix', NEW x \in End, NEW y \in End, y = Other(x),
         StreamOK(x, y), WriteCurrentMessage(x)
  PROVE  StreamOK(x, y)'
<1>0. /\ sock' = sock /\ cur' = cur /\ recvd' = recvd /\ got' = got /\ queued' = queued
      /\ sendList[x] # <<>>
  BY DEF WriteCurrentMessage, ghost
<1>1. PICK m : m = queued[x][Sent(x) + 1]
  OBVIOUS
<1>2. PICK L \in Nat : L = Len(m)
  <2>1. m \in Msg
    BY <1>0, <1>1, SenderFacts
  <2>. QED
    BY <2>1, Constants
<1>3. PICK p \in Nat : p = pos[x] /\ p < L /\ m \in Msg /\ Head(sendList[x]) = m
  BY <1>0, <1>1, <1>2, SenderFacts
<1>4. PICK p8 \in Nat : p8 = p % PosMod /\ p8 <= p /\ (p < PosMod => p8 = p)
  <2>1. PosMod \in Nat \ {0}
    BY Constants
  <2>2. p % PosMod \in Nat /\ p % PosMod <= p
    BY <2>1, ModLess
  <2>3. p < PosMod => p % PosMod = p
    BY <2>1, ModSmall
  <2>. QED
    BY <2>2, <2>3
<1>5. PICK n \in 1..(L - p) :
        Deliver(x, SubSeq(m, p8 + 1, p8 + n)) /\ AfterWrite(x, n, L - p)
  BY <1>2, <1>3, <1>4 DEF WriteCurrentMessage
<1>6. n \in Nat /\ n >= 1 /\ p + n <= L
  BY <1>2, <1>3, <1>5
<1>7. PICK sent \in Nat : sent = Sent(x)
  BY SenderFacts
<1>8. PICK sent2 \in Nat, p2 \in Nat :
        /\ sent2 = Sent(x)' /\ p2 = pos'[x] /\ Len(sendList'[x]) <= Len(sendList[x])
        /\ \/ p + n = L /\ sent2 = sent + 1 /\ p2 = 0
           \/ p + n < L /\ sent2 = sent /\ p2 = p + n
  <2>1. Len(sendList[x]) \in Nat /\ Len(queued[x]) \in Nat
    BY SenderFacts
  <2>2. CASE n = L - p
    <3>1. sendList'[x] = Tail(sendList[x]) /\ pos'[x] = 0
      BY <1>5, <2>2 DEF AfterWrite, TypeOK
    <3>2. Len(Tail(sendList[x])) = Len(sendList[x]) - 1
      BY <1>0, SenderFacts
    <3>3. Sent(x)' = sent + 1
      <4>1. PICK a \in Nat, b \in Nat : a = Len(queued[x]) /\ b = Len(sendList[x])
        BY <2>1
      <4>2. sent = a - b /\ Sent(x)' = a - (b - 1)
        BY <1>0, <1>7, <3>1, <3>2, <4>1 DEF Sent
      <4>. QED
        BY <4>1, <4>2
    <3>. QED
      BY <1>6, <2>1, <2>2, <3>1, <3>2, <3>3
  <2>3. CASE n # L - p
    <3>1. sendList'[x] = sendList[x] /\ pos'[x] = p + n
      BY <1>3, <1>5, <2>3 DEF AfterWrite, TypeOK
    <3>2. Sent(x)' = sent
      BY <1>0, <1>7, <3>1 DEF Sent
    <3>. QED
      BY <1>6, <2>1, <2>3, <3>1, <3>2
  <2>. QED
    BY <2>2, <2>3
<1>9. CASE sock[x] = "ok"
  <2>1. PICK s : s = cur[y] \o wire[y]
    OBVIOUS
  <2>2. PICK t : t = cur'[y] \o wire'[y]
    OBVIOUS
  <2>3. PICK v : v = SubSeq(m, p8 + 1, p8 + n)
    OBVIOUS
  <2>4. v \in Seq(Nat) /\ Len(v) = n /\ \A i \in 1..n : v[i] = m[p8 + i]
    <3>1. m \in Seq(Nat) /\ p8 + n <= Len(m)
      BY <1>2, <1>3, <1>4, <1>6, Constants
    <3>. QED
      BY <1>2, <1>6, <2>3, <3>1
  <2>5. wire'[y] = wire[y] \o v
    BY <1>5, <1>9, <2>3 DEF Deliver, TypeOK
  <2>6. s \in Seq(Nat) /\ t = s \o v
    <3>1. cur[y] \in Seq(Nat) /\ wire[y] \in Seq(Nat)
      BY ReceiverFacts
    <3>2. (cur[y] \o wire[y]) \o v = cur[y] \o (wire[y] \o v)
      BY ZenonT(60), <2>4, <3>1, Associative
    <3>. QED
      BY <1>0, <2>1, <2>2, <2>5, <3>1, <3>2
  <2>7. PICK l \in Nat : l = Len(s)
    BY <2>6
  <2>8. PICK e \in Nat : e = Len(t) /\ e = l + n
    <3>1. Len(t) = l + n
      BY <2>4, <2>6, <2>7, CatFacts
    <3>. QED
      BY <1>6, <3>1
  <2>9. PICK c \in Nat : c = Len(cur[y]) /\ c <= l
    <3>1. Len(cur[y]) \in Nat /\ Len(cur[y]) <= l
      BY <2>1, <2>7, CatFacts, ReceiverFacts
    <3>. QED
      BY <3>1
  <2>10. PICK q \in Seq(Msg) : q = queued[x]
    BY SenderFacts
  <2>11. Longer(t, s, l, e, q, sent + 1, m, L, p, n)
    <3>1. sent + 1 \in 1..Len(q)
      BY <1>0, <1>7, <2>10, SenderFacts
    <3>2. \A i \in 1..l : t[i] = s[i]
      BY <2>4, <2>6, <2>7
    <3>3. ASSUME NEW i \in 1..n, p + i <= PosMod PROVE t[l + i] = m[p + i]
      <4>1. p < PosMod
        <5>1. PosMod \in Nat
          BY Constants
        <5>. QED
          BY <3>3, <5>1
      <4>2. p8 = p
        BY <1>4, <4>1
      <4>3. t[l + i] = v[i]
        BY <2>4, <2>6, <2>7
      <4>. QED
        BY <2>4, <4>2, <4>3
    <3>. QED
      BY <1>1, <1>2, <1>7, <2>7, <2>8, <2>10, <3>1, <3>2, <3>3 DEF Longer
  <2>12. PICK r : r = Received(y)
    OBVIOUS
  <2>13. Framed(s, q, sent, r, "ok", p, c)
    BY <1>3, <1>7, <1>9, <2>1, <2>9, <2>10, <2>12 DEF StreamOK
  <2>14. Framed(t, q, sent2, r, "ok", p2, c)
    BY <1>6, <1>8, <2>8, <2>9, <2>11, <2>13, FramedWrite
  <2>. QED
    BY <1>0, <1>8, <1>9, <2>2, <2>9, <2>10, <2>12, <2>14 DEF StreamOK, Received
<1>10. CASE sock[x] # "ok"
  <2>1. wire' = wire
    BY <1>5, <1>10 DEF Deliver
  <2>2. Begins(wire'[y], wire[y])
    BY <2>1, ReceiverFacts DEF Begins
  <2>. QED
    BY <1>0, <1>8, <1>10, <2>2, StreamCut
<1>. QED
  BY <1>9, <1>10

\* ReadCurrentMessage: bytes become part of a message, or complete it.
LEMMA StreamRead ==
  ASSUME TypeOK, Suffix, NEW x \in End, NEW y \in End, StreamOK(x, y),
         ReadCurrentMessage(y)
  PROVE  StreamOK(x, y)'
<1>0. /\ sock' = sock /\ sendList' = sendList /\ pos' = pos /\ got' = got /\ queued' = queued
      /\ wire[y] # <<>> /\ BytesNeeded(cur[y]) > 0
  BY DEF ReadCurrentMessage, ghost
<1>1. PICK n \in 1..BytesNeeded(cur[y]) :
        LET c == cur[y] \o SubSeq(wire[y], 1, n)
        IN  /\ n <= Len(wire[y])
            /\ wire' = [wire EXCEPT ![y] = SubSeq(@, n + 1, Len(@))]
            /\ IF BytesNeeded(c) = 0
               THEN /\ cur' = [cur EXCEPT ![y] = <<>>]
                    /\ recvd' = [recvd EXCEPT ![y] = Append(@, c)]
               ELSE /\ cur' = [cur EXCEPT ![y] = c]
                    /\ UNCHANGED recvd
  BY DEF ReadCurrentMessage
<1>2. PICK d : d = cur[y] \o SubSeq(wire[y], 1, n)
  OBVIOUS
<1>3. PICK w : w = SubSeq(wire[y], n + 1, Len(wire[y]))
  OBVIOUS
<1>4. /\ n <= Len(wire[y]) /\ wire'[y] = w
      /\ BytesNeeded(d) = 0 => cur'[y] = <<>> /\ recvd'[y] = Append(recvd[y], d)
      /\ BytesNeeded(d) # 0 => cur'[y] = d /\ recvd' = recvd
  BY <1>1, <1>2, <1>3 DEF TypeOK
<1>5. /\ cur[y] \in Seq(Nat) /\ wire[y] \in Seq(Nat) /\ Received(y) \in Seq(Seq(Nat))
      /\ Len(cur[y]) \in Nat /\ Len(wire[y]) \in Nat
  BY ReceiverFacts
<1>6. PICK s : s = cur[y] \o wire[y]
  OBVIOUS
<1>7. n \in 1..Len(wire[y])
  BY <1>1, <1>4, <1>5
<1>8. d \o w = s
  BY <1>2, <1>3, <1>5, <1>6, <1>7, MoveBytes
<1>9. PICK c \in Nat : c = Len(cur[y])
  BY <1>5
<1>10. d \in Seq(Nat) /\ w \in Seq(Nat) /\ Len(d) = c + n /\ \A i \in 1..c : d[i] = cur[y][i]
  <2>1. SubSeq(wire[y], 1, n) \in Seq(Nat) /\ Len(SubSeq(wire[y], 1, n)) = n
    BY <1>5, <1>7
  <2>2. w \in Seq(Nat)
    BY <1>3, <1>5, <1>7
  <2>. QED
    BY <1>2, <1>5, <1>9, <2>1, <2>2
<1>11. /\ Len(s) \in Nat /\ Len(s) = (c + n) + Len(w) /\ Len(w) \in Nat
       /\ \A i \in 1..(c + n) : s[i] = d[i]
       /\ \A i \in 1..Len(w) : s[(c + n) + i] = w[i]
  <2>1. Len(d) = c + n /\ d \in Seq(Nat) /\ w \in Seq(Nat)
    BY <1>10
  <2>2. /\ Len(d \o w) \in Nat /\ Len(d \o w) = Len(d) + Len(w) /\ Len(w) \in Nat
        /\ \A i \in 1..Len(d) : (d \o w)[i] = d[i]
        /\ \A i \in 1..Len(w) : (d \o w)[Len(d) + i] = w[i]
    BY <2>1, CatFacts
  <2>. QED
    BY <1>8, <2>1, <2>2
<1>12. PICK m \in Msg :
         First(m, s, queued[x], Sent(x), Received(y), sock[x], pos[x], c)
  <2>1. Framed(s, queued[x], Sent(x), Received(y), sock[x], pos[x], c)
    BY <1>6, <1>9 DEF StreamOK
  <2>2. Len(s) > 0
    BY <1>7, <1>11
  <2>3. /\ queued[x] \in Seq(Msg) /\ Sent(x) \in Nat /\ pos[x] \in Nat
        /\ pos[x] > 0 => pos[x] < Len(queued[x][Sent(x) + 1])
    BY SenderFacts
  <2>. QED
    BY <1>5, <1>11, <2>1, <2>2, <2>3, FramedFirst
<1>13. PICK L \in Nat : L = Len(m) /\ L >= HdrLen /\ L >= 1 /\ m[1] = L /\ m \in Seq(Nat)
  BY Constants
<1>14. ASSUME NEW j \in 1..L, j <= PosMod, j <= c + n PROVE d[j] = m[j]
  <2>1. j <= Len(s) /\ j \in 1..(c + n)
    BY <1>7, <1>11, <1>14
  <2>. QED
    BY <1>11, <1>12, <1>13, <1>14, <2>1 DEF First
<1>15. ASSUME c >= 1 PROVE cur[y][1] = L
  <2>1. 1 \in 1..c /\ 1 \in 1..L /\ 1 <= c + n /\ 1 <= PosMod
    BY <1>7, <1>13, <1>15, Constants
  <2>2. d[1] = m[1] /\ d[1] = cur[y][1]
    BY <1>10, <1>14, <2>1
  <2>. QED
    BY <1>13, <2>2
<1>16. c + n >= 1 /\ d[1] = L
  <2>1. c + n >= 1 /\ 1 \in 1..L /\ 1 <= PosMod
    BY <1>7, <1>13, Constants
  <2>. QED
    BY <1>13, <1>14, <2>1
<1>17. c + n <= L
  <2>1. CASE c < HdrLen
    <3>1. BytesNeeded(cur[y]) = HdrLen - c
      BY <1>9, <2>1 DEF BytesNeeded
    <3>. QED
      BY <1>1, <1>13, <2>1, <3>1, Constants
  <2>2. CASE c >= HdrLen
    <3>1. BytesNeeded(cur[y]) = L - c
      BY SMTT(30), <1>9, <1>15, <2>2, Constants DEF BytesNeeded
    <3>. QED
      BY <1>1, <1>13, <3>1
  <2>. QED
    BY <2>1, <2>2, Constants
<1>18. BytesNeeded(d) = 0 <=> c + n = L
  <2>1. CASE c + n < HdrLen
    <3>1. BytesNeeded(d) = HdrLen - (c + n)
      BY <1>10, <2>1 DEF BytesNeeded
    <3>. QED
      BY <1>7, <1>13, <2>1, <3>1, Constants
  <2>2. CASE c + n >= HdrLen
    <3>1. BytesNeeded(d) = L - (c + n)
      BY <1>7, <1>10, <1>16, <2>2, Constants DEF BytesNeeded
    <3>. QED
      BY <1>7, <1>13, <3>1
  <2>. QED
    BY <1>7, <2>1, <2>2, Constants
<1>19. CASE c + n = L
  <2>1. Arrived(d, m)
    <3>1. Len(d) = L /\ Len(m) = L
      BY <1>10, <1>13, <1>19
    <3>2. \A j \in 1..L : j <= PosMod => d[j] = m[j]
      BY <1>14, <1>19
    <3>3. d \in Seq(Nat)
      BY <1>10
    <3>. QED
      BY <3>1, <3>2, <3>3 DEF Arrived, Alike
  <2>2. cur'[y] = <<>> /\ recvd'[y] = Append(recvd[y], d)
    BY <1>4, <1>18, <1>19
  <2>3. Received(y)' = Append(Received(y), d)
    <3>1. got[y] \in Seq(Seq(Nat)) /\ recvd[y] \in Seq(Seq(Nat)) /\ d \in Seq(Nat)
      BY <1>10 DEF TypeOK
    <3>2. got[y] \o Append(recvd[y], d) = Append(got[y] \o recvd[y], d)
      BY <3>1, AppendLast
    <3>. QED
      BY <1>0, <2>2, <3>2 DEF Received
  <2>4. Ends(w, s, Len(m))
    <3>1. \A i \in 1..Len(w) : w[i] = s[i + L]
      BY <1>11, <1>19
    <3>2. Len(s) = Len(w) + L
      <4>1. PICK a \in Nat : a = Len(w)
        BY <1>11
      <4>2. Len(s) = L + a
        BY <1>11, <1>19, <4>1
      <4>3. L + a = a + L
        OBVIOUS
      <4>. QED
        BY <4>1, <4>2, <4>3
    <3>. QED
      BY <1>11, <1>13, <3>1, <3>2 DEF Ends
  <2>5. Framed(w, queued[x], Sent(x), Append(Received(y), d), sock[x], pos[x], 0)
    BY <1>12, <2>1, <2>4 DEF First
  <2>6. cur'[y] \o wire'[y] = w /\ Len(cur'[y]) = 0
    BY <1>4, <1>10, <2>2
  <2>7. Sent(x)' = Sent(x)
    BY <1>0 DEF Sent
  <2>. QED
    BY <1>0, <2>3, <2>5, <2>6, <2>7 DEF StreamOK
<1>20. CASE c + n # L
  <2>1. cur'[y] = d /\ recvd' = recvd
    BY <1>4, <1>18, <1>20
  <2>2. c + n \in Nat /\ c + n < L
    BY <1>7, <1>17, <1>20
  <2>3. Framed(s, queued[x], Sent(x), Received(y), sock[x], pos[x], c + n)
    BY <1>12, <1>13, <2>2 DEF First
  <2>4. cur'[y] \o wire'[y] = s /\ Len(cur'[y]) = c + n
    BY <1>4, <1>8, <1>10, <2>1
  <2>5. Sent(x)' = Sent(x) /\ Received(y)' = Received(y)
    BY <1>0, <2>1 DEF Sent, Received
  <2>. QED
    BY <1>0, <2>3, <2>4, <2>5 DEF StreamOK
<1>. QED
  BY <1>19, <1>20
-----------------------------------------------------------------------------
(* Steps and theorems                                                      *)

\* At the beginning there is nothing.
LEMMA InitStreams == Init => Suffix /\ Conn /\ StreamsOK
<1>. SUFFICES ASSUME Init PROVE Suffix /\ Conn /\ StreamsOK
  OBVIOUS
<1>0. "client" \in End /\ "server" \in End
  BY DEF End
<1>1. Suffix
  <2>1. Len(<<>>) = 0 /\ \A i : i \notin 1..0
    OBVIOUS
  <2>2. ASSUME NEW x \in End PROVE queued[x] = <<>> /\ sendList[x] = <<>>
    BY DEF Init
  <2>3. Rest(<<>>, <<>>)
    BY <2>1 DEF Rest
  <2>. QED
    BY <2>2, <2>3 DEF Suffix
<1>2. Conn
  BY <1>0 DEF Init, Conn
<1>3. Framed(<<>>, <<>>, 0, <<>>, "none", 0, 0)
  <2>1. PICK idx : idx = [i \in 0..0 |-> 1]
    OBVIOUS
  <2>2. idx \in [0..0 -> 1..(0 + 1)]
    <3>1. 1 \in 1..(0 + 1)
      OBVIOUS
    <3>. QED
      BY <2>1, <3>1
  <2>3. Len(<<>>) = 0 /\ \A i : i \notin 1..0
    OBVIOUS
  <2>4. PICK f : f = [i \in 1..0 |-> 1]
    OBVIOUS
  <2>5. f \in [1..0 -> Nat \ {0}]
    BY <2>4
  <2>6. Taken(<<>>, <<>>, idx[0], f)
    BY <2>3, <2>5 DEF Taken
  <2>7. Starts(<<>>, <<>>, {0}, idx)
    BY <2>3 DEF Starts
  <2>8. Parsed(<<>>, <<>>, 0, <<>>, "none", 0, 0, {0}, idx, f)
    BY <2>2, <2>3, <2>6, <2>7 DEF Parsed
  <2>. QED
    BY <2>8 DEF Framed
<1>4. ASSUME NEW x \in End, NEW y \in End PROVE StreamOK(x, y)
  <2>1. /\ cur[y] = <<>> /\ wire[y] = <<>> /\ recvd[y] = <<>> /\ got[y] = <<>>
        /\ queued[x] = <<>> /\ sendList[x] = <<>> /\ sock[x] = "none" /\ pos[x] = 0
    BY DEF Init
  <2>2. cur[y] \o wire[y] = <<>> /\ Received(y) = <<>> /\ Sent(x) = 0 /\ Len(cur[y]) = 0
    BY <2>1 DEF Received, Sent
  <2>. QED
    BY <1>3, <2>1, <2>2 DEF StreamOK
<1>. QED
  BY <1>0, <1>1, <1>2, <1>4 DEF StreamsOK

\* The client's loss is not forgotten.
LEMMA TornStays == torn /\ [Next]_vars => torn'
<1>1. ASSUME NEW x \in End, torn, Disconnect(x) PROVE torn'
  BY <1>1, Zenon DEF Disconnect
<1>2. ASSUME torn, UNCHANGED torn PROVE torn'
  BY <1>2, Zenon
<1>3. ASSUME NEW x \in End, \/ WriteCurrentMessage(x) \/ ReadCurrentMessage(x)
                            \/ TakeFirstReceivedMessage(x)
                            \/ \E m \in Msg : AddSendMessage(x, m)
      PROVE  UNCHANGED torn
  BY <1>3 DEF WriteCurrentMessage, ReadCurrentMessage, TakeFirstReceivedMessage,
              AddSendMessage, ghost
<1>4. ASSUME ConnectStep \/ AcceptRefused \/ Break \/ UNCHANGED vars PROVE UNCHANGED torn
  BY <1>4 DEF ConnectStep, StartConnect, Handshake, CheckConnect, Accept,
              AcceptRefused, Break, vars, ghost
<1>. QED
  BY <1>1, <1>2, <1>3, <1>4, Zenon
     DEF Next, IoStep, WriteFails, ReadBadSize, ReadEof, AppDisconnect

\* A disconnect: the stream to the end that disconnects begins anew, the one
\* from it is cut.
LEMMA StreamDisconnect ==
  ASSUME TypeOK, Suffix, Conn, TypeOK', Suffix', NEW x \in End, NEW y \in End, y = Other(x),
         StreamOK(x, y), StreamOK(y, x), Disconnect(x), ~torn'
  PROVE  StreamOK(x, y)' /\ StreamOK(y, x)'
<1>0. x = Other(y)
  BY TwoEnds
<1>1. /\ sock'[x] = "none" /\ sock'[y] # "ok" /\ wire'[x] = <<>> /\ wire'[y] = wire[y]
      /\ sendList'[y] = sendList[y] /\ cur'[y] = cur[y]
      /\ recvd' = recvd /\ queued' = queued /\ got' = got
  BY DisconnectFacts
<1>2. cur'[x] = <<>>
  <2>1. CASE x = "server"
    BY <2>1, DisconnectFacts
  <2>2. CASE x = "client"
    <3>1. torn' = (torn \/ pos[x] > 0 \/ cur[x] # <<>>) /\ cur'[x] = cur[x]
      BY <2>2, DisconnectFacts, Zenon
    <3>. QED
      BY <3>1, Zenon
  <2>. QED
    BY <2>1, <2>2 DEF End
<1>3. Len(sendList'[x]) <= Len(sendList[x])
  <2>1. Len(sendList[x]) \in Nat /\ Len(<<>>) = 0
    BY SenderFacts
  <2>2. sendList'[x] = sendList[x] \/ sendList'[x] = <<>>
    BY DisconnectFacts DEF End
  <2>. QED
    BY <2>1, <2>2
<1>4. Begins(wire'[y], wire[y])
  BY <1>1, ReceiverFacts DEF Begins
<1>5. StreamOK(x, y)'
  BY <1>1, <1>3, <1>4, StreamCut
<1>6. StreamOK(y, x)'
  BY <1>1, <1>2, StreamReset
<1>. QED
  BY <1>5, <1>6

\* Every step keeps the streams, as long as the client has not lost a
\* connection within a message.
LEMMA StreamsStep ==
  ASSUME TypeOK, Suffix, Conn, TypeOK', Suffix', StreamsOK, [Next]_vars, ~torn, ~torn'
  PROVE  StreamsOK'
<1>0. /\ "client" \in End /\ "server" \in End
      /\ Other("client") = "server" /\ Other("server") = "client"
      /\ \A x \in End : Other(x) \in End /\ Other(x) # x /\ Other(Other(x)) = x
  BY TwoEnds DEF End
<1>1. ASSUME NEW x \in End PROVE StreamOK(x, Other(x)) /\ StreamOK(Other(x), x)
  BY <1>0 DEF StreamsOK, End
<1>2. ASSUME NEW x \in End, StreamOK(x, Other(x))', StreamOK(Other(x), x)' PROVE StreamsOK'
  BY <1>0, <1>2 DEF StreamsOK, End
<1>3. ASSUME NEW y \in End PROVE Begins(wire[y], wire[y])
  BY ReceiverFacts DEF Begins
<1>4. ASSUME NEW x \in End, Disconnect(x) PROVE StreamsOK'
  <2>1. StreamOK(x, Other(x))' /\ StreamOK(Other(x), x)'
    BY <1>0, <1>1, <1>4, StreamDisconnect
  <2>. QED
    BY <1>2, <2>1
<1>5. ASSUME NEW x \in End, NEW m \in Msg, AddSendMessage(x, m) PROVE StreamsOK'
  <2>1. StreamOK(x, Other(x))'
    BY <1>0, <1>1, <1>5, StreamQueue
  <2>2. PICK y \in End : y = Other(x) /\ y # x
    BY <1>0
  <2>3. /\ queued'[y] = queued[y] /\ sendList'[y] = sendList[y] /\ sock' = sock /\ wire' = wire
        /\ pos' = pos /\ cur' = cur /\ recvd' = recvd /\ got' = got
    BY <1>5, <2>2 DEF AddSendMessage, net, TypeOK
  <2>4. StreamOK(y, x)'
    BY <1>1, <2>2, <2>3, StreamSame
  <2>. QED
    BY <1>2, <2>1, <2>2, <2>4
<1>6. ASSUME NEW x \in End, TakeFirstReceivedMessage(x) PROVE StreamsOK'
  <2>1. /\ recvd[x] # <<>> /\ recvd'[x] = Tail(recvd[x])
        /\ got'[x] = Append(got[x], Head(recvd[x]))
        /\ \A y \in End : y # x => recvd'[y] = recvd[y] /\ got'[y] = got[y]
        /\ sendList' = sendList /\ pos' = pos /\ cur' = cur /\ queued' = queued
        /\ sock' = sock /\ wire' = wire
    BY <1>6 DEF TakeFirstReceivedMessage, net, TypeOK
  <2>2. got'[x] \o recvd'[x] = got[x] \o recvd[x]
    <3>1. got[x] \in Seq(Seq(Nat)) /\ recvd[x] \in Seq(Seq(Nat))
      BY DEF TypeOK
    <3>2. Append(got[x], Head(recvd[x])) \o Tail(recvd[x]) = got[x] \o recvd[x]
      BY <2>1, <3>1, TakeSame
    <3>. QED
      BY <2>1, <3>2
  <2>3. StreamOK(Other(x), x)'
    BY <1>1, <2>1, <2>2 DEF StreamOK, Sent, Received
  <2>4. StreamOK(x, Other(x))'
    BY <1>0, <1>1, <2>1, StreamSame
  <2>. QED
    BY <1>2, <2>3, <2>4
<1>7. ASSUME NEW x \in End, WriteCurrentMessage(x) PROVE StreamsOK'
  <2>1. StreamOK(x, Other(x))'
    BY <1>0, <1>1, <1>7, StreamWrite
  <2>2. PICK y \in End : y = Other(x) /\ y # x
    BY <1>0
  <2>3. sock' = sock /\ cur' = cur /\ recvd' = recvd /\ got' = got /\ queued' = queued
    BY <1>7 DEF WriteCurrentMessage, ghost
  <2>4. wire'[x] = wire[x]
    BY <1>7, <2>2 DEF WriteCurrentMessage, Deliver, TypeOK
  <2>5. sendList'[y] = sendList[y] /\ pos'[y] = pos[y]
    BY <1>7, <2>2 DEF WriteCurrentMessage, AfterWrite, TypeOK
  <2>6. StreamOK(y, x)'
    BY <1>1, <2>2, <2>3, <2>4, <2>5, StreamSame
  <2>. QED
    BY <1>2, <2>1, <2>2, <2>6
<1>8. ASSUME NEW x \in End, ReadCurrentMessage(x) PROVE StreamsOK'
  <2>1. StreamOK(Other(x), x)'
    BY <1>0, <1>1, <1>8, StreamRead
  <2>2. PICK y \in End : y = Other(x) /\ y # x
    BY <1>0
  <2>3. sock' = sock /\ sendList' = sendList /\ pos' = pos /\ got' = got /\ queued' = queued
    BY <1>8 DEF ReadCurrentMessage, ghost
  <2>4. \E v : wire' = [wire EXCEPT ![x] = v]
    BY <1>8, Zenon DEF ReadCurrentMessage
  <2>5. \E v : cur' = [cur EXCEPT ![x] = v]
    BY <1>8, Zenon DEF ReadCurrentMessage
  <2>6. recvd' = recvd \/ \E v : recvd' = [recvd EXCEPT ![x] = v]
    BY <1>8, Zenon DEF ReadCurrentMessage
  <2>7. wire'[y] = wire[y] /\ cur'[y] = cur[y] /\ recvd'[y] = recvd[y]
    BY <2>2, <2>4, <2>5, <2>6 DEF TypeOK
  <2>8. StreamOK(x, y)'
    BY <1>1, <2>2, <2>3, <2>7, StreamSame
  <2>. QED
    BY <1>2, <2>1, <2>2, <2>8
<1>9. ASSUME lists' = lists, queued' = queued, got' = got,
             \A x \in End : \/ StreamKept(x, Other(x))
                            \/ cur[Other(x)] = <<>> /\ wire'[Other(x)] = <<>>
                                 /\ (sock'[x] = "ok" => pos[x] = 0)
                            \/ Begins(wire'[Other(x)], wire[Other(x)]) /\ sock'[x] # "ok"
      PROVE  StreamsOK'
  <2>1. /\ sendList' = sendList /\ pos' = pos /\ cur' = cur /\ recvd' = recvd
    BY <1>9 DEF lists
  <2>2. ASSUME NEW x \in End PROVE StreamOK(x, Other(x))'
    <3>0. Other(x) \in End /\ StreamOK(x, Other(x))
      BY <1>0, <1>1
    <3>1. CASE StreamKept(x, Other(x))
      BY <1>9, <2>1, <3>0, <3>1, StreamSame DEF StreamKept
    <3>2. CASE cur[Other(x)] = <<>> /\ wire'[Other(x)] = <<>> /\ (sock'[x] = "ok" => pos[x] = 0)
      BY <1>9, <2>1, <3>0, <3>2, StreamReset
    <3>3. CASE Begins(wire'[Other(x)], wire[Other(x)]) /\ sock'[x] # "ok"
      <4>1. Len(sendList'[x]) <= Len(sendList[x])
        BY <2>1, SenderFacts
      <4>. QED
        BY <1>9, <2>1, <3>0, <3>3, <4>1, StreamCut
    <3>. QED
      BY <1>9, <3>1, <3>2, <3>3
  <2>. QED
    BY <1>0, <2>2 DEF StreamsOK
<1>10. ASSUME lists' = lists, queued' = queued, got' = got, wire' = wire, sock' = sock
       PROVE  StreamsOK'
  BY <1>9, <1>10 DEF StreamKept
<1>11. ASSUME lists' = lists, queued' = queued, got' = got, wire' = wire,
              sock'["client"] # "ok", sock'["server"] = sock["server"]
       PROVE  StreamsOK'
  <2>1. Begins(wire'["server"], wire["server"])
    BY <1>0, <1>3, <1>11
  <2>2. StreamKept("server", "client")
    BY <1>11 DEF StreamKept
  <2>. QED
    BY <1>0, <1>9, <1>11, <2>1, <2>2 DEF End
<1>12. ASSUME lists' = lists, queued' = queued, got' = got, wire' = wire,
              sock["server"] = "none", sock["client"] \in {"none", "syn"},
              state["client"] # "connected"
       PROVE  StreamsOK'
  <2>1. /\ wire["client"] = <<>> /\ cur["client"] = <<>> /\ pos["client"] = 0
        /\ wire["server"] = <<>> /\ cur["server"] = <<>> /\ pos["server"] = 0
    BY <1>12 DEF Conn
  <2>. QED
    BY <1>0, <1>9, <1>12, <2>1 DEF End
<1>13. CASE StartConnect
  <2>1. sock["server"] = "none" /\ sock["client"] = "none" /\ state["client"] = "unconnected"
    BY <1>13 DEF StartConnect, Conn
  <2>. QED
    BY <1>12, <1>13, <2>1 DEF StartConnect, ghost
<1>14. CASE Handshake
  <2>1. sock["server"] = "none" /\ sock["client"] = "syn" /\ state["client"] = "connecting"
    BY <1>14 DEF Handshake, Conn
  <2>. QED
    BY <1>12, <1>14, <2>1 DEF Handshake
<1>15. CASE CheckConnect
  <2>1. sock' = sock \/ (sock'["client"] = "dead" /\ sock'["server"] = sock["server"])
    BY <1>0, <1>15 DEF CheckConnect, TypeOK
  <2>. QED
    BY <1>10, <1>11, <1>15, <2>1 DEF CheckConnect, ghost
<1>16. CASE Accept
  BY <1>10, <1>16 DEF Accept, ghost
<1>17. CASE AcceptRefused
  <2>1. /\ sock'["server"] = "none" /\ sock'["client"] # "ok"
        /\ wire'["server"] = <<>> /\ wire'["client"] = wire["client"]
    BY <1>0, <1>17 DEF AcceptRefused, TypeOK
  <2>2. cur["server"] = <<>>
    BY <1>17 DEF AcceptRefused, Conn
  <2>3. Begins(wire'["client"], wire["client"])
    BY <1>0, <1>3, <2>1
  <2>. QED
    BY <1>0, <1>9, <1>17, <2>1, <2>2, <2>3 DEF AcceptRefused, End
<1>18. CASE Break
  <2>1. PICK k \in [End -> 0..Capacity] :
          /\ \A x \in End : k[x] <= Len(wire[x])
          /\ wire' = [x \in End |-> SubSeq(wire[x], 1, k[x])]
    BY <1>18 DEF Break
  <2>2. ASSUME NEW x \in End PROVE Begins(wire'[x], wire[x])
    <3>1. PICK w \in Seq(Nat) : w = wire[x]
      BY ReceiverFacts
    <3>2. PICK j \in Nat : j = k[x] /\ j <= Len(w)
      BY <2>1, <3>1, Constants
    <3>3. wire'[x] = SubSeq(w, 1, j)
      BY <2>1, <3>1, <3>2
    <3>4. Begins(SubSeq(w, 1, j), w)
      BY <3>2 DEF Begins
    <3>. QED
      BY <3>1, <3>3, <3>4
  <2>3. \A x \in End : sock'[x] # "ok"
    BY <1>18 DEF Break
  <2>. QED
    BY <1>0, <1>9, <1>18, <2>2, <2>3 DEF Break
<1>19. CASE UNCHANGED vars
  BY <1>10, <1>19 DEF vars, net, ghost
<1>. QED
  BY <1>4, <1>5, <1>6, <1>7, <1>8, <1>13, <1>14, <1>15, <1>16, <1>17, <1>18, <1>19
     DEF Next, IoStep, ConnectStep, WriteFails, ReadBadSize, ReadEof, AppDisconnect

\* The inductive invariant.
Inv == TypeOK /\ Suffix /\ Conn /\ (torn \/ StreamsOK)

\* It holds of every behaviour, for messages of any length.
THEOREM Invariance == Spec => []Inv
<1>1. Init => Inv
  BY InitType, InitStreams DEF Inv
<1>2. Inv /\ [Next]_vars => Inv'
  <2>. SUFFICES ASSUME Inv, [Next]_vars PROVE Inv'
    OBVIOUS
  <2>1. TypeOK' /\ Suffix' /\ Conn'
    BY TypeStep, SuffixStep, ConnKeeps DEF Inv
  <2>2. torn' \/ StreamsOK'
    <3>. SUFFICES ASSUME ~torn' PROVE StreamsOK'
      BY Zenon
    <3>1. ~torn /\ StreamsOK
      BY TornStays, Zenon DEF Inv
    <3>. QED
      BY <2>1, <3>1, StreamsStep DEF Inv
  <2>. QED
    BY <2>1, <2>2, Zenon DEF Inv
<1>. QED
  BY <1>1, <1>2, PTL DEF Spec

\* getBytesNeededFn of endpoint_ipc.c always asks for more bytes of a message
\* that is not complete, until the client loses a connection within one.
THEOREM SizeTheorem == Spec => []SizeKnownUntilTorn
<1>1. Inv => SizeKnownUntilTorn
  <2>. SUFFICES ASSUME Inv, ~torn, NEW y \in End PROVE BytesNeeded(cur[y]) > 0
    BY Zenon DEF SizeKnownUntilTorn, SizeKnown
  <2>1. PICK x \in End : StreamOK(x, y)
    BY DEF Inv, StreamsOK, End
  <2>2. TypeOK /\ Suffix
    BY DEF Inv
  <2>3. PICK c \in Nat : c = Len(cur[y])
    BY <2>2, ReceiverFacts
  <2>4. CASE c < HdrLen
    <3>1. BytesNeeded(cur[y]) = HdrLen - c
      BY <2>3, <2>4 DEF BytesNeeded
    <3>. QED
      BY <2>4, <3>1, Constants
  <2>5. CASE c >= HdrLen
    <3>0. c >= 1
      BY <2>5, Constants
    <3>1. PICK s : s = cur[y] \o wire[y]
      OBVIOUS
    <3>2. /\ Len(s) \in Nat /\ Len(s) >= c /\ Received(y) \in Seq(Seq(Nat))
          /\ \A i \in 1..c : s[i] = cur[y][i]
      BY <2>2, <2>3, <3>1, ReceiverFacts, CatFacts
    <3>3. Len(s) > 0
      BY <3>0, <3>2
    <3>4. Framed(s, queued[x], Sent(x), Received(y), sock[x], pos[x], c)
      BY <2>1, <2>3, <3>1 DEF StreamOK
    <3>5. /\ queued[x] \in Seq(Msg) /\ Sent(x) \in Nat /\ pos[x] \in Nat
          /\ pos[x] > 0 => pos[x] < Len(queued[x][Sent(x) + 1])
      BY <2>2, SenderFacts
    <3>6. PICK m \in Msg : First(m, s, queued[x], Sent(x), Received(y), sock[x], pos[x], c)
      BY <3>2, <3>3, <3>4, <3>5, FramedFirst
    <3>7. PICK L \in Nat : L = Len(m) /\ L >= 1 /\ m[1] = L
      BY Constants
    <3>8. c < L /\ s[1] = m[1]
      <4>1. 1 \in 1..L /\ 1 <= Len(s) /\ 1 <= PosMod
        BY <3>0, <3>2, <3>7, Constants
      <4>. QED
        BY <3>0, <3>6, <3>7, <4>1 DEF First
    <3>9. cur[y][1] = L
      <4>1. 1 \in 1..c
        BY <3>0
      <4>. QED
        BY <3>2, <3>7, <3>8, <4>1
    <3>10. BytesNeeded(cur[y]) = L - c
      <4>1. ~(Len(cur[y]) < HdrLen)
        BY <2>3, <2>5, Constants
      <4>. QED
        BY <2>3, <3>9, <4>1 DEF BytesNeeded
    <3>. QED
      BY <3>8, <3>10
  <2>. QED
    BY <2>4, <2>5, Constants
<1>. QED
  BY <1>1, Invariance, PTL

\* What applications take from an endpoint are messages the other side has
\* queued, in their order and none twice, however they were cut up and
\* however many connections it took, until the client loses a connection
\* within a message: all of them in full length, with their first PosMod bytes.
THEOREM FramesTheorem == Spec => []FramesIntact
<1>1. Inv => FramesIntact
  <2>. SUFFICES ASSUME Inv, ~torn, NEW y \in End
                PROVE  \E f \in [1..Len(Received(y)) -> 1..Len(queued[Other(y)])] :
                         /\ \A i, j \in DOMAIN f : i < j => f[i] < f[j]
                         /\ \A i \in DOMAIN f : Alike(Received(y)[i], queued[Other(y)][f[i]])
    BY Zenon DEF FramesIntact
  <2>1. PICK x \in End : x = Other(y) /\ StreamOK(x, y)
    BY TwoEnds DEF Inv, StreamsOK, End
  <2>2. PICK B, idx, f :
          Parsed(cur[y] \o wire[y], queued[x], Sent(x), Received(y), sock[x], pos[x],
                 Len(cur[y]), B, idx, f)
    BY <2>1 DEF StreamOK, Framed
  <2>3. PICK a \in Nat : a = Len(queued[x])
    BY SenderFacts DEF Inv
  <2>4. PICK sent \in Nat : sent = Sent(x) /\ sent <= a
    BY <2>3, SenderFacts DEF Inv
  <2>5. PICK l \in Nat : l = Len(cur[y] \o wire[y])
    BY ReceiverFacts, CatFacts DEF Inv
  <2>6. PICK n : n = Len(Received(y))
    OBVIOUS
  <2>7. Taken(Received(y), queued[x], idx[0], f) /\ idx[0] \in 1..(sent + 1)
    <3>1. idx \in [0..l -> 1..(sent + 1)]
      BY <2>2, <2>4, <2>5 DEF Parsed
    <3>2. 0 \in 0..l
      OBVIOUS
    <3>3. idx[0] \in 1..(sent + 1)
      BY <3>1, <3>2
    <3>. QED
      BY <2>2, <3>3 DEF Parsed
  <2>8. /\ f \in [1..n -> Nat \ {0}]
        /\ \A i \in 1..n : f[i] < idx[0] /\ Alike(Received(y)[i], queued[x][f[i]])
        /\ \A i, j \in 1..n : i < j => f[i] < f[j]
    BY <2>6, <2>7 DEF Taken
  <2>9. ASSUME NEW i \in 1..n PROVE f[i] \in 1..a
    <3>1. f[i] \in Nat \ {0} /\ f[i] < idx[0]
      BY <2>8
    <3>2. sent <= a
      BY <2>4
    <3>. QED
      BY <2>7, <3>1, <3>2
  <2>10. f \in [1..n -> 1..a] /\ DOMAIN f = 1..n
    BY <2>8, <2>9
  <2>. QED
    BY <2>1, <2>3, <2>6, <2>8, <2>10
<1>. QED
  BY <1>1, Invariance, PTL
=============================================================================
