--------------------------- MODULE Display_proofs ---------------------------
(***************************************************************************)
(* The properties of the two displays: of DisplayServer for any windows,   *)
(* screen and places, of the text display and its Console for any screen.  *)
(***************************************************************************)
EXTENDS DisplayServer, Console, NatLemmas, SequenceTheorems

PixelSet == {Blank, Banner} \cup (Windows \X (0..MaxVersion))
Picture == [Screen -> PixelSet]

WindowSet == [x : Nat, y : Nat, w : Nat, h : Nat, fullscreen : BOOLEAN,
              buffers : {"unset", "held", "freed"}, version : 0..MaxVersion]

(* A window is the screen or lies in it with its title bar.                *)
Fits(l) ==
  IF l.fullscreen THEN l.x = 0 /\ l.y = 0 /\ l.w = Width /\ l.h = Height
  ELSE l.x + l.w <= Width /\ (l.w = 0 \/ l.y + l.h + Titlebar <= Height)

Typed ==
  /\ scope \in Seq(Windows \cup {Server})
  /\ lux \in [windows : Seq(Windows), buffer : {"unset", "held", "freed"}, back : Picture]
  /\ win \in [Windows -> WindowSet]
  /\ screen \in Picture
  /\ fault \in {"none", "stale"}
  /\ twice \in BOOLEAN
  /\ \A w \in Windows : Fits(win[w])

Distinct(s) == \A i, j \in DOMAIN s : s[i] = s[j] => i = j

(* The server is the oldest object, and until a window is attached twice   *)
(* the server's windows are live and each is there once.                   *)
Nested ==
  /\ Distinct(scope)
  /\ scope # << >> => scope[1] = Server
  /\ ~twice => /\ fault = "none" /\ Distinct(lux.windows)
               /\ Range(lux.windows) \subseteq Range(scope)

DsInv == Typed /\ Nested

-----------------------------------------------------------------------------
(***************************************************************************)
(* Drawing.                                                                *)
(***************************************************************************)
LEMMA SizesType ==
  /\ Width \in Nat \ {0} /\ Height \in Nat \ {0} /\ Titlebar \in Nat \ {0}
  /\ MaxVersion \in Nat \ {0} /\ MaxEntries \in Nat \ {0} /\ Server \notin Windows
BY ScreenAssumption

(* A place in rows and columns of the screen is in the frame buffer.       *)
LEMMA OnScreen ==
  ASSUME NEW r \in Nat, NEW c \in Nat, r < Height, c < Width
  PROVE  r * Width + c \in Screen
<1>1. Width \in Nat /\ Height \in Nat
  BY SizesType
<1>2. PICK d \in Nat : Height = r + 1 + d
  <2>1. Height - (r + 1) \in Nat /\ Height = r + 1 + (Height - (r + 1))
    BY <1>1
  <2> QED BY <2>1
<1>3. Width * Height = r * Width + Width + d * Width
  BY <1>1, <1>2
<1>4. r * Width \in Nat /\ d * Width \in Nat
  BY <1>1
<1> QED BY <1>1, <1>3, <1>4 DEF Screen

(* No window leaves the frame buffer.                                      *)
LEMMA CellsOnScreen ==
  ASSUME Typed, NEW w \in Windows
  PROVE  Cells(w) \subseteq Screen
<1>1. /\ Width \in Nat /\ Height \in Nat /\ Titlebar \in Nat
      /\ win[w] \in WindowSet /\ Fits(win[w])
  BY SizesType DEF Typed
<1> DEFINE l == win[w]
<1>2. l.x \in Nat /\ l.y \in Nat /\ l.w \in Nat /\ l.h \in Nat /\ l.fullscreen \in BOOLEAN
  BY <1>1 DEF WindowSet
<1>3. ASSUME NEW r \in Nat, NEW c \in 0..(l.w - 1), r < l.h + BarOf(w)
      PROVE  At(w, r, c) \in Screen
  <2>1. r + l.y < Height /\ c + l.x < Width /\ c \in Nat
    BY <1>1, <1>2, <1>3 DEF Fits, BarOf
  <2>2. (r + l.y) * Width + (c + l.x) \in Screen
    <3>1. r + l.y \in Nat /\ c + l.x \in Nat
      BY <1>2, <2>1
    <3> HIDE DEF l
    <3> QED BY <2>1, <3>1, OnScreen
  <2>3. (r + l.y) * Width + (c + l.x) = r * Width + c + l.x + l.y * Width
    <3>1. c \in Nat
      BY <2>1
    <3> HIDE DEF l
    <3> QED BY <1>1, <1>2, <3>1
  <2> QED BY <2>2, <2>3 DEF At
<1>4. BarOf(w) \in Nat
  BY <1>1, <1>2 DEF BarOf
<1>5. TitleCells(w) \subseteq Screen
  <2>1. \A r \in 0..(BarOf(w) - 1) : r \in Nat /\ r < l.h + BarOf(w)
    BY <1>2, <1>4
  <2> QED BY <1>3, <2>1 DEF TitleCells
<1>6. BodyCells(w) \subseteq Screen
  <2>1. \A r \in BodyRows(w) : r \in Nat /\ r < l.h + BarOf(w)
    BY <1>2, <1>4 DEF BodyRows
  <2> QED BY <1>3, <2>1 DEF BodyCells
<1> QED BY <1>5, <1>6 DEF Cells

LEMMA DrawType ==
  ASSUME Typed, NEW buf \in Picture, NEW w \in Windows
  PROVE  Draw(buf, w) \in Picture
<1>1. win[w].version \in 0..MaxVersion /\ 0 \in 0..MaxVersion
  BY SizesType DEF Typed, WindowSet
<1>2. \A a \in Screen : Pixel(w, a) \in PixelSet
  BY <1>1 DEF Pixel, TitlePixel, PixelSet
<1> QED BY <1>2 DEF Draw, Picture

LEMMA MaxOf ==
  ASSUME NEW n \in Nat, NEW t \in SUBSET (1..n), t # {}
  PROVE  Max(t) \in t /\ \A j \in t : j <= Max(t)
BY GreatestExists DEF Max

LEMMA MaxIs ==
  ASSUME NEW n \in Nat, NEW t \in SUBSET (1..n), NEW k \in t, \A j \in t : j <= k
  PROVE  Max(t) = k
<1>1. Max(t) \in t /\ k <= Max(t)
  BY MaxOf
<1>2. Max(t) <= k /\ Max(t) \in 1..n /\ k \in 1..n
  BY <1>1
<1> QED BY <1>1, <1>2

(* DrawAll one window at a time.                                           *)
LEMMA DrawAllSteps ==
  ASSUME Typed, NEW buf \in Picture, NEW ws \in Seq(Windows)
  PROVE  \E r \in [0..Len(ws) -> Picture] :
           /\ r[0] = buf /\ r[Len(ws)] = DrawAll(buf, ws)
           /\ \A k \in 1..Len(ws) : r[k] = Draw(r[k - 1], ws[k])
<1> DEFINE n == Len(ws)
           step == [p \in (1..n) \X Picture |-> Draw(p[2], ws[p[1]])]
           pick == [t \in SUBSET (1..n) |-> Max(t)]
           Body(g, t) == IF t = {} THEN buf ELSE Draw(g[t \ {Max(t)}], ws[Max(t)])
           iter == CHOOSE g : g = [t \in SUBSET (DOMAIN ws) |-> Body(g, t)]
           r == [k \in 0..n |-> iter[1..k]]
<1>1. n \in Nat /\ DOMAIN ws = 1..n /\ \A k \in 1..n : ws[k] \in Windows
  OBVIOUS
<1>2. step \in [(1..n) \X Picture -> Picture]
  BY <1>1, DrawType
<1>3. PICK it \in [SUBSET (1..n) -> Picture] : IsFold(it, n, buf, step, pick)
  <2>1. PicksGreatest(pick, n)
    BY <1>1, MaxOf DEF PicksGreatest
  <2>2. n \in Nat
    BY <1>1
  <2> HIDE DEF pick, step, n
  <2> QED BY <1>2, <2>1, <2>2, FoldExists
<1>4. it = [t \in SUBSET (DOMAIN ws) |-> Body(it, t)]
  <2>1. ASSUME NEW t \in SUBSET (1..n), t # {}
        PROVE  step[<<pick[t], it[t \ {pick[t]}]>>] = Draw(it[t \ {Max(t)}], ws[Max(t)])
    <3>1. Max(t) \in 1..n
      BY <1>1, <2>1, MaxOf
    <3>2. it[t \ {Max(t)}] \in Picture
      OBVIOUS
    <3> QED BY <3>1, <3>2
  <2> HIDE DEF pick, step, n
  <2> QED BY <1>1, <1>3, <2>1 DEF IsFold
<1>5. iter = [t \in SUBSET (DOMAIN ws) |-> Body(iter, t)]
  <2> HIDE DEF Body
  <2> QED BY <1>4
<1>6. DrawAll(buf, ws) = iter[1..n]
  BY <1>1 DEF DrawAll, FoldLeft, MapThenFoldSet
<1> HIDE DEF iter
<1>7. r[0] = buf
  <2>1. 1..0 = {} /\ {} \in SUBSET DOMAIN ws /\ 0 \in 0..n
    BY <1>1
  <2> QED BY <1>5, <2>1
<1>8. ASSUME NEW k \in 1..n PROVE r[k] = Draw(r[k - 1], ws[k])
  <2>0. k \in Nat /\ n \in Nat /\ 1 <= k /\ k <= n /\ DOMAIN ws = 1..n
    BY <1>1
  <2>1. Max(1..k) = k
    <3>1. 1..k \in SUBSET (1..k) /\ k \in 1..k /\ \A j \in 1..k : j <= k
      BY <2>0
    <3> QED BY <2>0, <3>1, MaxIs
  <2>2. /\ (1..k) \ {k} = 1..(k - 1) /\ k \in 0..n /\ k - 1 \in 0..n
        /\ 1..k # {} /\ 1..k \in SUBSET DOMAIN ws
    <3>1. (1..k) \ {k} = 1..(k - 1)
      BY <2>0
    <3>2. k \in 1..k /\ 1..k \subseteq 1..n
      BY <2>0
    <3> QED BY <2>0, <3>1, <3>2
  <2>3. iter[1..k] = Draw(iter[1..(k - 1)], ws[k])
    BY <1>5, <2>1, <2>2
  <2> QED BY <2>2, <2>3
<1>9. \A k \in 0..n : k \in {j \in 0..n : r[j] \in Picture}
  <2>1. ASSUME NEW k \in 0..(n - 1), k \in {j \in 0..n : r[j] \in Picture}
        PROVE  k + 1 \in {j \in 0..n : r[j] \in Picture}
    <3>1. k + 1 \in 1..n /\ k + 1 \in 0..n /\ (k + 1) - 1 = k
      BY <1>1
    <3>2. r[k + 1] = Draw(r[k], ws[k + 1])
      BY <1>8, <3>1
    <3> QED BY <1>1, <2>1, <3>1, <3>2, DrawType
  <2>2. 0 \in 0..n /\ n \in Nat
    BY <1>1
  <2> HIDE DEF r, n
  <2> QED BY <1>7, <2>1, <2>2, Induction
<1>10. r \in [0..n -> Picture]
  BY <1>9
<1>11. n \in 0..n
  BY <1>1
<1> QED BY <1>6, <1>7, <1>8, <1>10, <1>11

(* A pixel is that of the last window drawn that covers it.                *)
Over(ws, n, a) == {k \in 1..n : a \in Cells(ws[k])}

Shown(buf, ws, n, a) ==
  IF Over(ws, n, a) = {} THEN buf[a] ELSE Pixel(ws[Max(Over(ws, n, a))], a)

LEMMA DrawAllShows ==
  ASSUME Typed, NEW buf \in Picture, NEW ws \in Seq(Windows)
  PROVE  /\ DrawAll(buf, ws) \in Picture
         /\ \A a \in Screen : DrawAll(buf, ws)[a] = Shown(buf, ws, Len(ws), a)
<1> DEFINE n == Len(ws)
<1>1. PICK r \in [0..n -> Picture] :
        /\ r[0] = buf /\ r[n] = DrawAll(buf, ws)
        /\ \A k \in 1..n : r[k] = Draw(r[k - 1], ws[k])
  BY DrawAllSteps
<1>2. n \in Nat /\ n \in 0..n
  OBVIOUS
<1>3. SUFFICES ASSUME NEW a \in Screen PROVE r[n][a] = Shown(buf, ws, n, a)
  BY <1>1, <1>2
<1> DEFINE D == {k \in 0..n : r[k][a] = Shown(buf, ws, k, a)}
<1> HIDE DEF n
<1>4. 0 \in D
  <2>1. Over(ws, 0, a) = {} /\ 0 \in 0..n
    BY <1>2 DEF Over
  <2> QED BY <1>1, <2>1 DEF Shown
<1>5. ASSUME NEW k \in 0..(n - 1), k \in D PROVE k + 1 \in D
  <2>1. k + 1 \in 1..n /\ k + 1 \in 0..n /\ k \in Nat /\ k \in 0..n /\ (k + 1) - 1 = k
    BY <1>2
  <2>2. r[k + 1] = Draw(r[k], ws[k + 1])
    BY <1>1, <2>1
  <2>3. r[k + 1][a] = IF a \in Cells(ws[k + 1]) THEN Pixel(ws[k + 1], a) ELSE r[k][a]
    BY <2>2 DEF Draw
  <2>4. 1..(k + 1) = (1..k) \cup {k + 1}
    BY <2>1
  <2>5. CASE a \in Cells(ws[k + 1])
    <3>1. /\ Over(ws, k + 1, a) \in SUBSET (1..(k + 1)) /\ k + 1 \in Over(ws, k + 1, a)
          /\ \A j \in Over(ws, k + 1, a) : j <= k + 1
      BY <2>1, <2>5 DEF Over
    <3>2. Max(Over(ws, k + 1, a)) = k + 1
      <4>1. k + 1 \in Nat
        BY <2>1
      <4> QED BY <3>1, <4>1, MaxIs
    <3>3. Shown(buf, ws, k + 1, a) = Pixel(ws[k + 1], a)
      BY <3>1, <3>2 DEF Shown
    <3> QED BY <2>1, <2>3, <2>5, <3>3
  <2>6. CASE a \notin Cells(ws[k + 1])
    <3>1. Over(ws, k + 1, a) = Over(ws, k, a)
      BY <2>4, <2>6 DEF Over
    <3> QED BY <1>5, <2>1, <2>3, <2>6, <3>1 DEF Shown
  <2> QED BY <2>5, <2>6
<1>6. \A k \in 0..n : k \in D
  <2> HIDE DEF D
  <2> QED BY <1>2, <1>4, <1>5, Induction
<1> QED BY <1>2, <1>6

-----------------------------------------------------------------------------
(***************************************************************************)
(* destroy_window.                                                         *)
(***************************************************************************)
Lists == [kept : Seq(Windows), blind : BOOLEAN]

LEMMA LookType ==
  ASSUME NEW acc \in Lists, NEW v \in Windows, NEW w
  PROVE  Look(acc, v, w) \in Lists
BY DEF Look, Lists

(* Its loop one window at a time.                                          *)
LEMMA RemovedSteps ==
  ASSUME NEW ws \in Seq(Windows), NEW w
  PROVE  \E r \in [0..Len(ws) -> Lists] :
           /\ r[0] = [kept |-> << >>, blind |-> FALSE]
           /\ r[Len(ws)].kept = Removed(ws, w)
           /\ \A k \in 1..Len(ws) : r[k] = Look(r[k - 1], ws[k], w)
<1> DEFINE n == Len(ws)
           base == [kept |-> << >>, blind |-> FALSE]
           step == [p \in (1..n) \X Lists |-> Look(p[2], ws[p[1]], w)]
           pick == [t \in SUBSET (1..n) |-> Max(t)]
           Body(g, t) == IF t = {} THEN base ELSE Look(g[t \ {Max(t)}], ws[Max(t)], w)
           iter == CHOOSE g : g = [t \in SUBSET (DOMAIN ws) |-> Body(g, t)]
           r == [k \in 0..n |-> iter[1..k]]
<1>1. n \in Nat /\ DOMAIN ws = 1..n /\ \A k \in 1..n : ws[k] \in Windows
  OBVIOUS
<1>2. step \in [(1..n) \X Lists -> Lists] /\ base \in Lists
  <2>1. base \in Lists
    BY DEF Lists
  <2> QED BY <1>1, <2>1, LookType
<1>3. PICK it \in [SUBSET (1..n) -> Lists] : IsFold(it, n, base, step, pick)
  <2>1. PicksGreatest(pick, n)
    BY <1>1, MaxOf DEF PicksGreatest
  <2>2. n \in Nat
    BY <1>1
  <2> HIDE DEF pick, step, n, base
  <2> QED BY <1>2, <2>1, <2>2, FoldExists
<1>4. it = [t \in SUBSET (DOMAIN ws) |-> Body(it, t)]
  <2>1. ASSUME NEW t \in SUBSET (1..n), t # {}
        PROVE  step[<<pick[t], it[t \ {pick[t]}]>>] = Look(it[t \ {Max(t)}], ws[Max(t)], w)
    <3>1. Max(t) \in 1..n
      BY <1>1, <2>1, MaxOf
    <3>2. it[t \ {Max(t)}] \in Lists
      OBVIOUS
    <3> QED BY <3>1, <3>2
  <2> HIDE DEF pick, step, n, base
  <2> QED BY <1>1, <1>3, <2>1 DEF IsFold
<1>5. iter = [t \in SUBSET (DOMAIN ws) |-> Body(iter, t)]
  <2> HIDE DEF Body
  <2> QED BY <1>4
<1>6. Removed(ws, w) = iter[1..n].kept
  BY <1>1 DEF Removed, FoldLeft, MapThenFoldSet
<1> HIDE DEF iter
<1>7. r[0] = base
  <2>1. 1..0 = {} /\ {} \in SUBSET DOMAIN ws /\ 0 \in 0..n
    BY <1>1
  <2> QED BY <1>5, <2>1
<1>8. ASSUME NEW k \in 1..n PROVE r[k] = Look(r[k - 1], ws[k], w)
  <2>0. k \in Nat /\ n \in Nat /\ 1 <= k /\ k <= n /\ DOMAIN ws = 1..n
    BY <1>1
  <2>1. Max(1..k) = k
    <3>1. 1..k \in SUBSET (1..k) /\ k \in 1..k /\ \A j \in 1..k : j <= k
      BY <2>0
    <3> QED BY <2>0, <3>1, MaxIs
  <2>2. /\ (1..k) \ {k} = 1..(k - 1) /\ k \in 0..n /\ k - 1 \in 0..n
        /\ 1..k # {} /\ 1..k \in SUBSET DOMAIN ws
    <3>1. (1..k) \ {k} = 1..(k - 1)
      BY <2>0
    <3>2. k \in 1..k /\ 1..k \subseteq 1..n
      BY <2>0
    <3> QED BY <2>0, <3>1, <3>2
  <2>3. iter[1..k] = Look(iter[1..(k - 1)], ws[k], w)
    BY <1>5, <2>1, <2>2
  <2> QED BY <2>2, <2>3
<1>9. \A k \in 0..n : k \in {j \in 0..n : r[j] \in Lists}
  <2>1. ASSUME NEW k \in 0..(n - 1), k \in {j \in 0..n : r[j] \in Lists}
        PROVE  k + 1 \in {j \in 0..n : r[j] \in Lists}
    <3>1. k + 1 \in 1..n /\ k + 1 \in 0..n /\ (k + 1) - 1 = k
      BY <1>1
    <3>2. r[k + 1] = Look(r[k], ws[k + 1], w)
      BY <1>8, <3>1
    <3> QED BY <1>1, <2>1, <3>1, <3>2, LookType
  <2>2. 0 \in 0..n /\ n \in Nat
    BY <1>1
  <2> HIDE DEF r, n
  <2> QED BY <1>2, <1>7, <2>1, <2>2, Induction
<1>10. r \in [0..n -> Lists]
  BY <1>9
<1>11. n \in 0..n
  BY <1>1
<1> QED BY <1>6, <1>7, <1>8, <1>10, <1>11

LEMMA RangeAppend ==
  ASSUME NEW S, NEW s \in Seq(S), NEW e \in S
  PROVE  Range(Append(s, e)) = Range(s) \cup {e}
<1>1. /\ DOMAIN Append(s, e) = 1..(Len(s) + 1) /\ DOMAIN s = 1..Len(s) /\ Len(s) \in Nat
      /\ \A k \in 1..Len(s) : Append(s, e)[k] = s[k]
      /\ Append(s, e)[Len(s) + 1] = e
  OBVIOUS
<1>2. 1..(Len(s) + 1) = (1..Len(s)) \cup {Len(s) + 1}
  BY <1>1
<1> QED BY <1>1, <1>2 DEF Range

(* Nothing comes into the list.                                            *)
LEMMA RemovedType ==
  ASSUME NEW ws \in Seq(Windows), NEW w
  PROVE  Removed(ws, w) \in Seq(Windows) /\ Range(Removed(ws, w)) \subseteq Range(ws)
<1> DEFINE n == Len(ws)
<1>1. PICK r \in [0..n -> Lists] :
        /\ r[0] = [kept |-> << >>, blind |-> FALSE]
        /\ r[n].kept = Removed(ws, w)
        /\ \A k \in 1..n : r[k] = Look(r[k - 1], ws[k], w)
  BY RemovedSteps
<1>2. n \in Nat /\ n \in 0..n /\ \A k \in 1..n : ws[k] \in Range(ws) /\ ws[k] \in Windows
  BY DEF Range
<1> DEFINE D == {k \in 0..n : Range(r[k].kept) \subseteq Range(ws)}
<1> HIDE DEF n
<1>3. 0 \in D
  BY <1>1, <1>2 DEF Range
<1>4. ASSUME NEW k \in 0..(n - 1), k \in D PROVE k + 1 \in D
  <2>1. k + 1 \in 1..n /\ k + 1 \in 0..n /\ k \in 0..n /\ (k + 1) - 1 = k
    BY <1>2
  <2>2. r[k + 1] = Look(r[k], ws[k + 1], w) /\ ws[k + 1] \in Range(ws) /\ r[k].kept \in Seq(Windows)
    BY <1>1, <1>2, <2>1 DEF Lists
  <2>3. Range(Append(r[k].kept, ws[k + 1])) = Range(r[k].kept) \cup {ws[k + 1]}
    <3>1. ws[k + 1] \in Windows
      BY <1>2, <2>1
    <3> QED BY <2>2, <3>1, RangeAppend
  <2>4. r[k + 1].kept = r[k].kept \/ r[k + 1].kept = Append(r[k].kept, ws[k + 1])
    BY <2>2 DEF Look
  <2>5. Range(r[k].kept) \subseteq Range(ws)
    BY <1>4
  <2>6. Range(r[k + 1].kept) \subseteq Range(ws)
    BY <2>2, <2>3, <2>4, <2>5
  <2> QED BY <2>1, <2>6
<1>5. n \in D
  <2> HIDE DEF D
  <2> QED BY <1>2, <1>3, <1>4, Induction
<1>6. r[n].kept \in Seq(Windows)
  BY <1>1, <1>2 DEF Lists
<1> QED BY <1>1, <1>5, <1>6

(* The list without its j-th entry, as far as k; all of it if j is behind. *)
Left(j, k) == IF k < j THEN k ELSE k - 1
Skip(j, i) == IF i < j THEN i ELSE i + 1
Without(ws, j, k) == [i \in 1..Left(j, k) |-> ws[Skip(j, i)]]

LEMMA AppendIs ==
  ASSUME NEW m \in Nat, NEW s \in Seq(Windows), DOMAIN s = 1..m, NEW e \in Windows
  PROVE  Append(s, e) = [i \in 1..(m + 1) |-> IF i <= m THEN s[i] ELSE e]
<1> DEFINE t == [i \in 1..(m + 1) |-> IF i <= m THEN s[i] ELSE e]
<1>1. Len(s) = m
  OBVIOUS
<1>2. /\ Append(s, e) \in Seq(Windows) /\ Len(Append(s, e)) = m + 1
      /\ \A k \in 1..m : Append(s, e)[k] = s[k]
      /\ Append(s, e)[m + 1] = e
  BY <1>1
<1>3. \A i \in 1..(m + 1) : i <= m => i \in 1..m
  OBVIOUS
<1>4. \A i \in 1..(m + 1) : ~(i <= m) => i = m + 1
  OBVIOUS
<1>5. Append(s, e) \in [1..(m + 1) -> Windows]
  <2> DEFINE q == Append(s, e)
  <2>1. q \in Seq(Windows) /\ Len(q) = m + 1
    BY <1>2
  <2> HIDE DEF q
  <2>2. q \in [1..Len(q) -> Windows]
    BY <2>1, LenProperties
  <2> QED BY <2>1, <2>2 DEF q
<1>6. \A i \in 1..(m + 1) : Append(s, e)[i] = t[i]
  BY <1>2, <1>3, <1>4
<1> QED BY <1>5, <1>6

(* A window that is in the list once is taken out, the others stay in      *)
(* their order.                                                            *)
LEMMA RemovedIs ==
  ASSUME NEW ws \in Seq(Windows), NEW w, NEW j \in 1..(Len(ws) + 1),
         \A k \in 1..Len(ws) : ws[k] = w <=> k = j
  PROVE  Removed(ws, w) = Without(ws, j, Len(ws))
<1> DEFINE n == Len(ws)
<1>1. PICK r \in [0..n -> Lists] :
        /\ r[0] = [kept |-> << >>, blind |-> FALSE]
        /\ r[n].kept = Removed(ws, w)
        /\ \A k \in 1..n : r[k] = Look(r[k - 1], ws[k], w)
  BY RemovedSteps
<1>2. n \in Nat /\ n \in 0..n /\ j \in 1..(n + 1) /\ \A k \in 1..n : ws[k] \in Windows
  OBVIOUS
<1>3. \A k \in 1..n : ws[k] = w <=> k = j
  OBVIOUS
<1> DEFINE D == {k \in 0..n : r[k] = [kept |-> Without(ws, j, k), blind |-> k = j]}
<1> HIDE DEF n
<1>4. 0 \in D
  <2>1. Left(j, 0) = 0 /\ 1..0 = {} /\ 0 # j /\ 0 \in 0..n
    BY <1>2 DEF Left
  <2>2. Without(ws, j, 0) = << >>
    BY <2>1 DEF Without
  <2> QED BY <1>1, <2>1, <2>2
<1>5. ASSUME NEW k \in 0..(n - 1), k \in D PROVE k + 1 \in D
  <2>1. /\ k + 1 \in 1..n /\ k + 1 \in 0..n /\ k \in 0..n /\ (k + 1) - 1 = k
        /\ k \in Nat /\ j \in Nat \ {0}
    BY <1>2
  <2>2. r[k + 1] = Look(r[k], ws[k + 1], w)
    BY <1>1, <2>1
  <2>3. r[k].kept = Without(ws, j, k) /\ r[k].blind = (k = j) /\ r[k].kept \in Seq(Windows)
    BY <1>1, <1>5, <2>1 DEF Lists
  <2>4. ASSUME k + 1 # j PROVE Append(Without(ws, j, k), ws[k + 1]) = Without(ws, j, k + 1)
    <3> DEFINE m == Left(j, k)
    <3>1. m \in Nat /\ Left(j, k + 1) = m + 1 /\ Skip(j, m + 1) = k + 1
      BY <2>1, <2>4 DEF Left, Skip
    <3>2. DOMAIN Without(ws, j, k) = 1..m /\ Without(ws, j, k) \in Seq(Windows)
      BY <2>3 DEF Without
    <3>3. Without(ws, j, k + 1) =
            [i \in 1..(m + 1) |-> IF i <= m THEN Without(ws, j, k)[i] ELSE ws[k + 1]]
      <4>1. \A i \in 1..(m + 1) : i <= m => i \in 1..m
        BY <3>1
      <4>2. \A i \in 1..(m + 1) : ~(i <= m) => i = m + 1
        BY <3>1
      <4> HIDE DEF m
      <4>3. \A i \in 1..m : Without(ws, j, k)[i] = ws[Skip(j, i)]
        BY <3>2 DEF Without, m
      <4> QED BY <3>1, <4>1, <4>2, <4>3 DEF Without
    <3> HIDE DEF m
    <3> QED BY <1>2, <2>1, <3>1, <3>2, <3>3, AppendIs
  <2>5. CASE k = j
    <3>1. Look(r[k], ws[k + 1], w) = [kept |-> Append(r[k].kept, ws[k + 1]), blind |-> FALSE]
      BY <2>3, <2>5 DEF Look
    <3>2. k + 1 # j
      BY <2>1, <2>5
    <3> QED BY <2>1, <2>2, <2>3, <2>4, <3>1, <3>2
  <2>6. CASE k # j /\ k + 1 = j
    <3>1. Look(r[k], ws[k + 1], w) = [kept |-> r[k].kept, blind |-> TRUE]
      BY <1>3, <2>1, <2>3, <2>6 DEF Look
    <3>2. Left(j, k + 1) = Left(j, k)
      BY <2>1, <2>6 DEF Left
    <3>3. Without(ws, j, k + 1) = Without(ws, j, k)
      BY <3>2 DEF Without
    <3> QED BY <2>1, <2>2, <2>3, <2>6, <3>1, <3>3
  <2>7. CASE k # j /\ k + 1 # j
    <3>1. Look(r[k], ws[k + 1], w) = [kept |-> Append(r[k].kept, ws[k + 1]), blind |-> FALSE]
      BY <1>3, <2>1, <2>3, <2>7 DEF Look
    <3> QED BY <2>1, <2>2, <2>3, <2>4, <2>7, <3>1
  <2> QED BY <2>5, <2>6, <2>7
<1>6. n \in D
  <2> HIDE DEF D
  <2> QED BY <1>2, <1>4, <1>5, Induction
<1> QED BY <1>1, <1>6 DEF n

(* The place of a window in a list that holds each once.                   *)
LEMMA PlaceOf ==
  ASSUME NEW ws \in Seq(Windows), Distinct(ws), NEW w
  PROVE  \E j \in 1..(Len(ws) + 1) : \A k \in 1..Len(ws) : ws[k] = w <=> k = j
<1>1. Len(ws) \in Nat /\ DOMAIN ws = 1..Len(ws)
  OBVIOUS
<1>2. CASE \E i \in DOMAIN ws : ws[i] = w
  <2>1. PICK i \in DOMAIN ws : ws[i] = w
    BY <1>2
  <2>2. i \in 1..(Len(ws) + 1)
    BY <1>1
  <2>3. \A k \in 1..Len(ws) : ws[k] = w <=> k = i
    BY <1>1, <2>1 DEF Distinct
  <2> QED BY <2>2, <2>3
<1>3. CASE \A i \in DOMAIN ws : ws[i] # w
  <2>1. Len(ws) + 1 \in 1..(Len(ws) + 1) /\ Len(ws) + 1 \notin 1..Len(ws)
    BY <1>1
  <2>2. \A k \in 1..Len(ws) : ws[k] = w <=> k = Len(ws) + 1
    BY <1>1, <1>3, <2>1
  <2> QED BY <2>1, <2>2
<1> QED BY <1>2, <1>3

(* So the list still holds each window once, and all but the one.          *)
LEMMA RemovedOnce ==
  ASSUME NEW ws \in Seq(Windows), Distinct(ws), NEW w
  PROVE  /\ Distinct(Removed(ws, w))
         /\ Range(Removed(ws, w)) \subseteq Range(ws) \ {w}
<1>1. PICK j \in 1..(Len(ws) + 1) : \A k \in 1..Len(ws) : ws[k] = w <=> k = j
  BY PlaceOf
<1> DEFINE n == Len(ws)
           rs == Removed(ws, w)
<1>2. n \in Nat /\ DOMAIN ws = 1..n
  OBVIOUS
<1>3. rs = Without(ws, j, n)
  BY <1>1, RemovedIs
<1>4. DOMAIN rs = 1..Left(j, n) /\ \A i \in 1..Left(j, n) : rs[i] = ws[Skip(j, i)]
  <2> HIDE DEF rs, n
  <2> QED BY <1>3 DEF Without
<1>5. ASSUME NEW i \in 1..Left(j, n)
      PROVE  Skip(j, i) \in 1..n /\ Skip(j, i) # j
  <2> HIDE DEF n
  <2> QED BY <1>2 DEF Left, Skip, n
<1>6. ASSUME NEW i \in 1..Left(j, n), NEW k \in 1..Left(j, n), Skip(j, i) = Skip(j, k)
      PROVE  i = k
  <2>1. Left(j, n) \in Int
    BY <1>2 DEF Left
  <2> QED BY <1>6, <2>1 DEF Skip
<1>7. Distinct(rs)
  <2> SUFFICES ASSUME NEW i \in DOMAIN rs, NEW k \in DOMAIN rs, rs[i] = rs[k] PROVE i = k
    BY DEF Distinct
  <2>1. i \in 1..Left(j, n) /\ k \in 1..Left(j, n)
    BY <1>4
  <2>2. ws[Skip(j, i)] = ws[Skip(j, k)]
    BY <1>4, <2>1
  <2>3. Skip(j, i) = Skip(j, k)
    BY <1>2, <1>5, <2>1, <2>2 DEF Distinct
  <2> QED BY <1>6, <2>1, <2>3
<1>8. ASSUME NEW i \in 1..Left(j, n) PROVE rs[i] \in Range(ws) \ {w}
  <2>1. Skip(j, i) \in DOMAIN ws /\ Skip(j, i) # j /\ rs[i] = ws[Skip(j, i)]
    BY <1>2, <1>4, <1>5
  <2>2. ws[Skip(j, i)] # w
    BY <1>1, <1>2, <2>1
  <2> QED BY <2>1, <2>2 DEF Range
<1> QED BY <1>4, <1>7, <1>8 DEF Range

-----------------------------------------------------------------------------
(***************************************************************************)
(* The invariant, action by action.                                        *)
(***************************************************************************)
LEMMA FrontIs ==
  ASSUME NEW S, NEW s \in Seq(S), s # << >>
  PROVE  /\ Front(s) \in Seq(S) /\ Len(Front(s)) = Len(s) - 1 /\ Len(s) \in Nat \ {0}
         /\ \A i \in 1..(Len(s) - 1) : Front(s)[i] = s[i]
<1>1. Len(s) \in Nat \ {0} /\ \A i \in 1..Len(s) : s[i] \in S
  BY EmptySeq, ElementOfSeq
<1>2. \A i \in 1..(Len(s) - 1) : s[i] \in S
  BY <1>1
<1>3. 1 \in Int /\ Len(s) - 1 \in Int /\ (Len(s) - 1) - 1 + 1 = Len(s) - 1
  BY <1>1
<1>4. /\ SubSeq(s, 1, Len(s) - 1) \in Seq(S)
      /\ Len(SubSeq(s, 1, Len(s) - 1)) = IF 1 <= Len(s) - 1 THEN (Len(s) - 1) - 1 + 1 ELSE 0
      /\ \A i \in 1..((Len(s) - 1) - 1 + 1) : SubSeq(s, 1, Len(s) - 1)[i] = s[1 + i - 1]
  BY <1>2, <1>3, SubSeqProperties
<1>5. Len(SubSeq(s, 1, Len(s) - 1)) = Len(s) - 1
  <2>1. \A k \in Nat \ {0} : 1 <= k - 1 \/ k - 1 = 0
    OBVIOUS
  <2>2. 1 <= Len(s) - 1 \/ Len(s) - 1 = 0
    BY <1>1, <2>1
  <2>3. ~(1 <= 0)
    OBVIOUS
  <2>4. CASE 1 <= Len(s) - 1
    BY <1>3, <1>4, <2>4
  <2>5. CASE Len(s) - 1 = 0
    BY <1>4, <2>3, <2>5
  <2> QED BY <2>2, <2>4, <2>5
<1>6. \A i \in 1..(Len(s) - 1) : s[1 + i - 1] = s[i]
  BY <1>1
<1> QED BY <1>1, <1>3, <1>4, <1>5, <1>6 DEF Front

(* The youngest object goes, the others stay.                              *)
LEMMA FrontKeeps ==
  ASSUME NEW S, NEW s \in Seq(S), s # << >>, Distinct(s)
  PROVE  /\ Distinct(Front(s)) /\ Range(s) \ {Last(s)} \subseteq Range(Front(s))
         /\ Range(Front(s)) \subseteq Range(s) \ {Last(s)}
         /\ Front(s) # << >> => Front(s)[1] = s[1]
<1> DEFINE n == Len(s)
           f == Front(s)
<1>1. f \in Seq(S) /\ Len(f) = n - 1 /\ n \in Nat \ {0} /\ \A i \in 1..(n - 1) : f[i] = s[i]
  BY FrontIs
<1>2. DOMAIN f = 1..(n - 1) /\ DOMAIN s = 1..n /\ Last(s) = s[n] /\ n \in 1..n
  BY <1>1 DEF Last
<1> HIDE DEF n, f
<1>3. 1..n = (1..(n - 1)) \cup {n} /\ n \notin 1..(n - 1) /\ 1..(n - 1) \subseteq 1..n
  BY <1>1
<1>4. Distinct(f)
  BY <1>1, <1>2, <1>3 DEF Distinct
<1>5. Range(s) \ {Last(s)} \subseteq Range(f)
  BY <1>1, <1>2, <1>3 DEF Range
<1>6. Range(f) \subseteq Range(s) \ {Last(s)}
  BY <1>1, <1>2, <1>3 DEF Range, Distinct
<1>7. f # << >> => f[1] = s[1]
  <2>1. f # << >> => 1 \in 1..(n - 1)
    BY <1>1, EmptySeq
  <2> QED BY <1>1, <2>1
<1> QED BY <1>4, <1>5, <1>6, <1>7 DEF f

LEMMA AppendKeeps ==
  ASSUME NEW S, NEW s \in Seq(S), NEW e \in S, Distinct(s), e \notin Range(s)
  PROVE  Distinct(Append(s, e))
<1>1. /\ DOMAIN Append(s, e) = 1..(Len(s) + 1) /\ DOMAIN s = 1..Len(s) /\ Len(s) \in Nat
      /\ \A k \in 1..Len(s) : Append(s, e)[k] = s[k]
      /\ Append(s, e)[Len(s) + 1] = e
  OBVIOUS
<1>2. 1..(Len(s) + 1) = (1..Len(s)) \cup {Len(s) + 1}
  BY <1>1
<1>3. \A k \in 1..Len(s) : s[k] # e
  BY <1>1 DEF Range
<1> QED BY <1>1, <1>2, <1>3 DEF Distinct

(* What drawing does, to the frame buffer and to windows that have ended.  *)
LEMMA HarmIs ==
  ASSUME Typed, NEW ws \in Seq(Windows)
  PROVE  /\ Harm(ws) \in {"none", "stale"}
         /\ AllReady /\ Range(ws) \subseteq Range(scope) => Harm(ws) = "none"
<1>1. Range(ws) \subseteq Windows
  BY DEF Range
<1>2. \A w \in Range(ws) : Cells(w) \subseteq Screen
  BY <1>1, CellsOnScreen
<1>3. ASSUME AllReady, Range(ws) \subseteq Range(scope), NEW w \in Range(ws)
      PROVE  Live(w) /\ win[w].buffers = "held"
  BY <1>1, <1>3, SizesType DEF AllReady, Ready, Live
<1> QED BY <1>2, <1>3 DEF Harm

LEMMA InitInv == Init => DsInv
<1> SUFFICES ASSUME Init PROVE DsInv
  OBVIOUS
<1>0. Width \in Nat /\ Height \in Nat /\ 0 \in 0..MaxVersion /\ Blank \in PixelSet
  BY SizesType DEF PixelSet
<1>1. [a \in Screen |-> Blank] \in Picture
  BY <1>0 DEF Picture
<1> DEFINE l == Placed([x |-> 0, y |-> 0, w |-> 0, h |-> 0])
<1>2. l \in WindowSet /\ Fits(l)
  BY <1>0 DEF Placed, WindowSet, Fits
<1>3. win = [w \in Windows |-> l]
  BY DEF Init
<1>4. scope = << >> /\ twice = FALSE /\ fault = "none" /\ screen \in Picture
  BY <1>1 DEF Init
<1>5. lux = [windows |-> << >>, buffer |-> "unset", back |-> [a \in Screen |-> Blank]]
  BY DEF Init
<1>6. << >> \in Seq(Windows) /\ << >> \in Seq(Windows \cup {Server})
  OBVIOUS
<1>7. lux.windows = << >>
  BY <1>5
<1>8. Typed
  <2> HIDE DEF l
  <2> QED BY <1>1, <1>2, <1>3, <1>4, <1>5, <1>6 DEF Typed
<1>9. Distinct(<< >>) /\ Range(<< >>) = {}
  BY DEF Distinct, Range
<1> QED BY <1>4, <1>7, <1>8, <1>9 DEF DsInv, Nested

(* An action that leaves the objects and the vector alone and draws.       *)
LEMMA DrawInv ==
  ASSUME DsInv, UNCHANGED <<scope, twice>>, win' \in [Windows -> WindowSet],
         \A w \in Windows : Fits(win'[w]), screen' \in Picture,
         lux' \in [windows : {lux.windows}, buffer : {"unset", "held", "freed"}, back : Picture],
         fault' \in {"none", "stale"}, ~twice => fault' = "none"
  PROVE  DsInv'
<1>1. lux'.windows = lux.windows /\ lux.windows \in Seq(Windows)
  BY DEF DsInv, Typed
<1>2. lux' \in [windows : Seq(Windows), buffer : {"unset", "held", "freed"}, back : Picture]
  BY <1>1
<1>3. Typed'
  BY <1>2 DEF DsInv, Typed, Fits, WindowSet, Picture, PixelSet, Screen
<1>4. Nested'
  BY <1>1 DEF DsInv, Nested, Distinct
<1> QED BY <1>3, <1>4 DEF DsInv
LEMMA StartInv ==
  ASSUME DsInv, StartServer
  PROVE  DsInv'
<1>1. /\ scope = << >> /\ fault = "none" /\ scope' = <<Server>>
      /\ lux' = [lux EXCEPT !.buffer = "held"]
      /\ UNCHANGED <<win, screen, fault, twice>>
  BY DEF StartServer
<1>2. lux' \in [windows : Seq(Windows), buffer : {"unset", "held", "freed"}, back : Picture]
      /\ lux'.windows = lux.windows
  BY <1>1 DEF DsInv, Typed
<1>3. scope' \in Seq(Windows \cup {Server})
  BY <1>1
<1>4. Typed'
  BY <1>1, <1>2, <1>3 DEF DsInv, Typed, Fits, WindowSet, Picture, PixelSet, Screen
<1>5. Distinct(scope') /\ scope'[1] = Server /\ Range(scope) = {}
  BY <1>1 DEF Distinct, Range
<1> QED BY <1>1, <1>2, <1>4, <1>5 DEF DsInv, Nested, Distinct

LEMMA OpenInv ==
  ASSUME DsInv, NEW w \in Windows, NEW p \in Places, NEW full \in BOOLEAN, Open(w, p, full)
  PROVE  DsInv'
<1>1. /\ fault = "none" /\ Server \in Range(scope) /\ w \notin Range(scope)
      /\ scope' = Append(scope, w)
      /\ win' = [win EXCEPT ![w] = IF full THEN SetFullscreen(Placed(p)) ELSE Placed(p)]
      /\ UNCHANGED <<lux, screen, fault, twice>>
  BY DEF Open, Going, Live
<1> DEFINE l == IF full THEN SetFullscreen(Placed(p)) ELSE Placed(p)
<1>2. l \in WindowSet /\ Fits(l)
  <2>1. /\ Width \in Nat /\ Height \in Nat /\ Titlebar \in Nat /\ 0 \in 0..MaxVersion
        /\ p.x \in Nat /\ p.y \in Nat /\ p.w \in Nat /\ p.h \in Nat
        /\ p.x + p.w <= Width /\ p.y + p.h + Titlebar <= Height
    BY ScreenAssumption, SizesType
  <2>2. Placed(p) \in WindowSet /\ Fits(Placed(p))
    BY <2>1 DEF Placed, WindowSet, Fits
  <2>3. SetFullscreen(Placed(p)) \in WindowSet /\ Fits(SetFullscreen(Placed(p)))
    BY <2>1 DEF SetFullscreen, Placed, WindowSet, Fits
  <2> QED BY <2>2, <2>3
<1>3. win \in [Windows -> WindowSet] /\ win' = [win EXCEPT ![w] = l]
  BY <1>1 DEF DsInv, Typed
<1> HIDE DEF l
<1>4. win' \in [Windows -> WindowSet] /\ \A v \in Windows : win'[v] = l \/ win'[v] = win[v]
  BY <1>2, <1>3
<1>5. \A v \in Windows : Fits(win'[v])
  BY <1>2, <1>4 DEF DsInv, Typed
<1>6. scope \in Seq(Windows \cup {Server}) /\ w \in Windows \cup {Server}
  BY DEF DsInv, Typed
<1>7. scope' \in Seq(Windows \cup {Server}) /\ Distinct(scope')
      /\ Range(scope') = Range(scope) \cup {w}
  BY <1>1, <1>6, AppendKeeps, RangeAppend DEF DsInv, Nested
<1>8. scope' # << >> /\ scope'[1] = Server
  <2>1. scope # << >>
    BY <1>1 DEF Range
  <2>2. Len(scope) \in Nat \ {0}
    BY <1>6, <2>1, EmptySeq
  <2>3. scope'[1] = scope[1] /\ Len(scope') = Len(scope) + 1
    BY <1>1, <1>6, <2>2
  <2> QED BY <2>1, <2>2, <2>3, <1>7 DEF DsInv, Nested
<1>9. Typed'
  BY <1>1, <1>4, <1>5, <1>7 DEF DsInv, Typed, Fits, WindowSet, Picture, PixelSet, Screen
<1>10. Nested'
  BY <1>1, <1>7, <1>8 DEF DsInv, Nested, Distinct
<1> QED BY <1>9, <1>10 DEF DsInv

LEMMA AttachInv ==
  ASSUME DsInv, NEW w \in Windows, AttachWindow(w)
  PROVE  DsInv'
<1>1. /\ w \in Range(scope)
      /\ lux' = [lux EXCEPT !.windows = Append(lux.windows, w)]
      /\ twice' = (twice \/ w \in Range(lux.windows))
      /\ UNCHANGED <<scope, win, screen, fault>>
  BY DEF AttachWindow, Live
<1>2. /\ lux.windows \in Seq(Windows) /\ lux'.windows = Append(lux.windows, w)
      /\ lux' \in [windows : Seq(Windows), buffer : {"unset", "held", "freed"}, back : Picture]
      /\ twice \in BOOLEAN
  <2>1. lux.windows \in Seq(Windows) /\ Append(lux.windows, w) \in Seq(Windows) /\ twice \in BOOLEAN
    BY DEF DsInv, Typed
  <2>2. lux \in [windows : Seq(Windows), buffer : {"unset", "held", "freed"}, back : Picture]
    BY DEF DsInv, Typed
  <2> QED BY <1>1, <2>1, <2>2
<1>3. twice' \in BOOLEAN
  BY <1>1, <1>2
<1>4. Typed'
  BY <1>1, <1>2, <1>3 DEF DsInv, Typed, Fits, WindowSet, Picture, PixelSet, Screen
<1>5. ASSUME ~twice'
      PROVE  fault' = "none" /\ Distinct(lux'.windows) /\ Range(lux'.windows) \subseteq Range(scope)
  <2>1. ~twice /\ w \notin Range(lux.windows)
    BY <1>1, <1>5
  <2>2. Distinct(lux.windows) /\ Range(lux.windows) \subseteq Range(scope) /\ fault = "none"
    BY <2>1 DEF DsInv, Nested
  <2>3. Distinct(lux'.windows) /\ Range(lux'.windows) = Range(lux.windows) \cup {w}
    BY <1>2, <2>1, <2>2, AppendKeeps, RangeAppend
  <2> QED BY <1>1, <2>2, <2>3
<1> QED BY <1>1, <1>4, <1>5 DEF DsInv, Nested, Distinct

LEMMA ConstructInv ==
  ASSUME DsInv, NEW w \in Windows, ConstructPointer(w) \/ Paint(w)
  PROVE  DsInv'
<1>0. win \in [Windows -> WindowSet] /\ MaxVersion \in Nat /\ \A v \in Windows : Fits(win[v])
  BY SizesType DEF DsInv, Typed
<1>1. /\ \/ win' = [win EXCEPT ![w].buffers = "held"]
         \/ win[w].version < MaxVersion /\ win' = [win EXCEPT ![w].version = win[w].version + 1]
      /\ UNCHANGED <<scope, lux, screen, fault, twice>>
  BY DEF ConstructPointer, Paint
<1>2. ASSUME win' = [win EXCEPT ![w].buffers = "held"]
      PROVE  win' \in [Windows -> WindowSet] /\ \A v \in Windows : Fits(win'[v])
  BY <1>0, <1>2 DEF WindowSet, Fits
<1>3. ASSUME win[w].version < MaxVersion, win' = [win EXCEPT ![w].version = win[w].version + 1]
      PROVE  win' \in [Windows -> WindowSet] /\ \A v \in Windows : Fits(win'[v])
  <2>1. win[w].version + 1 \in 0..MaxVersion
    BY <1>0, <1>3 DEF WindowSet
  <2>2. [win[w] EXCEPT !.version = win[w].version + 1] \in WindowSet
    BY <1>0, <2>1 DEF WindowSet
  <2>3. Fits([win[w] EXCEPT !.version = win[w].version + 1])
    BY <1>0 DEF WindowSet, Fits
  <2>4. win' = [win EXCEPT ![w] = [win[w] EXCEPT !.version = win[w].version + 1]]
    BY <1>0, <1>3
  <2> QED BY <1>0, <2>2, <2>3, <2>4
<1>4. win' \in [Windows -> WindowSet] /\ \A v \in Windows : Fits(win'[v])
  BY <1>1, <1>2, <1>3
<1>5. /\ lux' \in [windows : {lux.windows}, buffer : {"unset", "held", "freed"}, back : Picture]
      /\ screen' \in Picture /\ fault' \in {"none", "stale"} /\ (~twice => fault' = "none")
  BY <1>1 DEF DsInv, Typed, Nested
<1> QED BY <1>1, <1>4, <1>5, DrawInv
LEMMA DrawingInv ==
  ASSUME DsInv, DrawWindows \/ FlipBuffer \/ DrawBanner
  PROVE  DsInv'
<1>1. /\ Typed /\ lux.windows \in Seq(Windows) /\ lux.back \in Picture /\ screen \in Picture
      /\ lux \in [windows : Seq(Windows), buffer : {"unset", "held", "freed"}, back : Picture]
      /\ win \in [Windows -> WindowSet] /\ \A w \in Windows : Fits(win[w])
      /\ fault \in {"none", "stale"}
  BY DEF DsInv, Typed
<1>2. UNCHANGED <<scope, twice, win>>
  BY DEF DrawWindows, FlipBuffer, DrawBanner
<1>3. CASE DrawWindows
  <2>1. /\ lux' = [lux EXCEPT !.back = DrawAll(lux.back, lux.windows)]
        /\ fault' = Harm(lux.windows) /\ AllReady /\ screen' = screen
    BY <1>3 DEF DrawWindows
  <2>2. DrawAll(lux.back, lux.windows) \in Picture
    BY <1>1, DrawAllShows
  <2>3. fault' \in {"none", "stale"} /\ (~twice => fault' = "none")
    BY <1>1, <2>1, HarmIs DEF DsInv, Nested
  <2>4. lux' \in [windows : {lux.windows}, buffer : {"unset", "held", "freed"}, back : Picture]
    BY <1>1, <2>1, <2>2
  <2> QED BY <1>1, <1>2, <2>1, <2>3, <2>4, DrawInv
<1>4. CASE FlipBuffer \/ DrawBanner
  <2>1. UNCHANGED <<lux, fault>> /\ Going
    BY <1>4 DEF FlipBuffer, DrawBanner
  <2>2. screen' \in Picture
    <3>1. Banner \in PixelSet
      BY DEF PixelSet
    <3> QED BY <1>1, <1>4, <3>1 DEF FlipBuffer, DrawBanner, Picture
  <2>3. fault' = "none"
    BY <2>1 DEF Going
  <2>4. lux' \in [windows : {lux.windows}, buffer : {"unset", "held", "freed"}, back : Picture]
    BY <1>1, <2>1
  <2> QED BY <1>1, <1>2, <2>2, <2>3, <2>4, DrawInv
<1> QED BY <1>3, <1>4

LEMMA RedrawInv ==
  ASSUME DsInv, NEW w \in Windows, RedrawWindow(w)
  PROVE  DsInv'
<1>1. /\ AllReady /\ Live(w) /\ screen' = Draw(screen, w) /\ fault' = Harm(<<w>>)
      /\ UNCHANGED <<scope, lux, win, twice>>
  BY DEF RedrawWindow
<1>2. /\ Typed /\ screen \in Picture /\ win \in [Windows -> WindowSet]
      /\ \A v \in Windows : Fits(win[v])
      /\ lux \in [windows : Seq(Windows), buffer : {"unset", "held", "freed"}, back : Picture]
  BY DEF DsInv, Typed
<1>3. screen' \in Picture
  BY <1>1, <1>2, DrawType
<1>4. <<w>> \in Seq(Windows) /\ Range(<<w>>) = {w}
  BY DEF Range
<1>5. fault' = "none"
  BY <1>1, <1>2, <1>4, HarmIs DEF Live
<1>6. lux' \in [windows : {lux.windows}, buffer : {"unset", "held", "freed"}, back : Picture]
  BY <1>1, <1>2
<1> QED BY <1>1, <1>2, <1>3, <1>5, <1>6, DrawInv

LEMMA EndWindowInv ==
  ASSUME DsInv, NEW w \in Windows, EndWindow(w)
  PROVE  DsInv'
<1> DEFINE rs == Removed(lux.windows, w)
<1>1. /\ Going /\ AllReady /\ Last(scope) = w /\ w \in Range(scope)
      /\ scope' = Front(scope)
      /\ lux' = [lux EXCEPT !.windows = rs, !.back = DrawAll(lux.back, rs)]
      /\ screen' = lux'.back /\ win' = [win EXCEPT ![w].buffers = "freed"]
      /\ fault' = Harm(lux'.windows) /\ twice' = twice
  BY DEF EndWindow, Live, Repainted
<1>2. /\ Typed /\ lux.windows \in Seq(Windows) /\ lux.back \in Picture
      /\ lux \in [windows : Seq(Windows), buffer : {"unset", "held", "freed"}, back : Picture]
      /\ win \in [Windows -> WindowSet] /\ \A v \in Windows : Fits(win[v])
      /\ scope \in Seq(Windows \cup {Server}) /\ Distinct(scope)
      /\ (scope # << >> => scope[1] = Server)
  BY DEF DsInv, Typed, Nested
<1>3. rs \in Seq(Windows) /\ Range(rs) \subseteq Range(lux.windows)
  BY <1>2, RemovedType
<1>4. DrawAll(lux.back, rs) \in Picture
  BY <1>2, <1>3, DrawAllShows
<1> HIDE DEF rs
<1>5. /\ lux'.windows = rs /\ screen' \in Picture
      /\ lux' \in [windows : Seq(Windows), buffer : {"unset", "held", "freed"}, back : Picture]
  BY <1>1, <1>2, <1>3, <1>4
<1>6. scope # << >>
  BY <1>1 DEF Range
<1>7. scope' \in Seq(Windows \cup {Server})
  BY <1>1, <1>2, <1>6, FrontIs
<1>8. Distinct(scope') /\ Range(scope) \ {w} \subseteq Range(scope')
      /\ (scope' # << >> => scope'[1] = Server)
  BY <1>1, <1>2, <1>6, FrontKeeps
<1>9. win' \in [Windows -> WindowSet] /\ \A v \in Windows : Fits(win'[v])
  <2>1. win' = [win EXCEPT ![w] = [win[w] EXCEPT !.buffers = "freed"]]
    BY <1>1
  <2>2. [win[w] EXCEPT !.buffers = "freed"] \in WindowSet
    BY <1>2 DEF WindowSet
  <2>3. Fits([win[w] EXCEPT !.buffers = "freed"])
    BY <1>2 DEF WindowSet, Fits
  <2> QED BY <1>2, <2>1, <2>2, <2>3
<1>10. fault' \in {"none", "stale"}
  BY <1>1, <1>2, <1>3, <1>5, HarmIs
<1>11. Typed'
  BY <1>1, <1>2, <1>5, <1>7, <1>9, <1>10
  DEF Typed, Fits, WindowSet, Picture, PixelSet, Screen
<1>12. ASSUME ~twice
       PROVE  fault' = "none" /\ Distinct(lux'.windows) /\ Range(lux'.windows) \subseteq Range(scope')
  <2>1. Distinct(lux.windows) /\ Range(lux.windows) \subseteq Range(scope)
    BY <1>12 DEF DsInv, Nested
  <2>2. Distinct(rs) /\ Range(rs) \subseteq Range(lux.windows) \ {w}
    BY <1>2, <2>1, RemovedOnce DEF rs
  <2>3. Harm(rs) = "none"
    BY <1>1, <1>2, <1>3, <2>1, <2>2, HarmIs
  <2> QED BY <1>1, <1>5, <1>8, <2>1, <2>2, <2>3
<1> QED BY <1>1, <1>8, <1>11, <1>12 DEF DsInv, Nested, Distinct

LEMMA EndServerInv ==
  ASSUME DsInv, EndServer
  PROVE  DsInv'
<1>1. /\ scope = <<Server>> /\ scope' = << >> /\ lux' = [lux EXCEPT !.buffer = "freed"]
      /\ fault' = Harm(lux.windows) /\ UNCHANGED <<win, screen, twice>>
  BY DEF EndServer
<1>2. /\ Typed /\ lux.windows \in Seq(Windows)
      /\ lux \in [windows : Seq(Windows), buffer : {"unset", "held", "freed"}, back : Picture]
  BY DEF DsInv, Typed
<1>3. /\ lux'.windows = lux.windows
      /\ lux' \in [windows : Seq(Windows), buffer : {"unset", "held", "freed"}, back : Picture]
  BY <1>1, <1>2
<1>4. Harm(lux.windows) \in {"none", "stale"} /\ Range(lux.windows) \subseteq Windows
  BY <1>2, HarmIs DEF Range
<1>5. Range(scope) = {Server} /\ Range(scope') = {} /\ Distinct(scope')
  BY <1>1 DEF Range, Distinct
<1>6. scope' \in Seq(Windows \cup {Server})
  BY <1>1
<1>7. Typed'
  BY <1>1, <1>3, <1>4, <1>6 DEF DsInv, Typed, Fits, WindowSet, Picture, PixelSet, Screen
<1>8. ASSUME ~twice
      PROVE  fault' = "none" /\ Distinct(lux'.windows) /\ Range(lux'.windows) \subseteq Range(scope')
  <2>1. Distinct(lux.windows) /\ Range(lux.windows) = {}
    BY <1>4, <1>5, <1>8, SizesType DEF DsInv, Nested
  <2>2. Harm(lux.windows) = "none"
    BY <2>1 DEF Harm
  <2> QED BY <1>1, <1>3, <1>5, <2>1, <2>2
<1> QED BY <1>1, <1>5, <1>7, <1>8 DEF DsInv, Nested, Distinct
LEMMA StepInv == DsInv /\ [Next]_vars => DsInv'
<1> SUFFICES ASSUME DsInv, [Next]_vars PROVE DsInv'
  OBVIOUS
<1>1. CASE StartServer
  BY <1>1, StartInv
<1>2. CASE DrawWindows \/ FlipBuffer \/ DrawBanner
  BY <1>2, DrawingInv
<1>3. CASE EndServer
  BY <1>3, EndServerInv
<1>4. ASSUME NEW w \in Windows, NEW p \in Places, NEW full \in BOOLEAN, Open(w, p, full)
      PROVE  DsInv'
  BY <1>4, OpenInv
<1>5. ASSUME NEW w \in Windows, AttachWindow(w) PROVE DsInv'
  BY <1>5, AttachInv
<1>6. ASSUME NEW w \in Windows, ConstructPointer(w) \/ Paint(w) PROVE DsInv'
  BY <1>6, ConstructInv
<1>7. ASSUME NEW w \in Windows, RedrawWindow(w) PROVE DsInv'
  BY <1>7, RedrawInv
<1>8. ASSUME NEW w \in Windows, EndWindow(w) PROVE DsInv'
  BY <1>8, EndWindowInv
<1>9. CASE UNCHANGED vars
  BY <1>9 DEF vars, DsInv, Typed, Nested, Distinct, Fits, WindowSet, Picture, PixelSet, Screen
<1> QED BY <1>1, <1>2, <1>3, <1>4, <1>5, <1>6, <1>7, <1>8, <1>9 DEF Next

LEMMA AlwaysDsInv == Spec => []DsInv
BY InitInv, StepInv, PTL DEF Spec

(* The server draws and destroys no window that has ended, frees nothing   *)
(* twice and leaves the frame buffer alone outside of the screen, as long  *)
(* as no window is attached twice; and no drawing ever leaves the screen.  *)
THEOREM ServerDrawsLiveWindows == Spec => []DrawsLiveWindows
<1>1. ASSUME DsInv PROVE DrawsLiveWindows
  <2>1. Typed /\ Nested
    BY <1>1 DEF DsInv
  <2>2. Range(scope) \subseteq Windows \cup {Server} /\ Range(lux.windows) \subseteq Windows
    BY <2>1 DEF Typed, Range
  <2>3. TypeOK
    BY <2>1, <2>2 DEF Typed, TypeOK, WindowSet, Picture
  <2> QED BY <2>1, <2>3 DEF Typed, Nested, DrawsLiveWindows
<1> QED BY <1>1, AlwaysDsInv, PTL

-----------------------------------------------------------------------------
(***************************************************************************)
(* What a window leaves behind it.                                         *)
(***************************************************************************)
(* A full screen is that: each of its pixels has a row and a column.       *)
LEMMA RowAndColumn ==
  ASSUME NEW a \in Screen
  PROVE  \E r \in 0..(Height - 1), c \in 0..(Width - 1) : a = r * Width + c
<1> DEFINE Placed0(b) == \E r \in 0..(Height - 1), c \in 0..(Width - 1) : b = r * Width + c
           D == {k \in 0..Height : \A b \in 0..(k * Width - 1) : Placed0(b)}
<1>1. Width \in Nat \ {0} /\ Height \in Nat \ {0}
  BY SizesType
<1>2. 0 \in D
  <2>1. 0 * Width = 0 /\ 0 \in 0..Height
    BY <1>1
  <2> QED BY <2>1
<1>3. ASSUME NEW k \in 0..(Height - 1), k \in D PROVE k + 1 \in D
  <2>1. k \in Nat /\ k + 1 \in 0..Height /\ (k + 1) * Width = k * Width + Width
        /\ k * Width \in Nat
    BY <1>1
  <2>2. ASSUME NEW b \in 0..((k + 1) * Width - 1) PROVE Placed0(b)
    <3>1. CASE b < k * Width
      <4>1. b \in 0..(k * Width - 1)
        BY <2>1, <3>1
      <4> QED BY <1>3, <4>1
    <3>2. CASE ~(b < k * Width)
      <4> DEFINE c == b - k * Width
      <4>1. c \in 0..(Width - 1) /\ b = k * Width + c
        BY <1>1, <2>1, <3>2
      <4> HIDE DEF c
      <4> QED BY <4>1
    <3> QED BY <3>1, <3>2
  <2> HIDE DEF Placed0
  <2> QED BY <2>1, <2>2
<1>4. Height \in D
  <2>1. Height \in 0..Height /\ Height \in Nat
    BY <1>1
  <2> HIDE DEF D
  <2> QED BY <1>2, <1>3, <2>1, Induction
<1>5. a \in 0..(Height * Width - 1)
  <2>1. Width * Height = Height * Width
    BY <1>1
  <2> QED BY <2>1 DEF Screen
<1> QED BY <1>4, <1>5

LEMMA FullCovers ==
  ASSUME Typed, NEW w \in Windows, win[w].fullscreen
  PROVE  Screen \subseteq Cells(w)
<1>1. /\ win[w].x = 0 /\ win[w].y = 0 /\ win[w].w = Width /\ win[w].h = Height
      /\ BarOf(w) = 0 /\ Width \in Nat \ {0} /\ Height \in Nat \ {0}
  BY SizesType DEF Typed, Fits, BarOf
<1>2. SUFFICES ASSUME NEW a \in Screen PROVE a \in BodyCells(w)
  BY DEF Cells
<1>3. PICK r \in 0..(Height - 1), c \in 0..(Width - 1) : a = r * Width + c
  BY RowAndColumn
<1>4. r \in BodyRows(w)
  BY <1>1 DEF BodyRows, Pitch
<1>5. At(w, r, c) = a
  <2>1. r * Width \in Nat /\ 0 * Width = 0 /\ c \in Nat
    BY <1>1
  <2>2. r * Width + c + 0 + 0 = r * Width + c
    BY <2>1
  <2> QED BY <1>1, <1>3, <2>1, <2>2 DEF At
<1> QED BY <1>1, <1>4, <1>5 DEF BodyCells

(* What is last above a pixel in the list is so in what is left of it.     *)
LEMMA LeftShows ==
  ASSUME NEW ws \in Seq(Windows), Distinct(ws), NEW w, NEW buf, NEW a, NEW A,
         A = {k \in DOMAIN ws : ws[k] # w /\ a \in Cells(ws[k])}, A # {}
  PROVE  Shown(buf, Removed(ws, w), Len(Removed(ws, w)), a) = Pixel(ws[Max(A)], a)
<1> DEFINE n == Len(ws)
           rs == Removed(ws, w)
<1>1. PICK j \in 1..(n + 1) : \A k \in 1..n : ws[k] = w <=> k = j
  BY PlaceOf
<1> DEFINE m == Left(j, n)
           O == Over(rs, m, a)
<1>2. n \in Nat /\ DOMAIN ws = 1..n
  OBVIOUS
<1>3. rs = Without(ws, j, n)
  BY <1>1, RemovedIs
<1> HIDE DEF rs, n
<1>4. DOMAIN rs = 1..m /\ \A i \in 1..m : rs[i] = ws[Skip(j, i)]
  BY <1>3 DEF Without
<1>5. m \in Nat
  BY <1>2 DEF Left
<1>6. rs \in Seq(Windows) /\ Len(rs) = m
  <2>1. rs \in Seq(Windows)
    BY RemovedType DEF rs
  <2>2. DOMAIN rs = 1..Len(rs) /\ Len(rs) \in Nat
    BY <2>1
  <2> HIDE DEF m
  <2> QED BY <1>4, <1>5, <2>1, <2>2
<1>7. A \in SUBSET (1..n)
  BY <1>2
<1>8. Max(A) \in A /\ \A k \in A : k <= Max(A)
  BY <1>2, <1>7, MaxOf
<1> DEFINE k == Max(A)
           i == IF k < j THEN k ELSE k - 1
<1>9. k \in 1..n /\ k # j /\ a \in Cells(ws[k])
  BY <1>1, <1>2, <1>8
<1> HIDE DEF k
<1>10. i \in 1..m /\ Skip(j, i) = k
  BY <1>2, <1>9 DEF Left, Skip
<1> HIDE DEF i, m
<1>11. i \in O
  BY <1>4, <1>9, <1>10 DEF Over
<1>12. ASSUME NEW h \in O PROVE h <= i
  <2>1. h \in 1..m /\ a \in Cells(ws[Skip(j, h)])
    BY <1>4, <1>12 DEF Over
  <2>2. Skip(j, h) \in 1..n /\ Skip(j, h) # j
    BY <1>2, <2>1 DEF Skip, Left, m
  <2>3. Skip(j, h) \in A
    BY <1>1, <1>2, <2>1, <2>2
  <2>4. Skip(j, h) <= k
    BY <1>8, <2>3 DEF k
  <2>5. h \in Nat /\ i \in Nat /\ j \in Nat
    BY <1>2, <1>5, <1>10, <2>1
  <2> QED BY <1>10, <2>4, <2>5 DEF Skip
<1>13. Max(O) = i
  <2>1. O \in SUBSET (1..m)
    BY DEF Over
  <2> HIDE DEF O
  <2> QED BY <1>5, <1>11, <1>12, <2>1, MaxIs
<1>14. Shown(buf, rs, m, a) = Pixel(rs[i], a)
  BY <1>11, <1>13 DEF Shown
<1> QED BY <1>4, <1>6, <1>10, <1>14 DEF k, rs
(* Only the end of a window makes the list of objects one shorter while it *)
(* ends in that window.                                                    *)
LEMMA WhoEnds ==
  ASSUME DsInv, [Next]_vars, NEW w \in Windows, scope # << >>, Ends(w)
  PROVE  EndWindow(w)
<1>1. scope \in Seq(Windows \cup {Server}) /\ Last(scope) = w /\ scope' = Front(scope)
  BY DEF DsInv, Typed, Ends
<1>2. Len(scope') = Len(scope) - 1 /\ Len(scope) \in Nat \ {0}
  BY <1>1, FrontIs
<1>3. scope' # scope
  BY <1>2
<1>4. ~StartServer
  BY DEF StartServer
<1>5. ~EndServer
  <2>1. Last(<<Server>>) = Server
    BY DEF Last
  <2> QED BY <1>1, <2>1, SizesType DEF EndServer
<1>6. ~(DrawWindows \/ FlipBuffer \/ DrawBanner) /\ ~(UNCHANGED vars)
  BY <1>3 DEF DrawWindows, FlipBuffer, DrawBanner, vars
<1>7. \A v \in Windows : ~AttachWindow(v) /\ ~ConstructPointer(v) /\ ~Paint(v) /\ ~RedrawWindow(v)
  BY <1>3 DEF AttachWindow, ConstructPointer, Paint, RedrawWindow
<1>8. ASSUME NEW v \in Windows, NEW p \in Places, NEW full \in BOOLEAN, Open(v, p, full)
      PROVE  FALSE
  <2>1. scope' = Append(scope, v) /\ v \in Windows \cup {Server}
    BY <1>8 DEF Open
  <2>2. Len(scope') = Len(scope) + 1
    BY <1>1, <2>1
  <2> QED BY <1>2, <2>2
<1>9. ASSUME NEW v \in Windows, EndWindow(v) PROVE v = w
  BY <1>1, <1>9 DEF EndWindow
<1> QED BY <1>4, <1>5, <1>6, <1>7, <1>8, <1>9 DEF Next

(* When a window ends and another fills the screen, each pixel becomes     *)
(* that of the last of the other windows that covers it.                   *)
THEOREM ScreenRepaired == Spec => EndRepairsScreen
<1> DEFINE Step(w) ==
      scope # << >> /\ Ends(w) /\ ~twice
      /\ (\E k \in Others(w) : win[lux.windows[k]].fullscreen)
      => \A a \in Screen : screen'[a] = Pixel(lux.windows[Max(Above(w, a))], a)
<1>1. ASSUME DsInv, [Next]_vars PROVE \A w \in Windows : Step(w)
  <2>1. SUFFICES ASSUME NEW w \in Windows, scope # << >>, Ends(w), ~twice,
                        NEW k \in Others(w), win[lux.windows[k]].fullscreen,
                        NEW a \in Screen
                 PROVE  screen'[a] = Pixel(lux.windows[Max(Above(w, a))], a)
    OBVIOUS
  <2>2. EndWindow(w)
    BY <1>1, <2>1, WhoEnds
  <2> DEFINE ws == lux.windows
             rs == Removed(ws, w)
  <2>3. Typed /\ ws \in Seq(Windows) /\ lux.back \in Picture /\ Distinct(ws)
    BY <1>1, <2>1 DEF DsInv, Typed, Nested
  <2>4. screen' = DrawAll(lux.back, rs)
    <3>1. lux' = [lux EXCEPT !.windows = rs, !.back = DrawAll(lux.back, rs)] /\ screen' = lux'.back
      BY <2>2 DEF EndWindow, Repainted
    <3>2. lux \in [windows : Seq(Windows), buffer : {"unset", "held", "freed"}, back : Picture]
      BY <2>3 DEF Typed
    <3> QED BY <3>1, <3>2
  <2>5. screen'[a] = Shown(lux.back, rs, Len(rs), a)
    BY <2>3, <2>4, RemovedType, DrawAllShows
  <2>6. Above(w, a) = {i \in DOMAIN ws : ws[i] # w /\ a \in Cells(ws[i])}
    BY DEF Above, Others
  <2>7. k \in Above(w, a)
    <3>1. k \in DOMAIN ws /\ ws[k] \in Windows
      BY <2>3 DEF Others
    <3>2. a \in Cells(ws[k])
      BY <2>1, <2>3, <3>1, FullCovers
    <3> QED BY <2>1, <3>2 DEF Above
  <2> HIDE DEF ws, rs
  <2>8. Shown(lux.back, rs, Len(rs), a) = Pixel(ws[Max(Above(w, a))], a)
    <3> DEFINE A == Above(w, a)
    <3>1. A = {i \in DOMAIN ws : ws[i] # w /\ a \in Cells(ws[i])} /\ A # {}
      BY <2>6, <2>7
    <3> HIDE DEF A
    <3>2. Shown(lux.back, Removed(ws, w), Len(Removed(ws, w)), a) = Pixel(ws[Max(A)], a)
      BY <2>3, <3>1, LeftShows
    <3> QED BY <3>2 DEF rs, A
  <2> QED BY <2>5, <2>8 DEF ws
<1>2. ASSUME DsInv, [Next]_vars PROVE [\A w \in Windows : Step(w)]_vars
  BY <1>1, <1>2
<1>3. Spec => [][\A w \in Windows : Step(w)]_vars
  <2> HIDE DEF Step
  <2> QED BY <1>2, AlwaysDsInv, PTL DEF Spec
<1> QED BY <1>3 DEF EndRepairsScreen

-----------------------------------------------------------------------------
(***************************************************************************)
(* What each place of the screen shows.                                    *)
(***************************************************************************)
ShowsWindow(pic, a, w) ==
  /\ win[w].buffers # "unset" /\ a \in Cells(w)
  /\ \E v \in 0..win[w].version : pic[a] = <<w, v>>

Genuine(pic) ==
  \A a \in Screen : pic[a] \in {Blank, Banner} \/ \E w \in Windows : ShowsWindow(pic, a, w)

(* A window in the vector lives, or was attached twice and has ended.      *)
LiveOrEnded == \A w \in Range(lux.windows) : Live(w) \/ win[w].buffers = "freed"

PictureInv == Genuine(screen) /\ Genuine(lux.back) /\ LiveOrEnded

(* Such a picture remains one while windows that had buffers stay in their *)
(* places and only grow older.                                             *)
Aged ==
  \A w \in Windows : win[w].buffers # "unset" =>
    /\ win'[w].buffers # "unset" /\ win[w].version <= win'[w].version
    /\ win'[w].x = win[w].x /\ win'[w].y = win[w].y /\ win'[w].w = win[w].w
    /\ win'[w].h = win[w].h /\ win'[w].fullscreen = win[w].fullscreen

GenuineNext(pic) ==
  \A a \in Screen :
    \/ pic[a] \in {Blank, Banner}
    \/ \E w \in Windows : /\ win'[w].buffers # "unset" /\ a \in Cells(w)'
                          /\ \E v \in 0..win'[w].version : pic[a] = <<w, v>>

LEMMA StaysGenuine ==
  ASSUME Typed, Typed', Aged, NEW pic, Genuine(pic)
  PROVE  GenuineNext(pic)
<1>1. SUFFICES ASSUME NEW a \in Screen, NEW w \in Windows, ShowsWindow(pic, a, w)
               PROVE  /\ win'[w].buffers # "unset" /\ a \in Cells(w)'
                      /\ \E v \in 0..win'[w].version : pic[a] = <<w, v>>
  BY DEF Genuine, GenuineNext
<1>2. /\ win'[w].buffers # "unset" /\ win[w].version <= win'[w].version
      /\ win'[w].x = win[w].x /\ win'[w].y = win[w].y /\ win'[w].w = win[w].w
      /\ win'[w].h = win[w].h /\ win'[w].fullscreen = win[w].fullscreen
  BY <1>1 DEF ShowsWindow, Aged
<1>3. Cells(w)' = Cells(w)
  BY <1>2 DEF Cells, TitleCells, BodyCells, BodyRows, At, BarOf
<1>4. win[w].version \in Nat /\ win'[w].version \in Nat
  <2>1. win[w] \in WindowSet /\ win'[w] \in WindowSet /\ MaxVersion \in Nat
    BY SizesType DEF Typed, WindowSet
  <2> QED BY <2>1 DEF WindowSet
<1>5. 0..win[w].version \subseteq 0..win'[w].version
  BY <1>2, <1>4
<1> QED BY <1>1, <1>2, <1>3, <1>5 DEF ShowsWindow

LEMMA VersionShown ==
  ASSUME Typed, NEW w \in Windows, NEW a
  PROVE  \E v \in 0..win[w].version : Pixel(w, a) = <<w, v>>
<1>1. win[w].version \in Nat
  BY SizesType DEF Typed, WindowSet
<1>2. 0 \in 0..win[w].version /\ win[w].version \in 0..win[w].version
  BY <1>1
<1> QED BY <1>2 DEF Pixel, TitlePixel

LEMMA DrawGenuine ==
  ASSUME Typed, NEW buf \in Picture, Genuine(buf), NEW w \in Windows, win[w].buffers # "unset"
  PROVE  Genuine(Draw(buf, w))
<1>1. SUFFICES ASSUME NEW a \in Screen
               PROVE  \/ Draw(buf, w)[a] \in {Blank, Banner}
                      \/ \E v \in Windows : ShowsWindow(Draw(buf, w), a, v)
  BY DEF Genuine
<1>2. CASE a \in Cells(w)
  <2>1. Draw(buf, w)[a] = Pixel(w, a)
    BY <1>2 DEF Draw
  <2>2. \E v \in 0..win[w].version : Pixel(w, a) = <<w, v>>
    BY VersionShown
  <2> QED BY <1>2, <2>1, <2>2 DEF ShowsWindow
<1>3. CASE a \notin Cells(w)
  <2>1. Draw(buf, w)[a] = buf[a]
    BY <1>3 DEF Draw
  <2> QED BY <2>1 DEF Genuine, ShowsWindow
<1> QED BY <1>2, <1>3

LEMMA DrawnGenuine ==
  ASSUME Typed, NEW buf \in Picture, Genuine(buf), NEW ws \in Seq(Windows),
         \A w \in Range(ws) : win[w].buffers # "unset"
  PROVE  Genuine(DrawAll(buf, ws))
<1>1. SUFFICES ASSUME NEW a \in Screen
               PROVE  \/ DrawAll(buf, ws)[a] \in {Blank, Banner}
                      \/ \E w \in Windows : ShowsWindow(DrawAll(buf, ws), a, w)
  BY DEF Genuine
<1> DEFINE O == Over(ws, Len(ws), a)
<1>2. DrawAll(buf, ws)[a] = Shown(buf, ws, Len(ws), a)
  BY DrawAllShows
<1>3. CASE O = {}
  <2>1. DrawAll(buf, ws)[a] = buf[a]
    BY <1>2, <1>3 DEF Shown
  <2> QED BY <2>1 DEF Genuine, ShowsWindow
<1>4. CASE O # {}
  <2>1. O \in SUBSET (1..Len(ws)) /\ Len(ws) \in Nat /\ DOMAIN ws = 1..Len(ws)
    BY DEF Over
  <2>2. Max(O) \in O
    BY <1>4, <2>1, MaxOf
  <2> DEFINE w == ws[Max(O)]
  <2>3. w \in Windows /\ w \in Range(ws) /\ a \in Cells(w)
    <3>1. Max(O) \in DOMAIN ws /\ a \in Cells(ws[Max(O)])
      BY <2>1, <2>2 DEF Over
    <3> HIDE DEF O
    <3> QED BY <3>1 DEF Range
  <2>4. DrawAll(buf, ws)[a] = Pixel(w, a)
    BY <1>2, <1>4 DEF Shown
  <2> HIDE DEF w
  <2>5. \E v \in 0..win[w].version : Pixel(w, a) = <<w, v>>
    BY <2>3, VersionShown
  <2> QED BY <2>3, <2>4, <2>5 DEF ShowsWindow
<1> QED BY <1>3, <1>4

(* Whatever is drawn has buffers, for an action draws when all are ready.  *)
LEMMA AttachedHaveBuffers ==
  ASSUME Typed, LiveOrEnded, AllReady, NEW ws \in Seq(Windows), Range(ws) \subseteq Range(lux.windows)
  PROVE  \A w \in Range(ws) : win[w].buffers # "unset"
<1>1. Range(ws) \subseteq Windows
  BY DEF Range
<1> QED BY <1>1, SizesType DEF LiveOrEnded, AllReady, Ready, Live

(* It is enough that a step draws genuine pictures of the windows before.  *)
LEMMA PictureKept ==
  ASSUME DsInv, DsInv', Aged, Genuine(screen'), Genuine(lux'.back), LiveOrEnded'
  PROVE  PictureInv'
<1>1. GenuineNext(screen') /\ GenuineNext(lux'.back)
  BY StaysGenuine DEF DsInv
<1>2. Genuine(screen)' /\ Genuine(lux.back)'
  BY <1>1 DEF Genuine, GenuineNext, ShowsWindow, Screen
<1> QED BY <1>2 DEF PictureInv

LEMMA PictureInit == Init => PictureInv
<1> SUFFICES ASSUME Init PROVE PictureInv
  OBVIOUS
<1>1. screen = [a \in Screen |-> Blank] /\ lux.back = [a \in Screen |-> Blank]
      /\ lux.windows = << >>
  BY DEF Init
<1>2. Range(<< >>) = {}
  BY DEF Range
<1> QED BY <1>1, <1>2 DEF PictureInv, Genuine, LiveOrEnded

LEMMA PictureStep == DsInv /\ DsInv' /\ PictureInv /\ [Next]_vars => PictureInv'
<1> SUFFICES ASSUME DsInv, DsInv', PictureInv, [Next]_vars PROVE PictureInv'
  OBVIOUS
<1>0. /\ Typed /\ Genuine(screen) /\ Genuine(lux.back) /\ LiveOrEnded
      /\ win \in [Windows -> WindowSet] /\ lux.windows \in Seq(Windows)
      /\ lux \in [windows : Seq(Windows), buffer : {"unset", "held", "freed"}, back : Picture]
      /\ screen \in Picture /\ scope \in Seq(Windows \cup {Server})
  BY DEF DsInv, Typed, PictureInv
<1>a. \A w \in Windows : win[w].version \in Nat
  BY <1>0, SizesType DEF WindowSet
<1>b. ASSUME UNCHANGED win PROVE Aged
  BY <1>a, <1>b DEF Aged
<1>c. ASSUME UNCHANGED <<win, scope>>, lux'.windows = lux.windows PROVE LiveOrEnded'
  BY <1>0, <1>c DEF LiveOrEnded, Live
<1>1. CASE StartServer
  <2>1. /\ scope = << >> /\ scope' = <<Server>> /\ lux' = [lux EXCEPT !.buffer = "held"]
        /\ UNCHANGED <<win, screen>>
    BY <1>1 DEF StartServer
  <2>2. lux'.windows = lux.windows /\ lux'.back = lux.back /\ Range(scope) = {}
    BY <1>0, <2>1 DEF Range
  <2>3. LiveOrEnded'
    BY <1>0, <2>1, <2>2 DEF LiveOrEnded, Live
  <2> QED BY <1>0, <1>b, <2>1, <2>2, <2>3, PictureKept
<1>2. CASE DrawWindows
  <2>1. /\ AllReady /\ lux' = [lux EXCEPT !.back = DrawAll(lux.back, lux.windows)]
        /\ UNCHANGED <<scope, win, screen>>
    BY <1>2 DEF DrawWindows
  <2>2. lux'.windows = lux.windows /\ lux'.back = DrawAll(lux.back, lux.windows)
    BY <1>0, <2>1
  <2>3. Genuine(DrawAll(lux.back, lux.windows))
    BY <1>0, <2>1, AttachedHaveBuffers, DrawnGenuine
  <2> QED BY <1>0, <1>b, <1>c, <2>1, <2>2, <2>3, PictureKept
<1>3. CASE FlipBuffer \/ DrawBanner
  <2>1. UNCHANGED <<scope, lux, win>>
    BY <1>3 DEF FlipBuffer, DrawBanner
  <2>2. Genuine(screen')
    BY <1>0, <1>3 DEF FlipBuffer, DrawBanner, Genuine, ShowsWindow
  <2> QED BY <1>0, <1>b, <1>c, <2>1, <2>2, PictureKept
<1>4. CASE EndServer
  <2>1. /\ scope = <<Server>> /\ lux' = [lux EXCEPT !.buffer = "freed"]
        /\ UNCHANGED <<win, screen>>
    BY <1>4 DEF EndServer
  <2>2. lux'.windows = lux.windows /\ lux'.back = lux.back
    BY <1>0, <2>1
  <2>3. LiveOrEnded'
    <3>1. Range(scope) = {Server} /\ Range(lux.windows) \subseteq Windows
      BY <1>0, <2>1 DEF Range
    <3> QED BY <1>0, <2>1, <2>2, <3>1, SizesType DEF LiveOrEnded, Live
  <2> QED BY <1>0, <1>b, <2>1, <2>2, <2>3, PictureKept
<1>5. ASSUME NEW w \in Windows, NEW p \in Places, NEW full \in BOOLEAN, Open(w, p, full)
      PROVE  PictureInv'
  <2> DEFINE l == IF full THEN SetFullscreen(Placed(p)) ELSE Placed(p)
  <2>1. /\ w \notin Range(scope) /\ win[w].buffers = "unset" /\ scope' = Append(scope, w)
        /\ win' = [win EXCEPT ![w] = l] /\ UNCHANGED <<lux, screen>>
    BY <1>5 DEF Open, Live
  <2> HIDE DEF l
  <2>2. \A v \in Windows : v # w => win'[v] = win[v]
    BY <1>0, <2>1
  <2>3. Aged
    BY <1>a, <2>1, <2>2 DEF Aged
  <2>4. Range(scope') = Range(scope) \cup {w}
    BY <1>0, <2>1, RangeAppend
  <2>5. LiveOrEnded'
    <3>1. Range(lux.windows) \subseteq Windows
      BY <1>0 DEF Range
    <3> QED BY <1>0, <2>1, <2>2, <2>4, <3>1 DEF LiveOrEnded, Live
  <2> QED BY <1>0, <2>1, <2>3, <2>5, PictureKept
<1>6. ASSUME NEW w \in Windows, AttachWindow(w) PROVE PictureInv'
  <2>1. /\ w \in Range(scope) /\ lux' = [lux EXCEPT !.windows = Append(lux.windows, w)]
        /\ UNCHANGED <<scope, win, screen>>
    BY <1>6 DEF AttachWindow, Live
  <2>2. lux'.windows = Append(lux.windows, w) /\ lux'.back = lux.back
    BY <1>0, <2>1
  <2>3. Range(lux'.windows) = Range(lux.windows) \cup {w}
    BY <1>0, <2>2, RangeAppend
  <2>4. LiveOrEnded'
    BY <1>0, <2>1, <2>3 DEF LiveOrEnded, Live
  <2> QED BY <1>0, <1>b, <2>1, <2>2, <2>4, PictureKept
<1>7. ASSUME NEW w \in Windows, ConstructPointer(w) \/ Paint(w) PROVE PictureInv'
  <2>1. /\ \/ win' = [win EXCEPT ![w].buffers = "held"]
           \/ win' = [win EXCEPT ![w].version = win[w].version + 1]
        /\ w \in Range(scope) /\ UNCHANGED <<scope, lux, screen>>
    BY <1>7 DEF ConstructPointer, Paint, Live
  <2>2. Aged
    <3>1. \A v \in Windows : win[v] \in WindowSet /\ win[v].version \in Nat
      BY <1>0, <1>a
    <3>2. \A v \in Windows : v # w => win'[v] = win[v]
      BY <1>0, <2>1
    <3>3. CASE win' = [win EXCEPT ![w].buffers = "held"]
      <4>1. win'[w] = [win[w] EXCEPT !.buffers = "held"]
        BY <1>0, <3>3
      <4> QED BY <3>1, <3>2, <4>1 DEF Aged, WindowSet
    <3>4. CASE win' = [win EXCEPT ![w].version = win[w].version + 1]
      <4>1. win'[w] = [win[w] EXCEPT !.version = win[w].version + 1]
        BY <1>0, <3>4
      <4> QED BY <3>1, <3>2, <4>1 DEF Aged, WindowSet
    <3> QED BY <2>1, <3>3, <3>4
  <2>3. \A v \in Windows : v # w => win'[v] = win[v]
    BY <1>0, <2>1
  <2>4. LiveOrEnded'
    <3>1. Range(lux.windows) \subseteq Windows
      BY <1>0 DEF Range
    <3> QED BY <1>0, <2>1, <2>3, <3>1 DEF LiveOrEnded, Live
  <2> QED BY <1>0, <2>1, <2>2, <2>4, PictureKept
<1>8. ASSUME NEW w \in Windows, RedrawWindow(w) PROVE PictureInv'
  <2>1. AllReady /\ Live(w) /\ screen' = Draw(screen, w) /\ UNCHANGED <<scope, lux, win>>
    BY <1>8 DEF RedrawWindow
  <2>2. win[w].buffers # "unset"
    BY <2>1, SizesType DEF AllReady, Ready, Live
  <2>3. Genuine(Draw(screen, w))
    BY <1>0, <2>2, DrawGenuine
  <2> QED BY <1>0, <1>b, <1>c, <2>1, <2>3, PictureKept
<1>9. ASSUME NEW w \in Windows, EndWindow(w) PROVE PictureInv'
  <2> DEFINE rs == Removed(lux.windows, w)
  <2>1. /\ AllReady /\ w \in Range(scope) /\ Last(scope) = w /\ scope' = Front(scope)
        /\ lux' = [lux EXCEPT !.windows = rs, !.back = DrawAll(lux.back, rs)]
        /\ screen' = lux'.back /\ win' = [win EXCEPT ![w].buffers = "freed"]
    BY <1>9 DEF EndWindow, Live, Repainted
  <2>2. rs \in Seq(Windows) /\ Range(rs) \subseteq Range(lux.windows)
    BY <1>0, RemovedType
  <2> HIDE DEF rs
  <2>3. Genuine(DrawAll(lux.back, rs))
    BY <1>0, <2>1, <2>2, AttachedHaveBuffers, DrawnGenuine
  <2>4. lux'.windows = rs /\ lux'.back = DrawAll(lux.back, rs)
    BY <1>0, <2>1
  <2>5. Aged
    <3>1. \A v \in Windows : win[v] \in WindowSet /\ win[v].version \in Nat
      BY <1>0, <1>a
    <3>2. \A v \in Windows : v # w => win'[v] = win[v]
      BY <1>0, <2>1
    <3>3. win'[w] = [win[w] EXCEPT !.buffers = "freed"]
      BY <1>0, <2>1
    <3> QED BY <3>1, <3>2, <3>3 DEF Aged, WindowSet
  <2>6. Range(scope) \ {w} \subseteq Range(scope')
    <3>1. scope # << >> /\ Distinct(scope) /\ (scope # << >> => scope[1] = Server)
      BY <2>1 DEF Range, DsInv, Nested
    <3> QED BY <1>0, <2>1, <3>1, FrontKeeps
  <2>7. LiveOrEnded'
    <3>1. win'[w].buffers = "freed" /\ \A v \in Windows : v # w => win'[v] = win[v]
      BY <1>0, <2>1
    <3>2. Range(lux.windows) \subseteq Windows
      BY <1>0 DEF Range
    <3> QED BY <1>0, <2>2, <2>4, <2>6, <3>1, <3>2 DEF LiveOrEnded, Live
  <2> QED BY <2>1, <2>3, <2>4, <2>5, <2>7, PictureKept
<1>10. CASE UNCHANGED vars
  BY <1>0, <1>10, <1>b, <1>c, PictureKept DEF vars
<1> QED BY <1>1, <1>2, <1>3, <1>4, <1>5, <1>6, <1>7, <1>8, <1>9, <1>10 DEF Next

(* Each place of the screen and of the back buffer is blank, of GXDriver's *)
(* banner, or shows a window that covers just that place and has had its   *)
(* buffers, as it was painted at some time: lux::draw and redraw_window    *)
(* show nothing of a window before its buffers are there, for system_init  *)
(* goes on only when they are, however often a window is attached.         *)
THEOREM ScreenShowsWindows == Spec => [](Genuine(screen) /\ Genuine(lux.back))
<1>1. PictureInv => Genuine(screen) /\ Genuine(lux.back)
  BY DEF PictureInv
<1>2. Spec => []PictureInv
  BY PictureInit, PictureStep, AlwaysDsInv, PTL DEF Spec
<1> QED BY <1>1, <1>2, PTL
-----------------------------------------------------------------------------
(***************************************************************************)
(* The text display stays on its screen.                                   *)
(***************************************************************************)
Chars == {Glyph, " ", ">", "\n", "\r", "\t"}
CellSet == Chars \cup {BlankCell, Old}

VgaSet == [cells : [TextCells -> CellSet], pos : 0..(Rows * Columns), line : 1..Rows,
           cursor : TextCells, stray : {FALSE}]

(* In a carriage return, and before the first newline, a line less.        *)
VgaLess == [cells : [TextCells -> CellSet], pos : 0..(Rows * Columns), line : 0..Rows,
            cursor : TextCells, stray : {FALSE}]

ConsoleSet == [at : {"boot", "begun"}, active : BOOLEAN, final : BOOLEAN, command : {0}]

(* The console never holds a character that it could erase.                *)
ScreenInv == vga \in VgaSet /\ con \in ConsoleSet

LEMMA TextSizes == Columns \in Nat \ {0} /\ Rows \in Nat \ {0} /\ TabWidth \in Nat \ {0}
BY VgaAssumption

LEMMA RowStart ==
  ASSUME NEW l \in 0..Rows
  PROVE  /\ Columns * l \in 0..(Rows * Columns) /\ Columns * l = l * Columns
         /\ l < Rows => l * Columns + Columns <= Rows * Columns
<1>1. Columns \in Nat \ {0} /\ Rows \in Nat /\ l \in Nat
  BY TextSizes
<1>2. PICK d \in Nat : Rows = l + d
  <2>1. Rows - l \in Nat /\ Rows = l + (Rows - l)
    BY <1>1
  <2> QED BY <2>1
<1>3. Rows * Columns = l * Columns + d * Columns
  BY <1>1, <1>2
<1>4. l * Columns \in Nat /\ d * Columns \in Nat /\ Columns * l = l * Columns
  BY <1>1
<1>5. ASSUME l < Rows PROVE d * Columns >= Columns
  <2>1. PICK e \in Nat : d = e + 1
    <3>1. d - 1 \in Nat /\ d = (d - 1) + 1
      BY <1>1, <1>2, <1>5
    <3> QED BY <3>1
  <2>2. d * Columns = e * Columns + Columns /\ e * Columns \in Nat
    BY <1>1, <2>1
  <2> QED BY <1>1, <2>2
<1> QED BY <1>1, <1>3, <1>4, <1>5

LEMMA PutType ==
  ASSUME NEW v \in VgaSet, NEW c \in Chars
  PROVE  Put(v, c) \in VgaSet
<1>1. Columns \in Nat /\ Rows \in Nat /\ Columns * Rows = Rows * Columns /\ Rows * Columns \in Nat
  BY TextSizes
<1>2. CASE v.pos < Columns * Rows
  <2>1. v.pos \in TextCells /\ v.pos + 1 \in 0..(Rows * Columns)
    BY <1>1, <1>2 DEF VgaSet, TextCells
  <2>2. Put(v, c) = [[v EXCEPT !.cells[v.pos] = c] EXCEPT !.pos = v.pos + 1]
    BY <1>2, <2>1 DEF Put, Moved, Stored
  <2> QED BY <2>1, <2>2 DEF VgaSet, CellSet
<1>3. CASE ~(v.pos < Columns * Rows)
  BY <1>3 DEF Put
<1> QED BY <1>2, <1>3

LEMMA NewlineType ==
  ASSUME NEW v \in VgaLess
  PROVE  Newline(v) \in VgaSet
<1>1. Columns \in Nat /\ Rows \in Nat \ {0} /\ v.line \in Nat /\ v.line \in 0..Rows
  BY TextSizes DEF VgaLess
<1>2. CASE v.line < Rows
  <2>1. Columns * v.line \in 0..(Rows * Columns) /\ v.line + 1 \in 1..Rows
    BY <1>1, <1>2, RowStart
  <2>2. Newline(v) = [[v EXCEPT !.pos = Columns * v.line] EXCEPT !.line = v.line + 1]
    <3>1. Newline(v) = [[v EXCEPT !.pos = Columns * v.line] EXCEPT !.line = @ + 1]
      BY <1>2 DEF Newline, Moved
    <3>2. [v EXCEPT !.pos = Columns * v.line].line = v.line
      BY DEF VgaLess
    <3> QED BY <3>1, <3>2
  <2> QED BY <2>1, <2>2 DEF VgaSet, VgaLess
<1>3. CASE ~(v.line < Rows)
  <2>1. v.line = Rows /\ Columns * (Rows - 1) \in 0..(Rows * Columns) /\ Rows \in 1..Rows
    <3>1. v.line = Rows /\ Rows - 1 \in 0..Rows /\ Rows \in 1..Rows
      BY <1>1, <1>3
    <3> QED BY <3>1, RowStart
  <2>2. Newline(v) = [[v EXCEPT !.pos = Columns * (Rows - 1)] EXCEPT !.cells = Scrolled(v.cells)]
    BY <1>3 DEF Newline, Moved, VgaLess
  <2>3. Scrolled(v.cells) \in [TextCells -> CellSet]
    BY DEF Scrolled, VgaLess, CellSet
  <2> QED BY <2>1, <2>2, <2>3 DEF VgaSet, VgaLess
<1> QED BY <1>2, <1>3

(* Rows of c columns and a column of the last give back the column.        *)
LEMMA ColumnOf ==
  ASSUME NEW c \in Nat \ {0}, NEW x \in Nat
  PROVE  /\ x % c \in 0..(c - 1)
         /\ \A q \in Nat, r \in 0..(c - 1) : x = q * c + r => x % c = r
<1>1. ASSUME NEW q \in Nat, NEW r \in 0..(c - 1), x = q * c + r PROVE x % c = r
  BY <1>1
<1> QED BY <1>1

LEMMA CursorType ==
  ASSUME NEW v \in VgaSet
  PROVE  CursorUpdate(v) \in VgaSet
<1>1. Columns \in Nat \ {0} /\ Rows \in Nat \ {0} /\ v.pos \in Nat /\ v.line \in 1..Rows
  BY TextSizes DEF VgaSet
<1>2. v.pos % Columns \in 0..(Columns - 1)
  BY <1>1, ColumnOf
<1> DEFINE l == v.line - 1
<1>3. l \in 0..Rows /\ l < Rows
  BY <1>1
<1> HIDE DEF l
<1>4. l * Columns + Columns <= Rows * Columns /\ l * Columns \in Nat
  BY <1>1, <1>3, RowStart
<1>5. (l * Columns) + (v.pos % Columns) \in TextCells
  <2> DEFINE lc == l * Columns
             rc == Rows * Columns
             m == v.pos % Columns
  <2>1. lc \in Nat /\ lc + Columns <= rc /\ m \in 0..(Columns - 1) /\ rc \in Nat
    BY <1>1, <1>2, <1>4
  <2> HIDE DEF lc, rc, m
  <2>2. lc + m \in 0..(rc - 1)
    BY <1>1, <2>1
  <2> QED BY <2>2 DEF lc, rc, m, TextCells
<1> QED BY <1>5 DEF CursorUpdate, VgaSet, l

(* Several characters in a row, as a tab prints them.                      *)
LEMMA PutSteps ==
  ASSUME NEW base \in VgaSet, NEW s \in Seq(Chars)
  PROVE  \E r \in [0..Len(s) -> VgaSet] :
           /\ r[0] = base /\ r[Len(s)] = FoldLeft(Put, base, s)
           /\ \A k \in 1..Len(s) : r[k] = Put(r[k - 1], s[k])
<1> DEFINE n == Len(s)
           step == [p \in (1..n) \X VgaSet |-> Put(p[2], s[p[1]])]
           pick == [t \in SUBSET (1..n) |-> Max(t)]
           Body(g, t) == IF t = {} THEN base ELSE Put(g[t \ {Max(t)}], s[Max(t)])
           iter == CHOOSE g : g = [t \in SUBSET (DOMAIN s) |-> Body(g, t)]
           r == [k \in 0..n |-> iter[1..k]]
<1>1. n \in Nat /\ DOMAIN s = 1..n /\ \A k \in 1..n : s[k] \in Chars
  OBVIOUS
<1>2. step \in [(1..n) \X VgaSet -> VgaSet]
  BY <1>1, PutType
<1>3. PICK it \in [SUBSET (1..n) -> VgaSet] : IsFold(it, n, base, step, pick)
  <2>1. PicksGreatest(pick, n)
    BY <1>1, MaxOf DEF PicksGreatest
  <2>2. n \in Nat
    BY <1>1
  <2> HIDE DEF pick, step, n
  <2> QED BY <1>2, <2>1, <2>2, FoldExists
<1>4. it = [t \in SUBSET (DOMAIN s) |-> Body(it, t)]
  <2>1. ASSUME NEW t \in SUBSET (1..n), t # {}
        PROVE  step[<<pick[t], it[t \ {pick[t]}]>>] = Put(it[t \ {Max(t)}], s[Max(t)])
    <3>1. Max(t) \in 1..n
      BY <1>1, <2>1, MaxOf
    <3>2. it[t \ {Max(t)}] \in VgaSet
      OBVIOUS
    <3> QED BY <3>1, <3>2
  <2> HIDE DEF pick, step, n
  <2> QED BY <1>1, <1>3, <2>1 DEF IsFold
<1>5. iter = [t \in SUBSET (DOMAIN s) |-> Body(iter, t)]
  <2> HIDE DEF Body
  <2> QED BY <1>4
<1>6. FoldLeft(Put, base, s) = iter[1..n]
  BY <1>1 DEF FoldLeft, MapThenFoldSet
<1> HIDE DEF iter
<1>7. r[0] = base
  <2>1. 1..0 = {} /\ {} \in SUBSET DOMAIN s /\ 0 \in 0..n
    BY <1>1
  <2> QED BY <1>5, <2>1
<1>8. ASSUME NEW k \in 1..n PROVE r[k] = Put(r[k - 1], s[k])
  <2>0. k \in Nat /\ n \in Nat /\ 1 <= k /\ k <= n /\ DOMAIN s = 1..n
    BY <1>1
  <2>1. Max(1..k) = k
    <3>1. 1..k \in SUBSET (1..k) /\ k \in 1..k /\ \A j \in 1..k : j <= k
      BY <2>0
    <3> QED BY <2>0, <3>1, MaxIs
  <2>2. /\ (1..k) \ {k} = 1..(k - 1) /\ k \in 0..n /\ k - 1 \in 0..n
        /\ 1..k # {} /\ 1..k \in SUBSET DOMAIN s
    <3>1. (1..k) \ {k} = 1..(k - 1)
      BY <2>0
    <3>2. k \in 1..k /\ 1..k \subseteq 1..n
      BY <2>0
    <3> QED BY <2>0, <3>1, <3>2
  <2>3. iter[1..k] = Put(iter[1..(k - 1)], s[k])
    BY <1>5, <2>1, <2>2
  <2> QED BY <2>2, <2>3
<1>9. \A k \in 0..n : k \in {j \in 0..n : r[j] \in VgaSet}
  <2>1. ASSUME NEW k \in 0..(n - 1), k \in {j \in 0..n : r[j] \in VgaSet}
        PROVE  k + 1 \in {j \in 0..n : r[j] \in VgaSet}
    <3>1. k + 1 \in 1..n /\ k + 1 \in 0..n /\ (k + 1) - 1 = k
      BY <1>1
    <3>2. r[k + 1] = Put(r[k], s[k + 1])
      BY <1>8, <3>1
    <3> QED BY <1>1, <2>1, <3>1, <3>2, PutType
  <2>2. 0 \in 0..n /\ n \in Nat
    BY <1>1
  <2> HIDE DEF r, n
  <2> QED BY <1>7, <2>1, <2>2, Induction
<1>10. r \in [0..n -> VgaSet]
  BY <1>9
<1>11. n \in 0..n
  BY <1>1
<1> QED BY <1>6, <1>7, <1>8, <1>10, <1>11

LEMMA ConstantSeq ==
  ASSUME NEW n \in Nat, NEW S, NEW e \in S
  PROVE  [i \in 1..n |-> e] \in Seq(S) /\ Len([i \in 1..n |-> e]) = n
OBVIOUS

LEMMA TabIs == Tab \in Seq(Chars) /\ Len(Tab) = TabWidth /\ DOMAIN Tab = 1..TabWidth
               /\ \A k \in 1..TabWidth : Tab[k] = " "
<1>1. TabWidth \in Nat /\ " " \in Chars
  BY TextSizes DEF Chars
<1>2. Tab \in Seq(Chars) /\ Len(Tab) = TabWidth
  BY <1>1, ConstantSeq DEF Tab
<1>3. DOMAIN Tab = 1..TabWidth /\ \A k \in 1..TabWidth : Tab[k] = " "
  BY DEF Tab
<1> QED BY <1>2, <1>3

LEMMA TabType ==
  ASSUME NEW v \in VgaSet
  PROVE  FoldLeft(Put, v, Tab) \in VgaSet
<1>1. PICK r \in [0..Len(Tab) -> VgaSet] : r[Len(Tab)] = FoldLeft(Put, v, Tab)
  BY TabIs, PutSteps
<1>2. Len(Tab) \in 0..Len(Tab)
  <2>1. Len(Tab) \in Nat
    BY TabIs, TextSizes
  <2> QED BY <2>1
<1> QED BY <1>1, <1>2

LEMMA PrintCharType ==
  ASSUME NEW v \in VgaSet, NEW c \in Chars
  PROVE  PrintChar(v, c) \in VgaSet
<1>0. Rows \in Nat \ {0} /\ v.line \in 1..Rows
  BY TextSizes DEF VgaSet
<1>1. v.line \in 0..Rows /\ v.line - 1 \in 0..Rows
  BY <1>0
<1>2. Newline(v) \in VgaSet
  BY <1>1, NewlineType DEF VgaSet, VgaLess
<1>3. Return(v) \in VgaSet
  <2>1. Newline([v EXCEPT !.line = v.line - 1]) \in VgaSet
    <3>1. [v EXCEPT !.line = v.line - 1] \in VgaLess
      BY <1>1 DEF VgaSet, VgaLess
    <3> QED BY <3>1, NewlineType
  <2> QED BY <2>1 DEF Return
<1>4. CASE c = "\n"
  <2>1. PrintChar(v, c) = CursorUpdate(Newline(v))
    BY <1>4 DEF PrintChar, Escape
  <2> QED BY <1>2, <2>1, CursorType
<1>5. CASE c = "\r"
  <2>1. PrintChar(v, c) = CursorUpdate(Return(v))
    BY <1>5 DEF PrintChar, Escape
  <2> QED BY <1>3, <2>1, CursorType
<1>6. CASE c = "\t"
  <2>1. PrintChar(v, c) = CursorUpdate(FoldLeft(Put, v, Tab))
    BY <1>6 DEF PrintChar, Escape
  <2> QED BY <2>1, TabType, CursorType
<1>7. CASE c \in {Glyph, " ", ">"}
  <2>1. c # "\n" /\ c # "\r" /\ c # "\t" /\ c # Escape
    BY <1>7 DEF Glyph, Escape
  <2>2. PrintChar(v, c) = CursorUpdate(Put(v, c))
    BY <2>1 DEF PrintChar
  <2> QED BY <2>2, PutType, CursorType
<1> QED BY <1>4, <1>5, <1>6, <1>7 DEF Chars

(* print_str one character at a time.                                      *)
LEMMA PrintSteps ==
  ASSUME NEW base \in VgaSet, NEW s \in Seq(Chars)
  PROVE  \E r \in [0..Len(s) -> VgaSet] :
           /\ r[0] = base /\ r[Len(s)] = FoldLeft(PrintChar, base, s)
           /\ \A k \in 1..Len(s) : r[k] = PrintChar(r[k - 1], s[k])
<1> DEFINE n == Len(s)
           step == [p \in (1..n) \X VgaSet |-> PrintChar(p[2], s[p[1]])]
           pick == [t \in SUBSET (1..n) |-> Max(t)]
           Body(g, t) == IF t = {} THEN base ELSE PrintChar(g[t \ {Max(t)}], s[Max(t)])
           iter == CHOOSE g : g = [t \in SUBSET (DOMAIN s) |-> Body(g, t)]
           r == [k \in 0..n |-> iter[1..k]]
<1>1. n \in Nat /\ DOMAIN s = 1..n /\ \A k \in 1..n : s[k] \in Chars
  OBVIOUS
<1>2. step \in [(1..n) \X VgaSet -> VgaSet]
  BY <1>1, PrintCharType
<1>3. PICK it \in [SUBSET (1..n) -> VgaSet] : IsFold(it, n, base, step, pick)
  <2>1. PicksGreatest(pick, n)
    BY <1>1, MaxOf DEF PicksGreatest
  <2>2. n \in Nat
    BY <1>1
  <2> HIDE DEF pick, step, n
  <2> QED BY <1>2, <2>1, <2>2, FoldExists
<1>4. it = [t \in SUBSET (DOMAIN s) |-> Body(it, t)]
  <2>1. ASSUME NEW t \in SUBSET (1..n), t # {}
        PROVE  step[<<pick[t], it[t \ {pick[t]}]>>] = PrintChar(it[t \ {Max(t)}], s[Max(t)])
    <3>1. Max(t) \in 1..n
      BY <1>1, <2>1, MaxOf
    <3>2. it[t \ {Max(t)}] \in VgaSet
      OBVIOUS
    <3> QED BY <3>1, <3>2
  <2> HIDE DEF pick, step, n
  <2> QED BY <1>1, <1>3, <2>1 DEF IsFold
<1>5. iter = [t \in SUBSET (DOMAIN s) |-> Body(iter, t)]
  <2> HIDE DEF Body
  <2> QED BY <1>4
<1>6. FoldLeft(PrintChar, base, s) = iter[1..n]
  BY <1>1 DEF FoldLeft, MapThenFoldSet
<1> HIDE DEF iter
<1>7. r[0] = base
  <2>1. 1..0 = {} /\ {} \in SUBSET DOMAIN s /\ 0 \in 0..n
    BY <1>1
  <2> QED BY <1>5, <2>1
<1>8. ASSUME NEW k \in 1..n PROVE r[k] = PrintChar(r[k - 1], s[k])
  <2>0. k \in Nat /\ n \in Nat /\ 1 <= k /\ k <= n /\ DOMAIN s = 1..n
    BY <1>1
  <2>1. Max(1..k) = k
    <3>1. 1..k \in SUBSET (1..k) /\ k \in 1..k /\ \A j \in 1..k : j <= k
      BY <2>0
    <3> QED BY <2>0, <3>1, MaxIs
  <2>2. /\ (1..k) \ {k} = 1..(k - 1) /\ k \in 0..n /\ k - 1 \in 0..n
        /\ 1..k # {} /\ 1..k \in SUBSET DOMAIN s
    <3>1. (1..k) \ {k} = 1..(k - 1)
      BY <2>0
    <3>2. k \in 1..k /\ 1..k \subseteq 1..n
      BY <2>0
    <3> QED BY <2>0, <3>1, <3>2
  <2>3. iter[1..k] = PrintChar(iter[1..(k - 1)], s[k])
    BY <1>5, <2>1, <2>2
  <2> QED BY <2>2, <2>3
<1>9. \A k \in 0..n : k \in {j \in 0..n : r[j] \in VgaSet}
  <2>1. ASSUME NEW k \in 0..(n - 1), k \in {j \in 0..n : r[j] \in VgaSet}
        PROVE  k + 1 \in {j \in 0..n : r[j] \in VgaSet}
    <3>1. k + 1 \in 1..n /\ k + 1 \in 0..n /\ (k + 1) - 1 = k
      BY <1>1
    <3>2. r[k + 1] = PrintChar(r[k], s[k + 1])
      BY <1>8, <3>1
    <3> QED BY <1>1, <2>1, <3>1, <3>2, PrintCharType
  <2>2. 0 \in 0..n /\ n \in Nat
    BY <1>1
  <2> HIDE DEF r, n
  <2> QED BY <1>7, <2>1, <2>2, Induction
<1>10. r \in [0..n -> VgaSet]
  BY <1>9
<1>11. n \in 0..n
  BY <1>1
<1> QED BY <1>6, <1>7, <1>8, <1>10, <1>11

LEMMA PrintStrType ==
  ASSUME NEW v \in VgaSet, NEW s \in Seq(Chars)
  PROVE  PrintStr(v, s) \in VgaSet
<1>1. PICK r \in [0..Len(s) -> VgaSet] : r[Len(s)] = FoldLeft(PrintChar, v, s)
  BY PrintSteps
<1>2. Len(s) \in 0..Len(s)
  OBVIOUS
<1> QED BY <1>1, <1>2 DEF PrintStr

(* The screen is cleared but for its last row.                             *)
LEMMA ClearedIs ==
  ASSUME InitVga
  PROVE  \E v \in VgaLess :
           /\ vga = CursorUpdate(Newline(v)) /\ v.line = 0
           /\ \A i \in TextCells : v.cells[i] = IF i < Columns * (Rows - 1) THEN BlankCell ELSE Old
<1>1. Columns \in Nat \ {0} /\ Rows \in Nat \ {0} /\ 0 \in 0..Rows /\ 1 \in 1..Rows
  BY TextSizes
<1>2. 0 \in TextCells /\ 0 \in 0..(Rows * Columns)
  <2>1. 0 < Rows /\ 0 * Columns = 0 /\ 0 * Columns + Columns <= Rows * Columns
    BY <1>1, RowStart
  <2>2. Rows * Columns \in Nat
    BY <1>1
  <2>3. 0 <= Rows * Columns - 1
    BY <1>1, <2>1, <2>2
  <2> QED BY <2>2, <2>3 DEF TextCells
<1> DEFINE old == [cells |-> [i \in TextCells |-> Old], pos |-> 0, line |-> 0,
                   cursor |-> 0, stray |-> FALSE]
           cells == [i \in TextCells |-> IF i < Columns * (Rows - 1) THEN BlankCell ELSE old.cells[i]]
           v == [old EXCEPT !.cells = cells, !.pos = 0, !.line = 0]
<1>3. old \in VgaLess
  <2>1. [i \in TextCells |-> Old] \in [TextCells -> CellSet]
    BY DEF CellSet
  <2> QED BY <1>1, <1>2, <2>1 DEF VgaLess
<1>4. v \in VgaLess
  <2>1. cells \in [TextCells -> CellSet]
    <3> HIDE DEF old
    <3> QED BY <1>3 DEF CellSet, VgaLess
  <2> HIDE DEF cells, old
  <2> QED BY <1>1, <1>2, <1>3, <2>1 DEF VgaLess
<1>5. vga = PrintChar(v, "\n")
  <2>1. vga = ClearScreen(old)
    BY DEF InitVga
  <2> HIDE DEF old
  <2> QED BY <2>1 DEF ClearScreen
<1>6. PrintChar(v, "\n") = CursorUpdate(Newline(v))
  BY DEF PrintChar, Escape
<1>7. v.line = 0 /\ \A i \in TextCells : v.cells[i] = IF i < Columns * (Rows - 1) THEN BlankCell ELSE Old
  <2>1. v.line = 0 /\ v.cells = cells
    <3> HIDE DEF cells, old
    <3> QED BY <1>3 DEF VgaLess
  <2>2. \A i \in TextCells : cells[i] = IF i < Columns * (Rows - 1) THEN BlankCell ELSE Old
    OBVIOUS
  <2> QED BY <2>1, <2>2
<1> HIDE DEF v
<1> QED BY <1>4, <1>5, <1>6, <1>7

LEMMA ClearedType == InitVga => vga \in VgaSet
BY ClearedIs, NewlineType, CursorType

(* Each step of the console prints some characters and leaves its command  *)
(* empty.                                                                  *)
LEMMA ConsoleSteps ==
  ASSUME con \in ConsoleSet, [ConsoleNext]_consoleVars
  PROVE  /\ con' \in ConsoleSet
         /\ UNCHANGED <<vga, text>> \/ \E s \in Seq(Chars) : Show(s)
<1>0. con.command = 0 /\ con.active \in BOOLEAN /\ ~MayErase(con.command)
  BY DEF ConsoleSet, MayErase
<1>1. /\ Glyph \in Chars /\ " " \in Chars /\ ">" \in Chars
      /\ "\n" \in Chars /\ "\r" \in Chars /\ "\t" \in Chars
  BY DEF Chars
<1>10. \A c \in Chars : <<c>> \in Seq(Chars)
  OBVIOUS
<1>2. <<"\n">> \o PromptIf(con) \in Seq(Chars)
  <2>1. PromptIf(con) \in Seq(Chars)
    <3>1. \A c, d \in Chars : <<c, d>> \in Seq(Chars)
      OBVIOUS
    <3>2. <<">", " ">> \in Seq(Chars)
      BY <1>1, <3>1
    <3>3. << >> \in Seq(Chars)
      OBVIOUS
    <3> QED BY <3>2, <3>3 DEF PromptIf
  <2>2. <<"\n">> \in Seq(Chars)
    BY <1>1, <1>10
  <2> QED BY <2>1, <2>2
<1>3. ASSUME NEW c \in {Glyph, "\n", "\r", "\t"}, BootPrint(c)
      PROVE  con' = con /\ \E s \in Seq(Chars) : Show(s)
  <2>1. <<c>> \in Seq(Chars)
    BY <1>1, <1>10
  <2> QED BY <1>3, <2>1 DEF BootPrint
<1>4. CASE Begin
  <2>1. con' \in ConsoleSet
    BY <1>4 DEF Begin, ConsoleSet
  <2> QED BY <1>2, <1>4, <2>1 DEF Begin
<1>5. CASE HandleBackspace
  BY <1>0, <1>5 DEF HandleBackspace
<1>6. CASE HandleEnter
  <2>1. con' \in ConsoleSet
    BY <1>6 DEF HandleEnter, ConsoleSet
  <2> QED BY <1>2, <1>6, <2>1 DEF HandleEnter
<1>7. CASE HandleOther
  <2>1. PICK k \in Keys \ {Backspace, Enter} : \E c \in AsciiOf(k) :
          IF c = Nul THEN UNCHANGED <<vga, text, con>>
          ELSE Show(<<c>>) /\ con' = [con EXCEPT !.command = Appended(@)]
    BY <1>7 DEF HandleOther
  <2>2. PICK c \in AsciiOf(k) :
          IF c = Nul THEN UNCHANGED <<vga, text, con>>
          ELSE Show(<<c>>) /\ con' = [con EXCEPT !.command = Appended(@)]
    BY <2>1
  <2>3. c \in {"\n", " ", "\r", "\t", Glyph, Nul}
    BY DEF AsciiOf
  <2>4. CASE c = Nul
    BY <2>2, <2>4
  <2>5. CASE c # Nul
    <3>1. <<c>> \in Seq(Chars)
      BY <1>1, <1>10, <2>3, <2>5
    <3>2. con' \in ConsoleSet
      BY <2>2, <2>5 DEF ConsoleSet, Appended
    <3> QED BY <2>2, <2>5, <3>1, <3>2
  <2> QED BY <2>4, <2>5
<1>8. CASE KillTerm
  <2>1. <<"\n", "\n", Glyph, "\n", "\n">> \in Seq(Chars)
    <3>1. \A c, d \in Chars : <<c, c, d, c, c>> \in Seq(Chars)
      OBVIOUS
    <3> QED BY <1>1, <3>1
  <2>2. con' \in ConsoleSet
    BY <1>8 DEF KillTerm, ConsoleSet
  <2> QED BY <1>8, <2>1, <2>2 DEF KillTerm
<1>9. CASE UNCHANGED consoleVars
  BY <1>9 DEF consoleVars
<1> QED BY <1>3, <1>4, <1>5, <1>6, <1>7, <1>8, <1>9 DEF ConsoleNext, HandleKeyCode

LEMMA ScreenInvariance == ConsoleSpec => []ScreenInv
<1>1. ConsoleInit => ScreenInv
  BY ClearedType DEF ConsoleInit, ScreenInv, ConsoleSet
<1>2. ASSUME ScreenInv, [ConsoleNext]_consoleVars PROVE ScreenInv'
  <2>1. con' \in ConsoleSet /\ (vga' = vga \/ \E s \in Seq(Chars) : vga' = PrintStr(vga, s))
    BY <1>2, ConsoleSteps DEF ScreenInv, Show
  <2>2. vga' \in VgaSet
    BY <1>2, <2>1, PrintStrType DEF ScreenInv
  <2> QED BY <2>1, <2>2 DEF ScreenInv, VgaSet, ConsoleSet, TextCells, CellSet, Chars
<1> QED BY <1>1, <1>2, PTL DEF ConsoleSpec

(* What the kernel and the console print stays on the screen, whatever its *)
(* size: the index, the line count and the cursor.                         *)
THEOREM DisplayStaysOnScreen == ConsoleSpec => []StaysOnScreen
<1>1. ScreenInv => StaysOnScreen
  BY DEF ScreenInv, VgaSet, StaysOnScreen
<1> QED BY <1>1, ScreenInvariance, PTL

-----------------------------------------------------------------------------
(***************************************************************************)
(* And it shows the text.                                                  *)
(***************************************************************************)
Texts == Seq(Seq(Chars))
TextSet == [lines : Texts, col : Nat, wide : BOOLEAN]

Begun  == {t \in TextSet : t.lines # << >>}
Narrow == {t \in TextSet : t.wide \/ t.lines # << >>}

CellAt(v, r, c) == v.cells[r * Columns + c - 1]

(* The screen and the lines printed: where the next character goes, what   *)
(* is in a cell, and in how many rows something old is left.               *)
Agrees(v, t) ==
  /\ v.line = Len(t.lines) /\ \A r \in 1..Len(t.lines) : Len(t.lines[r]) <= Columns
  /\ t.col <= Len(t.lines[v.line])
  /\ v.pos = (v.line - 1) * Columns + t.col
  /\ \A r \in 0..(Rows - 1), c \in 1..Columns :
       IF r < v.line /\ c <= Len(t.lines[r + 1]) THEN CellAt(v, r, c) = t.lines[r + 1][c]
       ELSE CellAt(v, r, c) \in {BlankCell, Old}
  /\ \A r, q \in 0..(Rows - 1), c, d \in 1..Columns :
       CellAt(v, r, c) = Old /\ CellAt(v, q, d) = Old => r = q

AtCursor(v, t) == t.col < Columns => v.cursor = (Len(t.lines) - 1) * Columns + t.col

TextInv == text \in Narrow /\ (~text.wide => Agrees(vga, text) /\ AtCursor(vga, text))

LEMMA RowPlace ==
  ASSUME NEW r \in 0..(Rows - 1), NEW c \in 1..Columns
  PROVE  r * Columns + c - 1 \in TextCells
<1>1. Columns \in Nat \ {0} /\ Rows \in Nat \ {0} /\ r \in 0..Rows /\ r < Rows
  BY TextSizes
<1> DEFINE p == r * Columns
           e == Rows * Columns
<1>2. p \in Nat /\ e \in Nat /\ p + Columns <= e
  BY <1>1, RowStart
<1> HIDE DEF p, e
<1>3. p + c - 1 \in 0..(e - 1)
  BY <1>1, <1>2
<1> QED BY <1>3 DEF p, e, TextCells

LEMMA RowsApart ==
  ASSUME NEW k \in Nat, NEW i \in Nat, i < k
  PROVE  i * Columns + Columns <= k * Columns
<1>1. Columns \in Nat \ {0}
  BY TextSizes
<1>2. PICK e \in Nat : k = i + 1 + e
  <2>1. k - (i + 1) \in Nat /\ k = i + 1 + (k - (i + 1))
    OBVIOUS
  <2> QED BY <2>1
<1>3. k * Columns = i * Columns + Columns + e * Columns
  BY <1>1, <1>2
<1>4. e * Columns \in Nat /\ i * Columns \in Nat
  BY <1>1
<1> QED BY <1>1, <1>3, <1>4

LEMMA SamePlace ==
  ASSUME NEW r \in Nat, NEW q \in Nat, NEW c \in 1..Columns, NEW d \in 1..Columns,
         r * Columns + c - 1 = q * Columns + d - 1
  PROVE  r = q /\ c = d
<1>1. Columns \in Nat \ {0}
  BY TextSizes
<1> DEFINE rc == r * Columns
           qc == q * Columns
<1>3. rc \in Nat /\ qc \in Nat /\ (r < q => rc + Columns <= qc) /\ (q < r => qc + Columns <= rc)
  BY <1>1, RowsApart
<1>4. rc + c - 1 = qc + d - 1
  OBVIOUS
<1>5. r = q => rc = qc
  OBVIOUS
<1> HIDE DEF rc, qc
<1> QED BY <1>1, <1>3, <1>4, <1>5

LEMMA PutTextIs ==
  ASSUME NEW t \in Begun, NEW c \in Chars, NEW n, n = Len(t.lines), NEW l, l = t.lines[n]
  PROVE  /\ n \in Nat \ {0} /\ l \in Seq(Chars)
         /\ PutText(t, c) \in Begun
         /\ PutText(t, c).col = t.col + 1 /\ PutText(t, c).wide = (t.col >= Columns)
         /\ Len(PutText(t, c).lines) = n
         /\ \A k \in 1..(n - 1) : PutText(t, c).lines[k] = t.lines[k]
         /\ PutText(t, c).lines[n] = IF t.col < Len(l) THEN [l EXCEPT ![t.col + 1] = c]
                                     ELSE Append(l, c)
<1>1. t.lines \in Seq(Seq(Chars)) /\ t.lines # << >> /\ t.col \in Nat
  BY DEF Begun, TextSet, Texts
<1>2. n \in Nat \ {0} /\ n \in 1..Len(t.lines)
  BY <1>1, EmptySeq
<1>3. l \in Seq(Chars)
  BY <1>1, <1>2, ElementOfSeq
<1> DEFINE l2 == IF t.col < Len(l) THEN [l EXCEPT ![t.col + 1] = c] ELSE Append(l, c)
           f == Front(t.lines)
<1>4. l2 \in Seq(Chars)
  <2>1. CASE t.col < Len(l)
    <3>1. t.col + 1 \in 1..Len(l)
      BY <1>1, <1>3, <2>1
    <3>2. [l EXCEPT ![t.col + 1] = c] \in Seq(Chars)
      BY <1>3, <3>1, ExceptSeq
    <3> QED BY <2>1, <3>2
  <2>2. CASE ~(t.col < Len(l))
    BY <1>3, <2>2
  <2> QED BY <2>1, <2>2
<1>5. f \in Seq(Seq(Chars)) /\ Len(f) = n - 1 /\ \A k \in 1..(n - 1) : f[k] = t.lines[k]
  BY <1>1, FrontIs
<1>6. PutText(t, c) = [lines |-> Append(f, l2), col |-> t.col + 1, wide |-> t.col >= Columns]
  BY DEF PutText, Last
<1> HIDE DEF l2, f
<1>7. /\ Append(f, l2) \in Seq(Seq(Chars)) /\ Len(Append(f, l2)) = n
      /\ \A k \in 1..(n - 1) : Append(f, l2)[k] = f[k]
      /\ Append(f, l2)[n] = l2
  <2>1. /\ Append(f, l2) \in Seq(Seq(Chars)) /\ Len(Append(f, l2)) = Len(f) + 1
        /\ \A k \in 1..Len(f) : Append(f, l2)[k] = f[k]
        /\ Append(f, l2)[Len(f) + 1] = l2
    BY <1>4, <1>5
  <2>2. Len(f) + 1 = n
    BY <1>2, <1>5
  <2> QED BY <1>5, <2>1, <2>2
<1>8. Append(f, l2) # << >>
  BY <1>2, <1>7, EmptySeq
<1>9. PutText(t, c) \in Begun
  <2>1. t.col + 1 \in Nat /\ (t.col >= Columns) \in BOOLEAN /\ Append(f, l2) \in Texts
    BY <1>1, <1>7 DEF Texts
  <2> QED BY <1>6, <1>8, <2>1 DEF Begun, TextSet
<1> QED BY <1>2, <1>3, <1>5, <1>6, <1>7, <1>9 DEF l2

LEMMA PutTextType ==
  ASSUME NEW t \in Begun, NEW c \in Chars
  PROVE  PutText(t, c) \in Begun
BY PutTextIs

(* The characters of a tab, in the text.                                   *)
LEMMA PutTextSteps ==
  ASSUME NEW base \in Begun, NEW s \in Seq(Chars)
  PROVE  \E r \in [0..Len(s) -> Begun] :
           /\ r[0] = base /\ r[Len(s)] = FoldLeft(PutText, base, s)
           /\ \A k \in 1..Len(s) : r[k] = PutText(r[k - 1], s[k])
<1> DEFINE n == Len(s)
           step == [p \in (1..n) \X Begun |-> PutText(p[2], s[p[1]])]
           pick == [t \in SUBSET (1..n) |-> Max(t)]
           Body(g, t) == IF t = {} THEN base ELSE PutText(g[t \ {Max(t)}], s[Max(t)])
           iter == CHOOSE g : g = [t \in SUBSET (DOMAIN s) |-> Body(g, t)]
           r == [k \in 0..n |-> iter[1..k]]
<1>1. n \in Nat /\ DOMAIN s = 1..n /\ \A k \in 1..n : s[k] \in Chars
  OBVIOUS
<1>2. step \in [(1..n) \X Begun -> Begun]
  BY <1>1, PutTextType
<1>3. PICK it \in [SUBSET (1..n) -> Begun] : IsFold(it, n, base, step, pick)
  <2>1. PicksGreatest(pick, n)
    BY <1>1, MaxOf DEF PicksGreatest
  <2>2. n \in Nat
    BY <1>1
  <2> HIDE DEF pick, step, n
  <2> QED BY <1>2, <2>1, <2>2, FoldExists
<1>4. it = [t \in SUBSET (DOMAIN s) |-> Body(it, t)]
  <2>1. ASSUME NEW t \in SUBSET (1..n), t # {}
        PROVE  step[<<pick[t], it[t \ {pick[t]}]>>] = PutText(it[t \ {Max(t)}], s[Max(t)])
    <3>1. Max(t) \in 1..n
      BY <1>1, <2>1, MaxOf
    <3>2. it[t \ {Max(t)}] \in Begun
      OBVIOUS
    <3> QED BY <3>1, <3>2
  <2> HIDE DEF pick, step, n
  <2> QED BY <1>1, <1>3, <2>1 DEF IsFold
<1>5. iter = [t \in SUBSET (DOMAIN s) |-> Body(iter, t)]
  <2> HIDE DEF Body
  <2> QED BY <1>4
<1>6. FoldLeft(PutText, base, s) = iter[1..n]
  BY <1>1 DEF FoldLeft, MapThenFoldSet
<1> HIDE DEF iter
<1>7. r[0] = base
  <2>1. 1..0 = {} /\ {} \in SUBSET DOMAIN s /\ 0 \in 0..n
    BY <1>1
  <2> QED BY <1>5, <2>1
<1>8. ASSUME NEW k \in 1..n PROVE r[k] = PutText(r[k - 1], s[k])
  <2>0. k \in Nat /\ n \in Nat /\ 1 <= k /\ k <= n /\ DOMAIN s = 1..n
    BY <1>1
  <2>1. Max(1..k) = k
    <3>1. 1..k \in SUBSET (1..k) /\ k \in 1..k /\ \A j \in 1..k : j <= k
      BY <2>0
    <3> QED BY <2>0, <3>1, MaxIs
  <2>2. /\ (1..k) \ {k} = 1..(k - 1) /\ k \in 0..n /\ k - 1 \in 0..n
        /\ 1..k # {} /\ 1..k \in SUBSET DOMAIN s
    <3>1. (1..k) \ {k} = 1..(k - 1)
      BY <2>0
    <3>2. k \in 1..k /\ 1..k \subseteq 1..n
      BY <2>0
    <3> QED BY <2>0, <3>1, <3>2
  <2>3. iter[1..k] = PutText(iter[1..(k - 1)], s[k])
    BY <1>5, <2>1, <2>2
  <2> QED BY <2>2, <2>3
<1>9. \A k \in 0..n : k \in {j \in 0..n : r[j] \in Begun}
  <2>1. ASSUME NEW k \in 0..(n - 1), k \in {j \in 0..n : r[j] \in Begun}
        PROVE  k + 1 \in {j \in 0..n : r[j] \in Begun}
    <3>1. k + 1 \in 1..n /\ k + 1 \in 0..n /\ (k + 1) - 1 = k
      BY <1>1
    <3>2. r[k + 1] = PutText(r[k], s[k + 1])
      BY <1>8, <3>1
    <3> QED BY <1>1, <2>1, <3>1, <3>2, PutTextType
  <2>2. 0 \in 0..n /\ n \in Nat
    BY <1>1
  <2> HIDE DEF r, n
  <2> QED BY <1>7, <2>1, <2>2, Induction
<1>10. r \in [0..n -> Begun]
  BY <1>9
<1>11. n \in 0..n
  BY <1>1
<1> QED BY <1>6, <1>7, <1>8, <1>10, <1>11

LEMMA TabTextType ==
  ASSUME NEW t \in Begun
  PROVE  FoldLeft(PutText, t, Tab) \in Begun
<1>1. PICK r \in [0..Len(Tab) -> Begun] : r[Len(Tab)] = FoldLeft(PutText, t, Tab)
  BY TabIs, PutTextSteps
<1>2. Len(Tab) \in 0..Len(Tab)
  <2>1. Len(Tab) \in Nat
    BY TabIs, TextSizes
  <2> QED BY <2>1
<1> QED BY <1>1, <1>2

(* A new line, and the first leaves when there are too many.               *)
LEMMA NewLines ==
  ASSUME NEW ls \in Seq(Seq(Chars)), ls # << >>, NEW new, new = AtMost(Append(ls, << >>))
  PROVE  /\ new \in Seq(Seq(Chars)) /\ new # << >> /\ Len(ls) \in Nat \ {0}
         /\ Len(ls) < Rows => /\ Len(new) = Len(ls) + 1 /\ new[Len(ls) + 1] = << >>
                              /\ \A k \in 1..Len(ls) : new[k] = ls[k]
<1> DEFINE m == Len(ls)
           a == Append(ls, << >>)
<1>1. m \in Nat \ {0} /\ Rows \in Nat \ {0}
  BY EmptySeq, TextSizes
<1>2. /\ a \in Seq(Seq(Chars)) /\ Len(a) = m + 1 /\ a[m + 1] = << >>
      /\ \A k \in 1..m : a[k] = ls[k]
  OBVIOUS
<1> HIDE DEF m, a
<1>3. a # << >>
  BY <1>1, <1>2, EmptySeq
<1>4. CASE Len(a) > Rows
  <2>1. new = Tail(a)
    BY <1>4 DEF AtMost, a
  <2>2. new \in Seq(Seq(Chars)) /\ Len(new) = m /\ \A k \in 1..m : new[k] = a[k + 1]
    <3>1. /\ Tail(a) \in Seq(Seq(Chars)) /\ Len(Tail(a)) = Len(a) - 1
          /\ \A k \in 1..Len(Tail(a)) : Tail(a)[k] = a[k + 1]
      BY <1>2, <1>3, HeadTailProperties
    <3>2. Len(a) - 1 = m
      BY <1>1, <1>2
    <3> QED BY <2>1, <3>1, <3>2
  <2>3. new # << >>
    BY <1>1, <2>2, EmptySeq
  <2>5. ~(m < Rows)
    BY <1>1, <1>2, <1>4
  <2> QED BY <1>1, <2>2, <2>3, <2>5 DEF m
<1>5. CASE ~(Len(a) > Rows)
  <2>1. new = a
    BY <1>5 DEF AtMost, a
  <2>2. m < Rows
    BY <1>1, <1>2, <1>5
  <2> QED BY <1>1, <1>2, <1>3, <2>1, <2>2 DEF m
<1> QED BY <1>4, <1>5

LEMMA ScrolledLines ==
  ASSUME NEW ls \in Seq(Seq(Chars)), ls # << >>, Len(ls) = Rows,
         NEW new, new = AtMost(Append(ls, << >>))
  PROVE  Len(new) = Rows /\ new[Rows] = << >> /\ \A k \in 1..(Rows - 1) : new[k] = ls[k + 1]
<1> DEFINE m == Len(ls)
           a == Append(ls, << >>)
<1>1. m \in Nat \ {0} /\ Rows \in Nat \ {0} /\ m = Rows
  BY EmptySeq, TextSizes
<1>2. /\ a \in Seq(Seq(Chars)) /\ Len(a) = m + 1 /\ a[m + 1] = << >>
      /\ \A k \in 1..m : a[k] = ls[k]
  OBVIOUS
<1> HIDE DEF m, a
<1>3. a # << >> /\ Len(a) > Rows
  BY <1>1, <1>2, EmptySeq
<1>4. /\ Tail(a) \in Seq(Seq(Chars)) /\ Len(Tail(a)) = Len(a) - 1
      /\ \A k \in 1..Len(Tail(a)) : Tail(a)[k] = a[k + 1]
  BY <1>2, <1>3, HeadTailProperties
<1>5. new = Tail(a)
  BY <1>3 DEF AtMost, a
<1>6. Len(new) = m /\ \A k \in 1..m : new[k] = a[k + 1]
  <2>1. Len(a) - 1 = m
    <3>1. Len(a) = m + 1 /\ m \in Nat
      BY <1>1, <1>2
    <3> QED BY <3>1
  <2> QED BY <1>4, <1>5, <2>1
<1>7. m \in 1..m /\ \A k \in 1..(m - 1) : k \in 1..m /\ k + 1 \in 1..m
  BY <1>1
<1> QED BY <1>1, <1>2, <1>6, <1>7

LEMMA TextAfterType ==
  ASSUME NEW t \in Narrow, NEW c \in Chars
  PROVE  TextAfter(t, c) \in Narrow
<1>1. CASE t.wide
  BY <1>1 DEF TextAfter
<1>2. CASE ~t.wide
  <2>1. t \in Begun /\ Begun \subseteq Narrow
    BY <1>2 DEF Narrow, Begun
  <2>2. t \in TextSet /\ t.lines \in Seq(Seq(Chars)) /\ t.lines # << >>
    BY <2>1 DEF Begun, TextSet, Texts
  <2>3. CASE c = "\n"
    <3>1. TextAfter(t, c) = [t EXCEPT !.lines = AtMost(Append(@, << >>)), !.col = 0]
      BY <1>2, <2>3 DEF TextAfter, Escape
    <3>2. TextAfter(t, c) = [t EXCEPT !.lines = AtMost(Append(t.lines, << >>)), !.col = 0]
      BY <2>2, <3>1 DEF TextSet
    <3> DEFINE new == AtMost(Append(t.lines, << >>))
    <3>3. new \in Texts /\ new # << >>
      <4> HIDE DEF new
      <4>1. new = AtMost(Append(t.lines, << >>))
        BY DEF new
      <4> QED BY <2>2, <4>1, NewLines DEF Texts
    <3> HIDE DEF new
    <3>4. TextAfter(t, c) = [t EXCEPT !.lines = new, !.col = 0]
      BY <3>2 DEF new
    <3>5. TextAfter(t, c) \in TextSet /\ TextAfter(t, c).lines = new
      <4>1. t \in [lines : Texts, col : Nat, wide : BOOLEAN]
        BY <2>2 DEF TextSet
      <4>2. PICK u : u = TextAfter(t, c)
        OBVIOUS
      <4>3. u = [t EXCEPT !.lines = new, !.col = 0]
        BY <3>4, <4>2
      <4>4. u \in [lines : Texts, col : Nat, wide : BOOLEAN]
        BY <3>3, <4>1, <4>3
      <4>5. u.lines = new
        BY <4>1, <4>3
      <4> QED BY <4>2, <4>4, <4>5 DEF TextSet
    <3> QED BY <3>3, <3>5 DEF Narrow
  <2>4. CASE c = "\r"
    <3>1. TextAfter(t, c) = [t EXCEPT !.col = 0]
      BY <1>2, <2>4 DEF TextAfter, Escape
    <3>2. TextAfter(t, c) \in TextSet /\ TextAfter(t, c).lines = t.lines
      <4>1. t \in [lines : Texts, col : Nat, wide : BOOLEAN]
        BY <2>2 DEF TextSet
      <4>2. PICK u : u = TextAfter(t, c)
        OBVIOUS
      <4>3. u = [t EXCEPT !.col = 0]
        BY <3>1, <4>2
      <4>4. u \in [lines : Texts, col : Nat, wide : BOOLEAN]
        BY <4>1, <4>3
      <4>5. u.lines = t.lines
        BY <4>1, <4>3
      <4> QED BY <4>2, <4>4, <4>5 DEF TextSet
    <3> QED BY <2>2, <3>2 DEF Narrow
  <2>5. CASE c = "\t"
    <3>1. TextAfter(t, c) = FoldLeft(PutText, t, Tab)
      BY <1>2, <2>5 DEF TextAfter, Escape
    <3> QED BY <2>1, <3>1, TabTextType
  <2>6. CASE c \in {Glyph, " ", ">"}
    <3>1. c # "\n" /\ c # "\r" /\ c # "\t" /\ c # Escape
      BY <2>6 DEF Glyph, Escape
    <3>2. TextAfter(t, c) = PutText(t, c)
      BY <1>2, <3>1 DEF TextAfter
    <3> QED BY <2>1, <3>2, PutTextType
  <2> QED BY <2>3, <2>4, <2>5, <2>6 DEF Chars
<1> QED BY <1>1, <1>2

(* A string in the text one character at a time.                           *)
LEMMA TextSteps ==
  ASSUME NEW base \in Narrow, NEW s \in Seq(Chars)
  PROVE  \E r \in [0..Len(s) -> Narrow] :
           /\ r[0] = base /\ r[Len(s)] = FoldLeft(TextAfter, base, s)
           /\ \A k \in 1..Len(s) : r[k] = TextAfter(r[k - 1], s[k])
<1> DEFINE n == Len(s)
           step == [p \in (1..n) \X Narrow |-> TextAfter(p[2], s[p[1]])]
           pick == [t \in SUBSET (1..n) |-> Max(t)]
           Body(g, t) == IF t = {} THEN base ELSE TextAfter(g[t \ {Max(t)}], s[Max(t)])
           iter == CHOOSE g : g = [t \in SUBSET (DOMAIN s) |-> Body(g, t)]
           r == [k \in 0..n |-> iter[1..k]]
<1>1. n \in Nat /\ DOMAIN s = 1..n /\ \A k \in 1..n : s[k] \in Chars
  OBVIOUS
<1>2. step \in [(1..n) \X Narrow -> Narrow]
  BY <1>1, TextAfterType
<1>3. PICK it \in [SUBSET (1..n) -> Narrow] : IsFold(it, n, base, step, pick)
  <2>1. PicksGreatest(pick, n)
    BY <1>1, MaxOf DEF PicksGreatest
  <2>2. n \in Nat
    BY <1>1
  <2> HIDE DEF pick, step, n
  <2> QED BY <1>2, <2>1, <2>2, FoldExists
<1>4. it = [t \in SUBSET (DOMAIN s) |-> Body(it, t)]
  <2>1. ASSUME NEW t \in SUBSET (1..n), t # {}
        PROVE  step[<<pick[t], it[t \ {pick[t]}]>>] = TextAfter(it[t \ {Max(t)}], s[Max(t)])
    <3>1. Max(t) \in 1..n
      BY <1>1, <2>1, MaxOf
    <3>2. it[t \ {Max(t)}] \in Narrow
      OBVIOUS
    <3> QED BY <3>1, <3>2
  <2> HIDE DEF pick, step, n
  <2> QED BY <1>1, <1>3, <2>1 DEF IsFold
<1>5. iter = [t \in SUBSET (DOMAIN s) |-> Body(iter, t)]
  <2> HIDE DEF Body
  <2> QED BY <1>4
<1>6. FoldLeft(TextAfter, base, s) = iter[1..n]
  BY <1>1 DEF FoldLeft, MapThenFoldSet
<1> HIDE DEF iter
<1>7. r[0] = base
  <2>1. 1..0 = {} /\ {} \in SUBSET DOMAIN s /\ 0 \in 0..n
    BY <1>1
  <2> QED BY <1>5, <2>1
<1>8. ASSUME NEW k \in 1..n PROVE r[k] = TextAfter(r[k - 1], s[k])
  <2>0. k \in Nat /\ n \in Nat /\ 1 <= k /\ k <= n /\ DOMAIN s = 1..n
    BY <1>1
  <2>1. Max(1..k) = k
    <3>1. 1..k \in SUBSET (1..k) /\ k \in 1..k /\ \A j \in 1..k : j <= k
      BY <2>0
    <3> QED BY <2>0, <3>1, MaxIs
  <2>2. /\ (1..k) \ {k} = 1..(k - 1) /\ k \in 0..n /\ k - 1 \in 0..n
        /\ 1..k # {} /\ 1..k \in SUBSET DOMAIN s
    <3>1. (1..k) \ {k} = 1..(k - 1)
      BY <2>0
    <3>2. k \in 1..k /\ 1..k \subseteq 1..n
      BY <2>0
    <3> QED BY <2>0, <3>1, <3>2
  <2>3. iter[1..k] = TextAfter(iter[1..(k - 1)], s[k])
    BY <1>5, <2>1, <2>2
  <2> QED BY <2>2, <2>3
<1>9. \A k \in 0..n : k \in {j \in 0..n : r[j] \in Narrow}
  <2>1. ASSUME NEW k \in 0..(n - 1), k \in {j \in 0..n : r[j] \in Narrow}
        PROVE  k + 1 \in {j \in 0..n : r[j] \in Narrow}
    <3>1. k + 1 \in 1..n /\ k + 1 \in 0..n /\ (k + 1) - 1 = k
      BY <1>1
    <3>2. r[k + 1] = TextAfter(r[k], s[k + 1])
      BY <1>8, <3>1
    <3> QED BY <1>1, <2>1, <3>1, <3>2, TextAfterType
  <2>2. 0 \in 0..n /\ n \in Nat
    BY <1>1
  <2> HIDE DEF r, n
  <2> QED BY <1>7, <2>1, <2>2, Induction
<1>10. r \in [0..n -> Narrow]
  BY <1>9
<1>11. n \in 0..n
  BY <1>1
<1> QED BY <1>6, <1>7, <1>8, <1>10, <1>11

LEMMA PutIs ==
  ASSUME NEW v \in VgaSet, NEW c \in Chars, v.pos \in TextCells
  PROVE  /\ Put(v, c).line = v.line /\ Put(v, c).pos = v.pos + 1
         /\ \A a \in TextCells : Put(v, c).cells[a] = IF a = v.pos THEN c ELSE v.cells[a]
<1>1. v.pos < Columns * Rows
  <2>1. Columns * Rows = Rows * Columns /\ Rows * Columns \in Nat
    BY TextSizes
  <2> QED BY <2>1 DEF TextCells
<1>2. Put(v, c) = [[v EXCEPT !.cells[v.pos] = c] EXCEPT !.pos = v.pos + 1]
  BY <1>1 DEF Put, Moved, Stored
<1> QED BY <1>2 DEF VgaSet

(* The line of a text with a character put into it.                        *)
LEMMA LineWith ==
  ASSUME NEW l \in Seq(Chars), NEW k \in 1..(Len(l) + 1), NEW c \in Chars, NEW l2,
         l2 = IF k - 1 < Len(l) THEN [l EXCEPT ![k] = c] ELSE Append(l, c)
  PROVE  /\ Len(l2) \in Nat /\ k <= Len(l2) /\ l2[k] = c /\ (Len(l2) = Len(l) \/ Len(l2) = k)
         /\ \A d \in Nat \ {0, k} : /\ d <= Len(l2) <=> d <= Len(l)
                                    /\ d <= Len(l) => l2[d] = l[d]
<1>1. Len(l) \in Nat /\ k \in Nat \ {0} /\ k <= Len(l) + 1
  OBVIOUS
<1>2. CASE k - 1 < Len(l)
  <2>1. k \in 1..Len(l)
    BY <1>1, <1>2
  <2>2. Len(l2) = Len(l) /\ \A d \in 1..Len(l) : l2[d] = IF d = k THEN c ELSE l[d]
    BY <1>2, <2>1, ExceptSeq
  <2> QED BY <1>1, <2>1, <2>2
<1>3. CASE ~(k - 1 < Len(l))
  <2>1. k = Len(l) + 1 /\ l2 = Append(l, c)
    BY <1>1, <1>3
  <2>2. Len(l2) = Len(l) + 1 /\ l2[Len(l) + 1] = c /\ \A d \in 1..Len(l) : l2[d] = l[d]
    BY <2>1
  <2> QED BY <1>1, <2>1, <2>2
<1> QED BY <1>2, <1>3

LEMMA PutAgrees ==
  ASSUME NEW v \in VgaSet, NEW t \in Begun, NEW c \in Chars, Agrees(v, t), t.col < Columns
  PROVE  Agrees(Put(v, c), PutText(t, c))
<1> DEFINE n == v.line
           l == t.lines[n]
           k == t.col + 1
           v2 == Put(v, c)
           t2 == PutText(t, c)
           l2 == t2.lines[n]
<1>1. /\ Columns \in Nat \ {0} /\ Rows \in Nat \ {0} /\ n \in 1..Rows /\ n = Len(t.lines)
      /\ t.col \in Nat
  BY TextSizes DEF VgaSet, Begun, TextSet, Agrees
<1>2. /\ l \in Seq(Chars) /\ t2.col = k /\ Len(t2.lines) = n
      /\ \A i \in 1..(n - 1) : t2.lines[i] = t.lines[i]
      /\ l2 = IF t.col < Len(l) THEN [l EXCEPT ![t.col + 1] = c] ELSE Append(l, c)
  <2> HIDE DEF l, n
  <2>1. n = Len(t.lines) /\ l = t.lines[n]
    BY <1>1 DEF l
  <2> QED BY <2>1, PutTextIs
<1>3. t.col <= Len(l) /\ Len(l) <= Columns /\ v.pos = (n - 1) * Columns + t.col
  <2>1. n \in 1..Len(t.lines)
    BY <1>1
  <2> QED BY <2>1 DEF Agrees
<1> HIDE DEF l, l2, n, t2, v2
<1>4. k \in 1..Columns /\ k \in 1..(Len(l) + 1) /\ n - 1 \in 0..(Rows - 1) /\ k - 1 = t.col
  <2>1. Len(l) \in Nat
    BY <1>2
  <2> QED BY <1>1, <1>3, <2>1
<1>5. /\ Len(l2) \in Nat /\ k <= Len(l2) /\ l2[k] = c /\ (Len(l2) = Len(l) \/ Len(l2) = k)
      /\ \A d \in Nat \ {0, k} : /\ d <= Len(l2) <=> d <= Len(l)
                                 /\ d <= Len(l) => l2[d] = l[d]
  <2>1. l2 = IF k - 1 < Len(l) THEN [l EXCEPT ![k] = c] ELSE Append(l, c)
    BY <1>2, <1>4
  <2> HIDE DEF k
  <2> QED BY <1>2, <1>4, <2>1, LineWith
<1>6. v.pos = (n - 1) * Columns + k - 1
  <2>1. (n - 1) * Columns \in Nat
    BY <1>1
  <2> QED BY <1>1, <1>3, <2>1
<1> HIDE DEF k
<1>7. v.pos \in TextCells
  BY <1>4, <1>6, RowPlace
<1>8. /\ v2.line = n /\ v2.pos = v.pos + 1
      /\ \A a \in TextCells : v2.cells[a] = IF a = v.pos THEN c ELSE v.cells[a]
  BY <1>7, PutIs DEF v2, n
<1>9. ASSUME NEW r \in 0..(Rows - 1), NEW d \in 1..Columns
      PROVE  CellAt(v2, r, d) = IF r = n - 1 /\ d = k THEN c ELSE CellAt(v, r, d)
  <2>1. r * Columns + d - 1 \in TextCells
    BY RowPlace
  <2>2. r * Columns + d - 1 = v.pos => r = n - 1 /\ d = k
    <3>1. r \in Nat /\ n - 1 \in Nat
      BY <1>1
    <3> QED BY <1>4, <1>6, <3>1, SamePlace
  <2> QED BY <1>6, <1>8, <2>1, <2>2 DEF CellAt
<1>10. \A r \in 1..n : Len(t2.lines[r]) <= Columns
  <2>1. Len(l2) <= Columns
    BY <1>3, <1>4, <1>5
  <2>2. ASSUME NEW r \in 1..(n - 1) PROVE Len(t2.lines[r]) <= Columns
    <3>1. r \in 1..Len(t.lines)
      BY <1>1
    <3> QED BY <1>2, <3>1 DEF Agrees
  <2>3. \A r \in 1..n : r = n \/ r \in 1..(n - 1)
    BY <1>1
  <2> QED BY <2>1, <2>2, <2>3 DEF l2
<1>11. v2.pos = (n - 1) * Columns + k
  <2>1. (n - 1) * Columns \in Nat /\ k \in Nat
    BY <1>1, <1>4
  <2> QED BY <1>6, <1>8, <2>1
<1>12. ASSUME NEW r \in 0..(Rows - 1), NEW d \in 1..Columns
       PROVE  IF r < n /\ d <= Len(t2.lines[r + 1]) THEN CellAt(v2, r, d) = t2.lines[r + 1][d]
              ELSE CellAt(v2, r, d) \in {BlankCell, Old}
  <2>1. IF r < n /\ d <= Len(t.lines[r + 1]) THEN CellAt(v, r, d) = t.lines[r + 1][d]
        ELSE CellAt(v, r, d) \in {BlankCell, Old}
    BY DEF Agrees, n
  <2>2. CASE r = n - 1
    <3>1. r + 1 = n /\ r < n /\ d \in Nat \ {0}
      BY <1>1, <2>2
    <3>2. CASE d = k
      BY <1>5, <1>9, <2>2, <3>1, <3>2 DEF l2
    <3>3. CASE d # k
      <4>1. CellAt(v2, r, d) = CellAt(v, r, d)
        BY <1>9, <3>3
      <4>2. (d <= Len(l2) <=> d <= Len(l)) /\ (d <= Len(l) => l2[d] = l[d])
        BY <1>5, <3>1, <3>3
      <4> QED BY <2>1, <3>1, <4>1, <4>2 DEF l, l2
    <3> QED BY <3>2, <3>3
  <2>3. CASE r # n - 1
    <3>1. CellAt(v2, r, d) = CellAt(v, r, d)
      BY <1>9, <2>3
    <3>2. r < n => r + 1 \in 1..(n - 1)
      BY <1>1, <2>3
    <3> QED BY <1>2, <2>1, <3>1, <3>2
  <2> QED BY <2>2, <2>3
<1>13. ASSUME NEW r \in 0..(Rows - 1), NEW q \in 0..(Rows - 1), NEW d \in 1..Columns,
              NEW e \in 1..Columns, CellAt(v2, r, d) = Old, CellAt(v2, q, e) = Old
       PROVE  r = q
  <2>1. c # Old
    BY DEF Chars, Old, Glyph
  <2>2. CellAt(v, r, d) = Old /\ CellAt(v, q, e) = Old
    BY <1>9, <1>13, <2>1
  <2> QED BY <2>2 DEF Agrees
<1>14. t2.col <= Len(t2.lines[n])
  BY <1>2, <1>5 DEF l2, k
<1> HIDE DEF k
<1>15. t2.col = k
  BY <1>2 DEF k
<1> QED BY <1>2, <1>8, <1>10, <1>11, <1>12, <1>13, <1>14, <1>15 DEF Agrees, v2, t2
LEMMA NewlineIs ==
  ASSUME NEW v \in VgaLess
  PROVE  /\ v.line < Rows => /\ Newline(v).line = v.line + 1 /\ Newline(v).cells = v.cells
                             /\ Newline(v).pos = v.line * Columns
         /\ v.line = Rows => /\ Newline(v).line = Rows /\ Newline(v).cells = Scrolled(v.cells)
                             /\ Newline(v).pos = (Rows - 1) * Columns
<1>1. /\ Columns \in Nat /\ Rows \in Nat \ {0} /\ v.line \in Nat
      /\ Columns * v.line = v.line * Columns /\ Columns * (Rows - 1) = (Rows - 1) * Columns
  BY TextSizes DEF VgaLess
<1>2. CASE v.line < Rows
  <2>1. Newline(v) = [[v EXCEPT !.pos = Columns * v.line] EXCEPT !.line = @ + 1]
    BY <1>2 DEF Newline, Moved
  <2>2. /\ Newline(v).line = v.line + 1 /\ Newline(v).cells = v.cells
        /\ Newline(v).pos = Columns * v.line
    BY <2>1 DEF VgaLess
  <2>3. v.line # Rows
    BY <1>1, <1>2
  <2> QED BY <1>1, <2>2, <2>3
<1>3. CASE ~(v.line < Rows)
  <2>1. Newline(v) = [[v EXCEPT !.pos = Columns * (Rows - 1)] EXCEPT !.cells = Scrolled(v.cells)]
    BY <1>3 DEF Newline, Moved, VgaLess
  <2>2. /\ Newline(v).line = v.line /\ Newline(v).cells = Scrolled(v.cells)
        /\ Newline(v).pos = Columns * (Rows - 1)
    BY <2>1 DEF VgaLess
  <2> QED BY <1>1, <1>3, <2>2
<1> QED BY <1>2, <1>3

LEMMA NewlineAgrees ==
  ASSUME NEW v \in VgaSet, NEW t \in Begun, Agrees(v, t), NEW t2, t2.col = 0,
         t2.lines = AtMost(Append(t.lines, << >>))
  PROVE  Agrees(Newline(v), t2)
<1> DEFINE n == v.line
           v2 == Newline(v)
           new == t2.lines
<1>1. /\ Columns \in Nat \ {0} /\ Rows \in Nat \ {0} /\ n \in 1..Rows /\ n = Len(t.lines)
      /\ t.lines \in Seq(Seq(Chars)) /\ t.lines # << >> /\ v \in VgaLess
  <2>1. v \in VgaLess /\ n \in 1..Rows
    <3>1. n \in 1..Rows /\ 1..Rows \subseteq 0..Rows
      BY TextSizes DEF VgaSet
    <3> QED BY <3>1 DEF VgaSet, VgaLess
  <2>2. t.lines \in Seq(Seq(Chars)) /\ t.lines # << >> /\ n = Len(t.lines)
    BY DEF Begun, TextSet, Texts, Agrees
  <2> QED BY <2>1, <2>2, TextSizes
<1>2. \A r \in 0..(Rows - 1), d \in 1..Columns :
        IF r < n /\ d <= Len(t.lines[r + 1]) THEN CellAt(v, r, d) = t.lines[r + 1][d]
        ELSE CellAt(v, r, d) \in {BlankCell, Old}
  BY DEF Agrees
<1>3. \A r \in 1..n : Len(t.lines[r]) <= Columns
  BY <1>1 DEF Agrees
<1>4. Len(<< >>) = 0
  OBVIOUS
<1>5. CASE n < Rows
  <2>1. /\ v2.line = n + 1 /\ v2.cells = v.cells /\ v2.pos = n * Columns
        /\ Len(new) = n + 1 /\ new[n + 1] = << >> /\ \A k \in 1..n : new[k] = t.lines[k]
    <3>1. v2.line = n + 1 /\ v2.cells = v.cells /\ v2.pos = n * Columns
      BY <1>1, <1>5, NewlineIs
    <3>2. Len(new) = n + 1 /\ new[n + 1] = << >> /\ \A k \in 1..n : new[k] = t.lines[k]
      <4> HIDE DEF new, n
      <4>1. new = AtMost(Append(t.lines, << >>))
        BY DEF new
      <4>2. t.lines \in Seq(Seq(Chars)) /\ t.lines # << >> /\ Len(t.lines) < Rows
        BY <1>1, <1>5
      <4> DEFINE ls == t.lines
      <4> HIDE DEF ls
      <4>3. /\ ls \in Seq(Seq(Chars)) /\ ls # << >> /\ Len(ls) < Rows
            /\ new = AtMost(Append(ls, << >>))
        BY <4>1, <4>2 DEF ls
      <4>4. /\ Len(new) = Len(ls) + 1 /\ new[Len(ls) + 1] = << >>
            /\ \A k \in 1..Len(ls) : new[k] = ls[k]
        BY ONLY <4>3, NewLines
      <4> QED BY <1>1, <4>4 DEF ls
    <3> QED BY <3>1, <3>2
  <2> HIDE DEF n, v2, new
  <2>2. \A r \in 1..(n + 1) : Len(new[r]) <= Columns
    <3>1. \A r \in 1..(n + 1) : r \in 1..n \/ r = n + 1
      BY <1>1
    <3> QED BY <1>1, <1>3, <1>4, <2>1, <3>1
  <2>3. v2.pos = (v2.line - 1) * Columns + 0
    <3>1. (n + 1) - 1 = n /\ n * Columns + 0 = n * Columns
      BY <1>1
    <3> QED BY <2>1, <3>1
  <2>4. ASSUME NEW r \in 0..(Rows - 1), NEW d \in 1..Columns
        PROVE  IF r < n + 1 /\ d <= Len(new[r + 1]) THEN CellAt(v2, r, d) = new[r + 1][d]
               ELSE CellAt(v2, r, d) \in {BlankCell, Old}
    <3>1. CellAt(v2, r, d) = CellAt(v, r, d)
      BY <2>1 DEF CellAt
    <3>2. CASE r < n
      <4>1. r + 1 \in 1..n /\ r < n + 1
        BY <1>1, <3>2
      <4> QED BY <1>2, <2>1, <3>1, <3>2, <4>1
    <3>3. CASE ~(r < n)
      <4>1. r < n + 1 => r = n
        BY <1>1, <3>3
      <4>2. ~(d <= 0)
        OBVIOUS
      <4> QED BY <1>2, <1>4, <2>1, <3>1, <3>3, <4>1, <4>2
    <3> QED BY <3>2, <3>3
  <2>5. \A r, q \in 0..(Rows - 1), c, d \in 1..Columns :
          CellAt(v2, r, c) = Old /\ CellAt(v2, q, d) = Old => r = q
    BY <2>1 DEF Agrees, CellAt
  <2>6. t2.col <= Len(new[v2.line])
    BY <1>4, <2>1
  <2> QED BY <2>1, <2>2, <2>3, <2>4, <2>5, <2>6 DEF Agrees, v2, new
<1>6. CASE n = Rows
  <2>1. /\ v2.line = Rows /\ v2.cells = Scrolled(v.cells) /\ v2.pos = (Rows - 1) * Columns
        /\ Len(new) = Rows /\ new[Rows] = << >> /\ \A k \in 1..(Rows - 1) : new[k] = t.lines[k + 1]
    <3>1. v2.line = Rows /\ v2.cells = Scrolled(v.cells) /\ v2.pos = (Rows - 1) * Columns
      BY <1>1, <1>6, NewlineIs
    <3>2. Len(new) = Rows /\ new[Rows] = << >> /\ \A k \in 1..(Rows - 1) : new[k] = t.lines[k + 1]
      <4> HIDE DEF new, n
      <4>1. new = AtMost(Append(t.lines, << >>))
        BY DEF new
      <4>2. t.lines \in Seq(Seq(Chars)) /\ t.lines # << >> /\ Len(t.lines) = Rows
        BY <1>1, <1>6
      <4>3. /\ Len(new) = Rows /\ new[Rows] = << >>
            /\ \A k \in 1..(Rows - 1) : new[k] = t.lines[k + 1]
        BY <4>1, <4>2, ScrolledLines
      <4> QED BY <4>3
    <3> QED BY <3>1, <3>2
  <2> HIDE DEF n, v2, new
  <2>2. \A r \in 1..Rows : Len(new[r]) <= Columns
    <3>1. ASSUME NEW r \in 1..(Rows - 1) PROVE Len(new[r]) <= Columns
      <4>1. r + 1 \in 1..n
        BY <1>1, <1>6
      <4>2. new[r] = t.lines[r + 1]
        BY <2>1
      <4> QED BY <1>3, <4>1, <4>2
    <3>2. Len(new[Rows]) <= Columns
      BY <1>1, <1>4, <2>1
    <3>3. \A r \in 1..Rows : r \in 1..(Rows - 1) \/ r = Rows
      BY <1>1
    <3> QED BY <3>1, <3>2, <3>3
  <2>3. v2.pos = (v2.line - 1) * Columns + 0
    <3>1. (Rows - 1) * Columns + 0 = (Rows - 1) * Columns
      BY <1>1
    <3> QED BY <2>1, <3>1
  <2>4. ASSUME NEW r \in 0..(Rows - 1), NEW d \in 1..Columns
        PROVE  CellAt(v2, r, d) = IF r < Rows - 1 THEN CellAt(v, r + 1, d) ELSE BlankCell
    <3> DEFINE p == r * Columns + d - 1
    <3>1. r \in Nat /\ d \in Nat /\ r * Columns \in Nat /\ (r + 1) * Columns = r * Columns + Columns
      BY <1>1
    <3>2. p \in TextCells /\ p + Columns = (r + 1) * Columns + d - 1
      <4>1. p + Columns = (r + 1) * Columns + d - 1
        BY <1>1, <3>1
      <4> QED BY <4>1, RowPlace
    <3>3. p + Columns \in TextCells <=> r < Rows - 1
      <4>1. ASSUME r < Rows - 1 PROVE p + Columns \in TextCells
        <5>1. r + 1 \in 0..(Rows - 1)
          BY <1>1, <4>1
        <5> QED BY <3>2, <5>1, RowPlace
      <4>2. ASSUME ~(r < Rows - 1) PROVE p + Columns \notin TextCells
        <5>1. r + 1 = Rows
          BY <1>1, <4>2
        <5> DEFINE e == Rows * Columns
        <5>2. p + Columns = e + d - 1 /\ e \in Nat
          BY <1>1, <3>2, <5>1
        <5> HIDE DEF p, e
        <5>3. p + Columns \notin 0..(e - 1)
          BY <5>2
        <5> QED BY <5>3 DEF TextCells, e
      <4> QED BY <4>1, <4>2
    <3>4. v2.cells[p] = IF p + Columns \in TextCells THEN v.cells[p + Columns] ELSE BlankCell
      <4> HIDE DEF p
      <4> QED BY <2>1, <3>2 DEF Scrolled
    <3> QED BY <3>2, <3>3, <3>4 DEF CellAt
  <2>5. ASSUME NEW r \in 0..(Rows - 1), NEW d \in 1..Columns
        PROVE  IF r < Rows /\ d <= Len(new[r + 1]) THEN CellAt(v2, r, d) = new[r + 1][d]
               ELSE CellAt(v2, r, d) \in {BlankCell, Old}
    <3>1. CASE r < Rows - 1
      <4>1. /\ r + 1 \in 0..(Rows - 1) /\ r + 1 \in 1..(Rows - 1) /\ r + 1 < n /\ r < Rows
        BY <1>1, <1>6, <3>1
      <4>2. CellAt(v2, r, d) = CellAt(v, r + 1, d) /\ new[r + 1] = t.lines[(r + 1) + 1]
        BY <2>1, <2>4, <3>1, <4>1
      <4> QED BY <1>2, <4>1, <4>2
    <3>2. CASE ~(r < Rows - 1)
      <4>1. r + 1 = Rows /\ ~(d <= 0)
        BY <1>1, <3>2
      <4>2. CellAt(v2, r, d) = BlankCell /\ Len(new[r + 1]) = 0
        BY <1>4, <2>1, <2>4, <3>2, <4>1
      <4> QED BY <4>1, <4>2
    <3> QED BY <3>1, <3>2
  <2>6. ASSUME NEW r \in 0..(Rows - 1), NEW q \in 0..(Rows - 1), NEW c \in 1..Columns,
               NEW d \in 1..Columns, CellAt(v2, r, c) = Old, CellAt(v2, q, d) = Old
        PROVE  r = q
    <3>1. BlankCell # Old
      BY DEF BlankCell, Old
    <3>2. /\ r < Rows - 1 /\ CellAt(v, r + 1, c) = Old
          /\ q < Rows - 1 /\ CellAt(v, q + 1, d) = Old
      BY <2>4, <2>6, <3>1
    <3>3. r + 1 \in 0..(Rows - 1) /\ q + 1 \in 0..(Rows - 1)
      BY <1>1, <3>2
    <3>4. r + 1 = q + 1
      BY <3>2, <3>3 DEF Agrees
    <3> QED BY <3>4
  <2>7. t2.col <= Len(new[v2.line])
    BY <1>4, <2>1
  <2> QED BY <2>1, <2>2, <2>3, <2>5, <2>6, <2>7 DEF Agrees, v2, new
<1> QED BY <1>1, <1>5, <1>6

LEMMA ReturnAgrees ==
  ASSUME NEW v \in VgaSet, NEW t \in Begun, Agrees(v, t), NEW t2, t2.col = 0, t2.lines = t.lines
  PROVE  Agrees(Return(v), t2)
<1> DEFINE n == v.line
           u == [v EXCEPT !.line = n - 1]
           v2 == Return(v)
<1>1. /\ Columns \in Nat \ {0} /\ Rows \in Nat \ {0} /\ n \in 1..Rows
      /\ n = Len(t.lines) /\ t.lines \in Seq(Seq(Chars))
  BY TextSizes DEF VgaSet, Begun, TextSet, Texts, Agrees
<1>2. u \in VgaLess /\ u.line = n - 1 /\ u.cells = v.cells /\ n - 1 < Rows /\ n - 1 + 1 = n
  <2>1. n - 1 \in 0..Rows /\ n - 1 < Rows /\ n - 1 + 1 = n
    BY <1>1
  <2>2. u \in VgaLess
    BY <2>1 DEF VgaSet, VgaLess
  <2>3. u.line = n - 1 /\ u.cells = v.cells
    BY DEF VgaSet
  <2> QED BY <2>1, <2>2, <2>3
<1>3. v2 = Newline(u)
  BY DEF Return
<1> HIDE DEF u, v2, n
<1>4. v2.line = n /\ v2.cells = v.cells /\ v2.pos = (n - 1) * Columns
  BY <1>2, <1>3, NewlineIs
<1>5. v2.pos = (n - 1) * Columns + 0 /\ 0 <= Len(t.lines[n])
  <2>1. n - 1 \in Nat /\ (n - 1) * Columns \in Nat
    <3>1. n - 1 \in Nat /\ Columns \in Nat
      BY <1>1
    <3>2. \A a, b \in Nat : a * b \in Nat
      OBVIOUS
    <3> QED BY <3>1, <3>2
  <2>2. t.lines[n] \in Seq(Chars)
    BY <1>1, ElementOfSeq
  <2>3. Len(t.lines[n]) \in Nat
    BY <2>2
  <2> QED BY <1>4, <2>1, <2>3
<1> QED BY <1>4, <1>5 DEF Agrees, CellAt, v2, n

LEMMA CursorAgrees ==
  ASSUME NEW v \in VgaSet, NEW t \in Begun, Agrees(v, t)
  PROVE  Agrees(CursorUpdate(v), t) /\ AtCursor(CursorUpdate(v), t)
<1> DEFINE v2 == CursorUpdate(v)
           at == ((v.line - 1) * Columns) + (v.pos % Columns)
<1>1. v2 = [v EXCEPT !.cursor = at]
  BY DEF CursorUpdate
<1> HIDE DEF v2, at
<1>2. v2.line = v.line /\ v2.pos = v.pos /\ v2.cells = v.cells /\ v2.cursor = at
  BY <1>1 DEF VgaSet
<1>3. Agrees(v2, t)
  BY <1>2 DEF Agrees, CellAt
<1>4. ASSUME t.col < Columns PROVE v2.cursor = (Len(t.lines) - 1) * Columns + t.col
  <2>1. /\ Columns \in Nat \ {0} /\ v.line - 1 \in Nat /\ v.pos \in Nat /\ t.col \in 0..(Columns - 1)
        /\ v.pos = (v.line - 1) * Columns + t.col /\ v.line = Len(t.lines)
    <3>1. v.line \in 1..Rows /\ Rows \in Nat /\ Columns \in Nat \ {0} /\ v.pos \in Nat /\ t.col \in Nat
      BY TextSizes DEF VgaSet, Begun, TextSet
    <3>2. v.pos = (v.line - 1) * Columns + t.col /\ v.line = Len(t.lines)
      BY DEF Agrees
    <3> QED BY <1>4, <3>1, <3>2
  <2>2. v.pos % Columns = t.col
    BY <2>1, ColumnOf
  <2> QED BY <1>2, <2>1, <2>2 DEF at
<1> QED BY <1>3, <1>4 DEF AtCursor, v2
(* Put on the screen and in the text, until the line is too wide.          *)
Tied(v, t) == IF t.col > Columns THEN t.wide ELSE ~t.wide /\ Agrees(v, t)

LEMMA PutTied ==
  ASSUME NEW v \in VgaSet, NEW t \in Begun, NEW c \in Chars, Tied(v, t)
  PROVE  Tied(Put(v, c), PutText(t, c))
<1>1. t.col \in Nat /\ Columns \in Nat
  BY TextSizes DEF Begun, TextSet
<1>2. PutText(t, c).col = t.col + 1 /\ PutText(t, c).wide = (t.col >= Columns)
  BY PutTextIs
<1>3. CASE t.col >= Columns
  <2>1. t.col + 1 > Columns
    BY <1>1, <1>3
  <2> QED BY <1>2, <1>3, <2>1 DEF Tied
<1>4. CASE ~(t.col >= Columns)
  <2>1. t.col < Columns /\ ~(t.col > Columns) /\ ~(t.col + 1 > Columns)
    BY <1>1, <1>4
  <2>2. Agrees(Put(v, c), PutText(t, c))
    BY <2>1, PutAgrees DEF Tied
  <2> QED BY <1>2, <1>4, <2>1, <2>2 DEF Tied
<1> QED BY <1>3, <1>4

LEMMA TabAgrees ==
  ASSUME NEW v \in VgaSet, NEW t \in Begun, ~t.wide, Agrees(v, t)
  PROVE  Tied(FoldLeft(Put, v, Tab), FoldLeft(PutText, t, Tab))
<1> DEFINE n == Len(Tab)
<1>1. Tab \in Seq(Chars) /\ n \in Nat /\ \A k \in 1..n : Tab[k] \in Chars
  <2>1. Tab \in Seq(Chars) /\ Len(Tab) \in Nat
    BY TabIs, TextSizes
  <2> QED BY <2>1, ElementOfSeq
<1>2. PICK a \in [0..n -> VgaSet] :
        /\ a[0] = v /\ a[n] = FoldLeft(Put, v, Tab)
        /\ \A k \in 1..n : a[k] = Put(a[k - 1], Tab[k])
  BY <1>1, PutSteps
<1>3. PICK b \in [0..n -> Begun] :
        /\ b[0] = t /\ b[n] = FoldLeft(PutText, t, Tab)
        /\ \A k \in 1..n : b[k] = PutText(b[k - 1], Tab[k])
  BY <1>1, PutTextSteps
<1> DEFINE D == {k \in 0..n : Tied(a[k], b[k])}
<1> HIDE DEF n
<1>4. 0 \in D
  <2>1. t.lines \in Seq(Seq(Chars)) /\ t.col \in Nat /\ Columns \in Nat /\ t.lines # << >>
    BY TextSizes DEF Begun, TextSet, Texts
  <2> DEFINE m == Len(t.lines)
  <2>2. m \in 1..m /\ v.line = m
    <3>1. m \in Nat \ {0}
      BY <2>1, EmptySeq
    <3>2. v.line = m
      BY DEF Agrees
    <3> QED BY <3>1, <3>2
  <2>3. Len(t.lines[m]) <= Columns /\ t.col <= Len(t.lines[m])
    BY <2>2 DEF Agrees
  <2>4. Len(t.lines[m]) \in Nat
    <3>1. t.lines[m] \in Seq(Chars)
      BY <2>1, <2>2, ElementOfSeq
    <3> QED BY <3>1
  <2>5. ~(t.col > Columns)
    BY <2>1, <2>3, <2>4
  <2>6. 0 \in 0..n
    BY <1>1
  <2> QED BY <1>2, <1>3, <2>5, <2>6 DEF Tied
<1>5. ASSUME NEW k \in 0..(n - 1), k \in D PROVE k + 1 \in D
  <2>1. k + 1 \in 1..n /\ k + 1 \in 0..n /\ k \in 0..n /\ (k + 1) - 1 = k
    BY <1>1
  <2>2. a[k + 1] = Put(a[k], Tab[k + 1]) /\ b[k + 1] = PutText(b[k], Tab[k + 1])
    BY <1>2, <1>3, <2>1
  <2>3. a[k] \in VgaSet /\ b[k] \in Begun /\ Tab[k + 1] \in Chars /\ Tied(a[k], b[k])
    BY <1>1, <1>2, <1>3, <1>5, <2>1
  <2>4. Tied(a[k + 1], b[k + 1])
    BY <2>2, <2>3, PutTied
  <2> QED BY <2>1, <2>4
<1>6. n \in D
  <2>1. n \in 0..n
    BY <1>1
  <2> HIDE DEF D
  <2> QED BY <1>1, <1>4, <1>5, <2>1, Induction
<1> QED BY <1>2, <1>3, <1>6

(* One character.                                                          *)
Alike(v, t) == ~t.wide => Agrees(v, t) /\ AtCursor(v, t)

LEMMA CharAgrees ==
  ASSUME NEW v \in VgaSet, NEW t \in Narrow, NEW c \in Chars, Alike(v, t)
  PROVE  Alike(PrintChar(v, c), TextAfter(t, c))
<1>1. CASE t.wide
  BY <1>1 DEF TextAfter, Alike
<1>2. CASE ~t.wide
  <2>1. t \in Begun /\ t \in TextSet /\ t.lines \in Seq(Seq(Chars)) /\ t.lines # << >> /\ Agrees(v, t)
    BY <1>2 DEF Narrow, Begun, TextSet, Texts, Alike
  <2>2. v \in VgaLess /\ TextAfter(t, c) \in Narrow
    <3>1. v.line \in 0..Rows
      BY TextSizes DEF VgaSet
    <3> QED BY <3>1, TextAfterType DEF VgaSet, VgaLess
  <2>3. ASSUME NEW u \in VgaSet, PrintChar(v, c) = CursorUpdate(u),
               ~TextAfter(t, c).wide => Agrees(u, TextAfter(t, c))
        PROVE  Alike(PrintChar(v, c), TextAfter(t, c))
    <3>1. ~TextAfter(t, c).wide => TextAfter(t, c) \in Begun
      BY <2>2 DEF Narrow, Begun
    <3> QED BY <2>3, <3>1, CursorAgrees DEF Alike
  <2>4. CASE c = "\n"
    <3>1. PrintChar(v, c) = CursorUpdate(Newline(v)) /\ Newline(v) \in VgaSet
      BY <2>2, <2>4, NewlineType DEF PrintChar, Escape
    <3>2. TextAfter(t, c) = [t EXCEPT !.lines = AtMost(Append(@, << >>)), !.col = 0]
      BY <1>2, <2>4 DEF TextAfter, Escape
    <3>3. TextAfter(t, c).lines = AtMost(Append(t.lines, << >>)) /\ TextAfter(t, c).col = 0
      BY <2>1, <3>2 DEF TextSet
    <3>4. Agrees(Newline(v), TextAfter(t, c))
      BY <2>1, <3>3, NewlineAgrees
    <3> QED BY <2>3, <3>1, <3>4
  <2>5. CASE c = "\r"
    <3>1. PrintChar(v, c) = CursorUpdate(Return(v))
      BY <2>5 DEF PrintChar, Escape
    <3>2. Return(v) \in VgaSet
      <4>1. v.line - 1 \in 0..Rows
        BY TextSizes DEF VgaSet
      <4>2. [v EXCEPT !.line = v.line - 1] \in VgaLess
        BY <4>1 DEF VgaSet, VgaLess
      <4> QED BY <4>2, NewlineType DEF Return
    <3>3. TextAfter(t, c) = [t EXCEPT !.col = 0]
      BY <1>2, <2>5 DEF TextAfter, Escape
    <3>4. TextAfter(t, c).lines = t.lines /\ TextAfter(t, c).col = 0
      BY <2>1, <3>3 DEF TextSet
    <3>5. Agrees(Return(v), TextAfter(t, c))
      BY <2>1, <3>4, ReturnAgrees
    <3> QED BY <2>3, <3>1, <3>2, <3>5
  <2>6. CASE c = "\t"
    <3>1. PrintChar(v, c) = CursorUpdate(FoldLeft(Put, v, Tab)) /\ FoldLeft(Put, v, Tab) \in VgaSet
      BY <2>6, TabType DEF PrintChar, Escape
    <3>2. TextAfter(t, c) = FoldLeft(PutText, t, Tab)
      BY <1>2, <2>6 DEF TextAfter, Escape
    <3>3. ~TextAfter(t, c).wide => Agrees(FoldLeft(Put, v, Tab), TextAfter(t, c))
      BY <1>2, <2>1, <3>2, TabAgrees DEF Tied
    <3> QED BY <2>3, <3>1, <3>3
  <2>7. CASE c \in {Glyph, " ", ">"}
    <3>1. c # "\n" /\ c # "\r" /\ c # "\t" /\ c # Escape
      BY <2>7 DEF Glyph, Escape
    <3>2. PrintChar(v, c) = CursorUpdate(Put(v, c)) /\ TextAfter(t, c) = PutText(t, c)
      BY <1>2, <3>1 DEF PrintChar, TextAfter
    <3>3. Put(v, c) \in VgaSet
      BY PutType
    <3>4. ~TextAfter(t, c).wide => Agrees(Put(v, c), TextAfter(t, c))
      <4>1. TextAfter(t, c).wide = (t.col >= Columns)
        BY <2>1, <3>2, PutTextIs
      <4>2. ~(t.col >= Columns) => t.col < Columns
        BY <2>1, TextSizes DEF TextSet
      <4> QED BY <2>1, <3>2, <4>1, <4>2, PutAgrees
    <3> QED BY <2>3, <3>2, <3>3, <3>4
  <2> QED BY <2>4, <2>5, <2>6, <2>7 DEF Chars
<1> QED BY <1>1, <1>2

LEMMA StrAgrees ==
  ASSUME NEW v \in VgaSet, NEW t \in Narrow, NEW s \in Seq(Chars), Alike(v, t)
  PROVE  /\ Alike(PrintStr(v, s), FoldLeft(TextAfter, t, s))
         /\ FoldLeft(TextAfter, t, s) \in Narrow
<1> DEFINE n == Len(s)
<1>1. n \in Nat /\ n \in 0..n /\ \A k \in 1..n : s[k] \in Chars
  OBVIOUS
<1>2. PICK a \in [0..n -> VgaSet] :
        /\ a[0] = v /\ a[n] = FoldLeft(PrintChar, v, s)
        /\ \A k \in 1..n : a[k] = PrintChar(a[k - 1], s[k])
  BY PrintSteps
<1>3. PICK b \in [0..n -> Narrow] :
        /\ b[0] = t /\ b[n] = FoldLeft(TextAfter, t, s)
        /\ \A k \in 1..n : b[k] = TextAfter(b[k - 1], s[k])
  BY TextSteps
<1> DEFINE D == {k \in 0..n : Alike(a[k], b[k])}
<1> HIDE DEF n
<1>4. 0 \in D
  BY <1>1, <1>2, <1>3
<1>5. ASSUME NEW k \in 0..(n - 1), k \in D PROVE k + 1 \in D
  <2>1. k + 1 \in 1..n /\ k + 1 \in 0..n /\ k \in 0..n /\ (k + 1) - 1 = k
    BY <1>1
  <2>2. a[k + 1] = PrintChar(a[k], s[k + 1]) /\ b[k + 1] = TextAfter(b[k], s[k + 1])
    BY <1>2, <1>3, <2>1
  <2>3. a[k] \in VgaSet /\ b[k] \in Narrow /\ s[k + 1] \in Chars /\ Alike(a[k], b[k])
    BY <1>1, <1>2, <1>3, <1>5, <2>1
  <2>4. Alike(a[k + 1], b[k + 1])
    BY <2>2, <2>3, CharAgrees
  <2> QED BY <2>1, <2>4
<1>6. n \in D
  <2> HIDE DEF D
  <2> QED BY <1>1, <1>4, <1>5, Induction
<1> QED BY <1>1, <1>2, <1>3, <1>6 DEF PrintStr
LEMMA ClearedAgrees == InitVga => TextInv
<1> SUFFICES ASSUME InitVga PROVE TextInv
  OBVIOUS
<1>1. Columns \in Nat \ {0} /\ Rows \in Nat \ {0}
  BY TextSizes
<1>2. PICK v \in VgaLess :
        /\ vga = CursorUpdate(Newline(v)) /\ v.line = 0
        /\ \A i \in TextCells : v.cells[i] = IF i < Columns * (Rows - 1) THEN BlankCell ELSE Old
  BY ClearedIs
<1> DEFINE u == Newline(v)
<1>3. u \in VgaSet /\ u.line = 1 /\ u.cells = v.cells /\ u.pos = 0 * Columns
  <2>1. 0 < Rows
    BY <1>1
  <2> QED BY <1>2, <2>1, NewlineType, NewlineIs
<1>4. text = [lines |-> << << >> >>, col |-> 0, wide |-> FALSE]
  BY DEF InitVga
<1>5. text.lines = << << >> >> /\ text.col = 0 /\ text.wide = FALSE /\ Len(text.lines) = 1
      /\ Len(text.lines[1]) = 0
  BY <1>4
<1>6. text \in Begun /\ Begun \subseteq Narrow
  <2>1. << << >> >> \in Texts
    <3>1. << >> \in Seq(Chars)
      OBVIOUS
    <3> DEFINE S == Seq(Chars)
    <3> HIDE DEF S
    <3>2. \A e \in S : <<e>> \in Seq(S)
      OBVIOUS
    <3> QED BY <3>1, <3>2 DEF S, Texts
  <2>2. << << >> >> # << >>
    OBVIOUS
  <2> QED BY <1>4, <2>1, <2>2 DEF Begun, Narrow, TextSet
<1> HIDE DEF u
<1>7. ASSUME NEW r \in 0..(Rows - 1), NEW d \in 1..Columns
      PROVE  CellAt(u, r, d) = IF r < Rows - 1 THEN BlankCell ELSE Old
  <2> DEFINE p == r * Columns
             e == (Rows - 1) * Columns
  <2>1. r \in Nat /\ Rows - 1 \in Nat /\ p \in Nat /\ e \in Nat /\ Columns * (Rows - 1) = e
    <3>1. r \in Nat /\ Rows - 1 \in Nat /\ Columns \in Nat
      BY <1>1
    <3>2. \A a, b \in Nat : a * b \in Nat /\ a * b = b * a
      OBVIOUS
    <3> QED BY <3>1, <3>2
  <2>2. p + d - 1 \in TextCells
    BY RowPlace
  <2>3. r < Rows - 1 => p + Columns <= e
    BY <2>1, RowsApart
  <2>4. ~(r < Rows - 1) => r = Rows - 1
    BY <1>1
  <2>5. ~(r < Rows - 1) => p = e
    BY <2>4
  <2> HIDE DEF p, e
  <2>6. p + d - 1 < e <=> r < Rows - 1
    <3>1. r < Rows - 1 \/ ~(r < Rows - 1)
      OBVIOUS
    <3>2. d \in Nat /\ 1 <= d /\ d <= Columns /\ Columns \in Nat
      BY <1>1
    <3> QED BY <2>1, <2>3, <2>5, <3>1, <3>2
  <2>7. u.cells[p + d - 1] = IF p + d - 1 < e THEN BlankCell ELSE Old
    BY <1>2, <1>3, <2>1, <2>2
  <2> QED BY <2>6, <2>7 DEF CellAt, p
<1>8. Agrees(u, text)
  <2>1. \A r \in 1..Len(text.lines) : Len(text.lines[r]) <= Columns
    <3>1. \A r \in 1..1 : r = 1
      OBVIOUS
    <3> QED BY <1>1, <1>5, <3>1
  <2>2. u.pos = (u.line - 1) * Columns + text.col /\ text.col <= Len(text.lines[u.line])
    BY <1>1, <1>3, <1>5
  <2>3. ASSUME NEW r \in 0..(Rows - 1), NEW d \in 1..Columns
        PROVE  /\ ~(r < 1 /\ d <= Len(text.lines[r + 1]))
               /\ CellAt(u, r, d) \in {BlankCell, Old}
    <3>1. ~(d <= 0) /\ (r < 1 => r + 1 = 1)
      BY <1>1
    <3> QED BY <1>5, <1>7, <3>1
  <2>4. ASSUME NEW r \in 0..(Rows - 1), NEW q \in 0..(Rows - 1), NEW c \in 1..Columns,
               NEW d \in 1..Columns, CellAt(u, r, c) = Old, CellAt(u, q, d) = Old
        PROVE  r = q
    <3>1. ~(r < Rows - 1) /\ ~(q < Rows - 1)
      BY <1>7, <2>4 DEF BlankCell, Old
    <3> QED BY <1>1, <3>1
  <2> QED BY <1>3, <1>5, <2>1, <2>2, <2>3, <2>4 DEF Agrees
<1> QED BY <1>2, <1>3, <1>6, <1>8, CursorAgrees DEF TextInv, u

LEMMA TextInvariance == ConsoleSpec => [](ScreenInv /\ TextInv)
<1>1. ConsoleInit => TextInv
  BY ClearedAgrees DEF ConsoleInit
<1>2. ASSUME ScreenInv, TextInv, [ConsoleNext]_consoleVars PROVE TextInv'
  <2>1. UNCHANGED <<vga, text>> \/ \E s \in Seq(Chars) : Show(s)
    BY <1>2, ConsoleSteps DEF ScreenInv
  <2>2. CASE UNCHANGED <<vga, text>>
    BY <1>2, <2>2 DEF TextInv, Narrow, TextSet, Texts, Chars, Agrees, AtCursor, CellAt
  <2>3. ASSUME NEW s \in Seq(Chars), Show(s) PROVE TextInv'
    <3> DEFINE t == FoldLeft(TextAfter, text, s)
    <3>1. vga' = PrintStr(vga, s) /\ text' = IF t.wide THEN Wide ELSE t
      BY <2>3 DEF Show
    <3>2. Alike(PrintStr(vga, s), t) /\ t \in Narrow
      BY <1>2, StrAgrees DEF ScreenInv, TextInv, Alike
    <3> HIDE DEF t
    <3>3. CASE t.wide
      <4>1. Wide.wide = TRUE /\ Wide \in Narrow
        <5>1. << >> \in Texts
          BY DEF Texts
        <5> QED BY <5>1 DEF Wide, Narrow, TextSet
      <4>2. text' = Wide
        BY <3>1, <3>3
      <4>3. text' \in Narrow /\ text'.wide
        BY <4>1, <4>2
      <4> QED BY <4>3 DEF TextInv, Narrow, TextSet, Texts, Chars
    <3>4. CASE ~t.wide
      <4>1. text' = t
        BY <3>1, <3>4
      <4>2. text' \in Narrow /\ Agrees(vga', text') /\ AtCursor(vga', text')
        BY <3>1, <3>2, <3>4, <4>1 DEF Alike
      <4> QED BY <4>2 DEF TextInv, Narrow, TextSet, Texts, Chars, Agrees, AtCursor, CellAt
    <3> QED BY <3>3, <3>4
  <2> QED BY <2>1, <2>2, <2>3
<1> QED BY <1>1, <1>2, ScreenInvariance, PTL DEF ConsoleSpec

(* The rows of the screen are the last lines printed, on a screen of any   *)
(* size, the cursor is at the end of the text, and what was on the screen  *)
(* before is left in one row at most, until a line is wider than it.       *)
THEOREM DisplayShowsTheText == ConsoleSpec => []ShowsTheText
<1>1. ASSUME ScreenInv, TextInv, ~text.wide
      PROVE  /\ \A r \in 0..(Rows - 1) : \A c \in 1..Columns :
                  IF c <= Len(LineAt(r)) THEN Row(r)[c] = LineAt(r)[c]
                  ELSE Row(r)[c] \in {BlankCell, Old}
             /\ \A r, q \in OldRows : r = q
             /\ text.col < Columns => vga.cursor = (Len(text.lines) - 1) * Columns + text.col
  <2>1. Agrees(vga, text) /\ AtCursor(vga, text) /\ vga.line = Len(text.lines)
    BY <1>1 DEF TextInv, Agrees
  <2>2. \A r \in 0..(Rows - 1), c \in 1..Columns : Row(r)[c] = CellAt(vga, r, c)
    BY DEF Row, CellAt
  <2>3. ASSUME NEW r \in 0..(Rows - 1), NEW c \in 1..Columns
        PROVE  IF c <= Len(LineAt(r)) THEN Row(r)[c] = LineAt(r)[c]
               ELSE Row(r)[c] \in {BlankCell, Old}
    <3>1. IF r < vga.line /\ c <= Len(text.lines[r + 1])
          THEN CellAt(vga, r, c) = text.lines[r + 1][c]
          ELSE CellAt(vga, r, c) \in {BlankCell, Old}
      BY <2>1 DEF Agrees
    <3>2. CASE r < vga.line
      BY <2>1, <2>2, <3>1, <3>2 DEF LineAt
    <3>3. CASE ~(r < vga.line)
      <4>1. LineAt(r) = << >> /\ Len(<< >>) = 0 /\ ~(c <= 0)
        BY <2>1, <3>3 DEF LineAt
      <4> QED BY <2>2, <3>1, <3>3, <4>1
    <3> QED BY <3>2, <3>3
  <2>4. ASSUME NEW r \in OldRows, NEW q \in OldRows PROVE r = q
    <3>1. \A p \in OldRows : p \in 0..(Rows - 1) /\ \E c \in 1..Columns : CellAt(vga, p, c) = Old
      BY <2>2 DEF OldRows, Range, Row
    <3> QED BY <2>1, <3>1 DEF Agrees
  <2> QED BY <2>1, <2>3, <2>4 DEF AtCursor
<1>2. ScreenInv /\ TextInv => ShowsTheText
  BY <1>1 DEF ShowsTheText
<1> QED BY <1>2, TextInvariance, PTL

=============================================================================
