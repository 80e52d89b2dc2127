--------------------------- MODULE DisplayServer ---------------------------
(***************************************************************************)
(* The display server: lux keeps a vector of pointers to windows and a     *)
(* back buffer; each lwin has two buffers of its own and points back at    *)
(* its server.  Both are objects on the stack of Kernel::system_init, so   *)
(* they end in the opposite order of their beginning, and the destructor   *)
(* of each reaches into the other.  A buffer is a row of pixels, and an    *)
(* address may leave it.  Left out: the shapes and letters drawn inside a  *)
(* window, which make up one "version" of its contents.                    *)
(***************************************************************************)
EXTENDS Naturals, Sequences, SequencesExt

CONSTANTS Windows,          \* the lwin objects of system_init
          Width, Height,    \* of the screen, in pixels; 1024 by 768
          Titlebar,         \* rows of a title bar; 15
          Places,           \* the rectangles [x, y, w, h] that windows take
          MaxVersion,       \* how often each window is painted
          MaxEntries        \* of the server's vector of windows; 1000

Pitch == 4                  \* bytes of a pixel
Server == "DisplayServer"

ASSUME ScreenAssumption ==
  /\ {Width, Height, Titlebar, MaxVersion, MaxEntries} \subseteq Nat \ {0}
  /\ Server \notin Windows
  /\ \A p \in Places : /\ {p.x, p.y, p.w, p.h} \subseteq Nat
                       /\ p.x + p.w <= Width /\ p.y + p.h + Titlebar <= Height

Screen == 0..(Width * Height - 1)

VARIABLES scope,            \* the objects of system_init, oldest first
          lux,              \* the server: its windows, its back buffer
          win,              \* the fields of each window
          screen,           \* the frame buffer of the hardware
          fault,            \* what undefined behaviour there has been
          twice             \* history: a window was attached more than once

vars == <<scope, lux, win, screen, fault, twice>>

Blank  == <<"blank", 0>>
Banner == <<"GXDriver", 0>>

Live(w)   == w \in Range(scope)
Ready(w)  == w \in Range(lux.windows) /\ win[w].buffers = "held"
Going     == fault = "none" /\ Server \in Range(scope)

(***************************************************************************)
(* lwin::draw, into a buffer as wide as the screen.                        *)
(***************************************************************************)
BarOnAll(w) == Titlebar
BarOf(w) == IF win[w].fullscreen THEN 0 ELSE Titlebar

At(w, row, col) == row * Width + col + win[w].x + win[w].y * Width

TitleCells(w) == {At(w, r, c) : r \in 0..(BarOf(w) - 1), c \in 0..(win[w].w - 1)}

(* The rows are compared with the height in bytes, as if it were a width.  *)
BodyRows(w)  == {r \in BarOf(w)..(win[w].h + BarOf(w) - 1) : r < win[w].h * Pitch}
BodyCells(w) == {At(w, r, c) : r \in BodyRows(w), c \in 0..(win[w].w - 1)}
Cells(w)     == TitleCells(w) \cup BodyCells(w)

(* Drawn anew into the title bar's buffer, always the same.                *)
TitlePixel(w) == <<w, 0>>

Pixel(w, a) == IF a \in BodyCells(w) THEN <<w, win[w].version>> ELSE TitlePixel(w)

Draw(buf, w) == [a \in Screen |-> IF a \in Cells(w) THEN Pixel(w, a) ELSE buf[a]]
DrawAll(buf, ws) == FoldLeft(Draw, buf, ws)

Harm(ws) ==
  IF \E w \in Range(ws) : ~Live(w) \/ win[w].buffers # "held" THEN "stale"
  ELSE IF \E w \in Range(ws) : ~(Cells(w) \subseteq Screen) THEN "beyond"
  ELSE "none"

(***************************************************************************)
(* What system_init does with a window: makes it, places it, attaches it   *)
(* and has its buffers allocated, in either order, and goes on to anything *)
(* else after both.                                                        *)
(***************************************************************************)
AllReady == \A w \in Range(scope) \ {Server} : Ready(w)

StartServer ==
  /\ fault = "none" /\ scope = << >> /\ lux.buffer = "unset"
  /\ scope' = <<Server>>
  /\ lux' = [lux EXCEPT !.buffer = "held"]
  /\ UNCHANGED <<win, screen, fault, twice>>

Placed(p) == [x |-> p.x, y |-> p.y, w |-> p.w, h |-> p.h, fullscreen |-> FALSE,
              buffers |-> "unset", version |-> 0]

SetFullscreen(l) == [l EXCEPT !.x = 0, !.y = 0, !.w = Width, !.h = Height,
                              !.fullscreen = TRUE]

Open(w, p, full) ==
  /\ Going /\ AllReady /\ ~Live(w) /\ win[w].buffers = "unset"
  /\ scope' = Append(scope, w)
  /\ win' = [win EXCEPT ![w] = IF full THEN SetFullscreen(Placed(p)) ELSE Placed(p)]
  /\ UNCHANGED <<lux, screen, fault, twice>>

AttachWindow(w) ==
  /\ Going /\ Live(w) /\ Len(lux.windows) < MaxEntries
  /\ lux' = [lux EXCEPT !.windows = Append(@, w)]
  /\ twice' = (twice \/ w \in Range(lux.windows))
  /\ UNCHANGED <<scope, win, screen, fault>>

ConstructPointer(w) ==
  /\ Going /\ Live(w) /\ win[w].buffers = "unset"
  /\ win' = [win EXCEPT ![w].buffers = "held"]
  /\ UNCHANGED <<scope, lux, screen, fault, twice>>

(* fillrect, fillcircle and drawstring, in the window's own buffer.        *)
Paint(w) ==
  /\ Going /\ Live(w) /\ win[w].buffers = "held" /\ win[w].version < MaxVersion
  /\ win' = [win EXCEPT ![w].version = @ + 1]
  /\ UNCHANGED <<scope, lux, screen, fault, twice>>

(* redraw_window, which has the server draw the window on the hardware.    *)
RedrawWindow(w) ==
  /\ Going /\ AllReady /\ Live(w)
  /\ screen' = Draw(screen, w)
  /\ fault' = Harm(<<w>>)
  /\ UNCHANGED <<scope, lux, win, twice>>

DrawWindows ==
  /\ Going /\ AllReady
  /\ lux' = [lux EXCEPT !.back = DrawAll(@, lux.windows)]
  /\ fault' = Harm(lux.windows)
  /\ UNCHANGED <<scope, win, screen, twice>>

FlipBuffer ==
  /\ Going /\ AllReady
  /\ screen' = lux.back
  /\ UNCHANGED <<scope, lux, win, fault, twice>>

(* The banner that GXDriver draws on the hardware, past the server.        *)
DrawBanner ==
  /\ Going /\ AllReady
  /\ screen' = [a \in Screen |-> IF a < Width THEN Banner ELSE screen[a]]
  /\ UNCHANGED <<scope, lux, win, fault, twice>>

(***************************************************************************)
(* The destructors, that of the youngest object first.                     *)
(***************************************************************************)
Look(acc, v, w) ==
  IF acc.blind THEN [kept |-> Append(acc.kept, v), blind |-> FALSE]
  ELSE IF v = w THEN [kept |-> acc.kept, blind |-> TRUE]
  ELSE [kept |-> Append(acc.kept, v), blind |-> FALSE]

(* destroy_window pops the window at i and goes on at i + 1, so that it    *)
(* does not look at the one that has moved to i.                           *)
Removed(ws, w) ==
  FoldLeft(LAMBDA acc, v : Look(acc, v, w), [kept |-> << >>, blind |-> FALSE], ws).kept

(* It then draws the others into the back buffer and flips it.             *)
DrawnBefore(back, ws, w) == DrawAll(back, ws)
Repainted(back, ws, w) == DrawAll(back, Removed(ws, w))

EndWindow(w) ==
  /\ Going /\ AllReady /\ Last(scope) = w /\ Live(w) /\ w # Server
  /\ scope' = Front(scope)
  /\ lux' = [lux EXCEPT !.windows = Removed(@, w),
                        !.back = Repainted(@, lux.windows, w)]
  /\ screen' = lux'.back
  /\ win' = [win EXCEPT ![w].buffers = "freed"]
  /\ fault' = Harm(lux'.windows)
  /\ UNCHANGED twice

(* lux::destroy destroys the windows that are still attached.              *)
EndServer ==
  /\ Going /\ scope = <<Server>>
  /\ scope' = << >>
  /\ lux' = [lux EXCEPT !.buffer = "freed"]
  /\ fault' = Harm(lux.windows)
  /\ UNCHANGED <<win, screen, twice>>

Init ==
  /\ scope = << >>
  /\ lux = [windows |-> << >>, buffer |-> "unset", back |-> [a \in Screen |-> Blank]]
  /\ win = [w \in Windows |-> Placed([x |-> 0, y |-> 0, w |-> 0, h |-> 0])]
  /\ screen = [a \in Screen |-> Blank]
  /\ fault = "none" /\ twice = FALSE

Next ==
  \/ StartServer \/ DrawWindows \/ FlipBuffer \/ DrawBanner \/ EndServer
  \/ \E w \in Windows :
       \/ \E p \in Places, full \in BOOLEAN : Open(w, p, full)
       \/ AttachWindow(w) \/ ConstructPointer(w) \/ Paint(w)
       \/ RedrawWindow(w) \/ EndWindow(w)

Spec == Init /\ [][Next]_vars

-----------------------------------------------------------------------------
(***************************************************************************)
(* Properties.                                                             *)
(***************************************************************************)
TypeOK ==
  /\ Range(scope) \subseteq Windows \cup {Server}
  /\ Range(lux.windows) \subseteq Windows
  /\ lux.buffer \in {"unset", "held", "freed"}
  /\ \A w \in Windows : /\ win[w].buffers \in {"unset", "held", "freed"}
                        /\ win[w].version \in 0..MaxVersion
  /\ DOMAIN screen = Screen /\ DOMAIN lux.back = Screen
  /\ fault \in {"none", "stale", "beyond"}

(* Whichever order windows begin and end in and whatever is drawn between, *)
(* the server never draws or destroys a window that has ended, each        *)
(* window's buffers are freed once, by its own destructor, and no drawing  *)
(* leaves the frame buffer -- unless a window has been attached twice: the *)
(* vector is changed while it is walked, and keeps a second entry that     *)
(* follows the first.  Nor does a drawing leave the frame buffer then.     *)
DrawsLiveWindows ==
  /\ TypeOK /\ fault # "beyond"
  /\ ~twice => fault = "none" /\ Range(lux.windows) \subseteq Range(scope)

(* redraw_window draws a window over those that are above it, and GXDriver *)
(* draws over all of them.  When a window ends and one that fills the      *)
(* screen remains, that is made good: each pixel is the present one of the *)
(* last window attached that covers it, and of the ended one none is left. *)
Ends(w) == Last(scope) = w /\ scope' = Front(scope)

Others(w)   == {k \in DOMAIN lux.windows : lux.windows[k] # w}
Above(w, a) == {k \in Others(w) : a \in Cells(lux.windows[k])}

EndRepairsScreen ==
  [][\A w \in Windows :
       scope # << >> /\ Ends(w) /\ ~twice
       /\ (\E k \in Others(w) : win[lux.windows[k]].fullscreen)
       => \A a \in Screen : screen'[a] = Pixel(lux.windows[Max(Above(w, a))], a)]_vars

=============================================================================
