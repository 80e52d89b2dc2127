------------------------------- MODULE Console -------------------------------
(***************************************************************************)
(* The console on the text display: what the keys a user presses print.    *)
(* The kernel first prints to the display what it likes, then the console  *)
(* begins and is handed key codes until it is killed.  Its String is the   *)
(* one of src/lib/string, whose operators have empty bodies.               *)
(***************************************************************************)
EXTENDS VgaText, FiniteSets

CONSTANTS Keys,             \* the key codes of the keyboard
          MaxBoot           \* characters printed before the console begins

ASSUME ConsoleAssumption == Keys \subseteq 0..255 /\ MaxBoot \in Nat

VARIABLES con,              \* the console: [at: whether it has begun, active:
                            \*  TermActive, final: HasFinalUserString, command:
                            \*  the size of UserCommand]
          printed           \* characters printed before it began

consoleVars == <<vga, text, con, printed>>

Nul == "nul"
Glyph == "x"                \* any letter, figure or sign
Backspace == 14
Enter == 28

(* KeycodeAsciiConverter.  The row of letters has ten, but thirteen codes  *)
(* are looked up in it: one of them finds the end of the string, another   *)
(* what lies behind that in memory, the beginning of another string or     *)
(* nothing (of one that sets no colour: those begin with an escape).       *)
AsciiOf(k) ==
  CASE k = Enter -> {"\n"}
    [] k = 57  -> {" "}
    [] k = 224 -> {"\r"}
    [] k \in {180, 181, 41} \cup 2..10 \cup 16..25 \cup 30..38 \cup 44..50 -> {Glyph}
    [] k = 27 -> {Glyph, Nul, " ", "\n", "\r", "\t"}
    [] OTHER -> {Nul}

(* operator+= of String.                                                   *)
Appended(size) == size

EraseAlways(size) == TRUE
MayErase(size) == size > 0

PromptIf(c) == IF c.active THEN <<">", " ">> ELSE << >>

BootPrint(c) ==
  /\ con.at = "boot" /\ printed < MaxBoot
  /\ Show(<<c>>)
  /\ printed' = printed + 1
  /\ UNCHANGED con

Begin ==
  /\ con.at = "boot"
  /\ Show(<<"\n">> \o PromptIf(con))
  /\ con' = [con EXCEPT !.at = "begun", !.final = FALSE, !.command = 0]
  /\ UNCHANGED printed

Handling == con.at = "begun" /\ con.active

HandleBackspace ==
  /\ Handling /\ Backspace \in Keys
  /\ IF MayErase(con.command)
     THEN Show(<<Escape>>) /\ con' = [con EXCEPT !.command = @ - 1]
     ELSE UNCHANGED <<vga, text, con>>
  /\ UNCHANGED printed

(* HasFinalUserString is set, and reset by ReturnUser in the same call.    *)
HandleEnter ==
  /\ Handling /\ Enter \in Keys
  /\ Show(<<"\n">> \o PromptIf(con))
  /\ con' = [con EXCEPT !.final = FALSE, !.command = 0]
  /\ UNCHANGED printed

HandleOther ==
  /\ Handling
  /\ \E k \in Keys \ {Backspace, Enter} : \E c \in AsciiOf(k) :
       IF c = Nul THEN UNCHANGED <<vga, text, con>>
       ELSE Show(<<c>>) /\ con' = [con EXCEPT !.command = Appended(@)]
  /\ UNCHANGED printed

(* "Terminal Killed!" between two empty lines.                             *)
KillTerm ==
  /\ Handling
  /\ Show(<<"\n", "\n", Glyph, "\n", "\n">>)
  /\ con' = [con EXCEPT !.active = FALSE]
  /\ UNCHANGED printed

HandleKeyCode == HandleBackspace \/ HandleEnter \/ HandleOther

ConsoleInit ==
  /\ InitVga
  /\ con = [at |-> "boot", active |-> TRUE, final |-> FALSE, command |-> 0]
  /\ printed = 0

ConsoleNext ==
  \/ \E c \in {Glyph, "\n", "\r", "\t"} : BootPrint(c)
  \/ Begin \/ HandleKeyCode \/ KillTerm

ConsoleSpec == ConsoleInit /\ [][ConsoleNext]_consoleVars

=============================================================================
