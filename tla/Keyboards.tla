------------------------------ MODULE Keyboards ------------------------------
(***************************************************************************)
(* The keys that a window is told of on Xcb, Wayland, Win32 and Android:   *)
(* the tables from keysyms, scan codes and key codes to Key, and the       *)
(* modifiers each handler reports.  External: the keyboard and the system, *)
(* which knows what is held.  The locks (Caps, Num) stay off.              *)
(* Keys are the numbers of enum Key.                                       *)
(***************************************************************************)
EXTENDS Integers, FiniteSets, Sequences

CONSTANTS
    Caps,      \* keys of the keyboard
    MaxHeld    \* bound: that many are held at once

VARIABLES
    platform,  \* the platform the program runs on
    focused,   \* system: key events go to the window
    capsHeld,  \* system: the caps held down
    xkb,       \* the modifiers active in m_state (Xcb, Wayland)
    due,       \* Wayland: a modifiers event follows the key event
    away,      \* the focus has been elsewhere once
    told       \* the last handleKeyPress or handleKeyRelease

kbVars == <<platform, focused, capsHeld, xkb, due, away, told>>

KeyUnknown == -1

PrintableKeys == \h20 .. \h60 \cup \h7b .. \h7e

OtherKeys == \h100 .. \h130 \cup \h150 .. \h165 \cup \h168 .. \h16a
-----------------------------------------------------------------------------
\* The key of code c in a row of keys, the first of which has the code `first`.
Row(c, first, keys) == keys[(c - first) + 1]

\* Mutant: every printable character is a key of its own.
KeysymsPrintableMutant(c) == IF c \in \h20 .. \h7e THEN c ELSE KeyUnknown

\* Both cases of a letter are one key.
KeysymsPrintable(c) ==
    CASE c \in \h20 .. \h60 \cup \h7b .. \h7e -> c
      [] c \in \h61 .. \h7a -> c - \h20
      [] OTHER -> KeyUnknown

KeysymsCursor == <<\h10c, \h107, \h109, \h106, \h108, \h10a, \h10b, \h10d>>

KeysymsOthers(c) ==
    CASE c = \hff1b -> \h100 [] c = \hff0d -> \h101 [] c = \hff09 -> \h102
      [] c = \hff08 -> \h103 [] c = \hff63 -> \h104 [] c = \hffff -> \h105
      [] c \in \hff50 .. \hff57 -> Row(c, \hff50, KeysymsCursor)
      [] c = \hffe5 -> \h10e [] c = \hff14 -> \h10f [] c = \hff7f -> \h110
      [] c = \hff61 -> \h111 [] c = \hff13 -> \h112
      [] c \in \hffbe .. \hffdb -> \h113 + (c - \hffbe)
      [] c \in \hffb0 .. \hffb6 -> \h150 + (c - \hffb0)
      [] c \in \hffb7 .. \hffb9 -> \h156 + (c - \hffb7)
      [] c = \hffae -> \h159 [] c = \hffaf -> \h15a [] c = \hffaa -> \h15b
      [] c = \hffad -> \h15c [] c = \hffab -> \h15d [] c = \hff8d -> \h15e
      [] c = \hffbd -> \h15f
      [] c = \hffe1 -> \h160 [] c = \hffe3 -> \h161 [] c = \hffe9 -> \h162
      [] c = \hffeb -> \h163 [] c = \hffe2 -> \h164 [] c = \hffe4 -> \h165
      [] c = \hffea -> \h168 [] c = \hffec -> \h169 [] c = \hff67 -> \h16a
      [] OTHER -> KeyUnknown

KeysymToKey(keysym) ==
    IF keysym \in \h20 .. \h7e THEN KeysymsPrintable(keysym) ELSE KeysymsOthers(keysym)

ScansNumbers ==
    <<\h100, \h31, \h32, \h33, \h34, \h35, \h36, \h37, \h38, \h39, \h30, \h2d, \h3d, \h103, \h102>>

ScansTop == <<\h51, \h57, \h45, \h52, \h54, \h59, \h55, \h49, \h4f, \h50, \h5b, \h5d, \h101>>

ScansHome == <<\h161, \h41, \h53, \h44, \h46, \h47, \h48, \h4a, \h4b, \h4c, \h3b, \h27, \h60>>

ScansBottom == <<\h160, \h5c, \h5a, \h58, \h43, \h56, \h42, \h4e, \h4d, \h2c, \h2e, \h2f, \h164>>

ScansKeypad ==
    <<\h156, \h157, \h158, \h15c, \h154, \h155, \h156, \h15d, \h151, \h152, \h153, \h150, \h159>>

ScanCodeTable(c) ==
    CASE c \in \h01 .. \h0f -> Row(c, \h01, ScansNumbers)
      [] c \in \h10 .. \h1c -> Row(c, \h10, ScansTop)
      [] c \in \h1d .. \h29 -> Row(c, \h1d, ScansHome)
      [] c \in \h2a .. \h36 -> Row(c, \h2a, ScansBottom)
      [] c = \h37 -> \h15b [] c = \h38 -> \h162 [] c = \h39 -> \h20 [] c = \h3a -> \h10e
      [] c \in \h3b .. \h44 -> \h113 + (c - \h3b)
      [] c = \h45 -> \h112 [] c = \h46 -> \h10f
      [] c \in \h47 .. \h53 -> Row(c, \h47, ScansKeypad)
      [] c = \h57 -> \h11d [] c = \h58 -> \h11e [] c = \h59 -> \h15f
      [] c \in \h64 .. \h6e -> \h11f + (c - \h64)
      [] c = \h76 -> \h12a
      [] OTHER -> KeyUnknown

ScansCursor == <<\h10d, \h108, \h10b, \h104, \h105>>

\* Those with the bit of an extended key.
ScanCodesExtended(c) ==
    CASE c = \h11c -> \h15e [] c = \h11d -> \h165
      [] c = \h135 -> \h15a [] c = \h137 -> \h111 [] c = \h138 -> \h168
      [] c = \h145 -> \h110 [] c = \h146 -> \h112 [] c = \h147 -> \h10c
      [] c = \h148 -> \h109 [] c = \h149 -> \h10a [] c = \h14b -> \h107 [] c = \h14d -> \h106
      [] c \in \h14f .. \h153 -> Row(c, \h14f, ScansCursor)
      [] c = \h15b -> \h163 [] c = \h15c -> \h169 [] c = \h15d -> \h16a
      [] OTHER -> KeyUnknown

WindowsScanCodeToKey(scan) ==
    IF scan \in 0 .. \hff THEN ScanCodeTable(scan) ELSE ScanCodesExtended(scan)

CodesArrows == <<\h2a, \h23, \h109, \h108, \h107, \h106>>

CodesModifiers == <<\h2c, \h2e, \h162, \h168, \h160, \h164, \h102, \h20>>

CodesSymbols ==
    <<\h101, \h105, \h7e, \h2d, \h3d, \h5b, \h5d, \h5c, \h3b, \h27, \h2f, \h40, \h110>>

\* Up to the letters and their neighbours; AKEYCODE_DEL is "Delete" here.
KeyCodesFirst(c) ==
    CASE c = 4 -> \h100
      [] c \in 7 .. 16 -> \h30 + (c - 7)
      [] c \in 17 .. 22 -> Row(c, 17, CodesArrows)
      [] c \in 29 .. 54 -> \h41 + (c - 29)
      [] c \in 55 .. 62 -> Row(c, 55, CodesModifiers)
      [] c \in 66 .. 78 -> Row(c, 66, CodesSymbols)
      [] c = 81 -> \h2b [] c = 82 -> \h16a [] c = 92 -> \h10a [] c = 93 -> \h10b
      [] OTHER -> KeyUnknown

CodesEditing == <<\h100, \h103, \h161, \h165, \h10e, \h10f, \h163, \h169>>

KeyCodesOthers(c) ==
    CASE c \in 111 .. 118 -> Row(c, 111, CodesEditing)
      [] c = 122 -> \h10c [] c = 123 -> \h10d [] c = 124 -> \h104
      [] c \in 131 .. 142 -> \h113 + (c - 131)
      [] c = 143 -> \h110
      [] c \in 144 .. 150 -> \h150 + (c - 144)
      [] c \in 151 .. 153 -> \h156 + (c - 151)
      [] c = 154 -> \h15a [] c = 155 -> \h15b [] c = 156 -> \h15c [] c = 157 -> \h15d
      [] c = 158 -> \h159 [] c = 160 -> \h15e [] c = 161 -> \h15f
      [] c = 280 -> \h109 [] c = 281 -> \h108 [] c = 282 -> \h107 [] c = 283 -> \h106
      [] OTHER -> KeyUnknown

AndroidKeyCodeToKey(code) ==
    IF code \in 0 .. 93 THEN KeyCodesFirst(code) ELSE KeyCodesOthers(code)
-----------------------------------------------------------------------------
\* External: the keys of a US keyboard, with the number each system gives them.  Not
\* those that the tables disagree on: Backspace and Delete, which that of Android
\* exchanges, the grave accent, the keys it leaves out, and the locks.
Cap(key, keysym, shifted, scan, code) ==
    [key |-> key, keysym |-> keysym, shifted |-> shifted, scan |-> scan, code |-> code]

LetterScans ==
    <<\h1e, \h30, \h2e, \h20, \h12, \h21, \h22, \h23, \h17, \h24, \h25, \h26, \h32,
      \h31, \h18, \h19, \h10, \h13, \h1f, \h14, \h16, \h2f, \h11, \h2d, \h15, \h2c>>

LetterCaps == {Cap(\h41 + i, \h61 + i, \h41 + i, LetterScans[i + 1], 29 + i) : i \in 0 .. 25}

DigitSymbols == <<\h29, \h21, \h40, \h23, \h24, \h25, \h5e, \h26, \h2a, \h28>>

DigitCaps ==
    {Cap(\h30 + d, \h30 + d, DigitSymbols[d + 1], IF d = 0 THEN \h0b ELSE 1 + d, 7 + d) :
        d \in 0 .. 9}

FunctionCaps ==
    {Cap(\h113 + f, \hffbe + f, \hffbe + f, IF f < 10 THEN \h3b + f ELSE \h4d + f, 131 + f) :
        f \in 0 .. 11}

WritingCaps == {
    Cap(\h20, \h20, \h20, \h39, 62), Cap(\h100, \hff1b, \hff1b, \h01, 111),
    Cap(\h101, \hff0d, \hff0d, \h1c, 66), Cap(\h102, \hff09, \hfe20, \h0f, 61),
    Cap(\h104, \hff63, \hff63, \h152, 124), Cap(\h16a, \hff67, \hff67, \h15d, 82)}

CursorCaps == {
    Cap(\h106, \hff53, \hff53, \h14d, 22), Cap(\h107, \hff51, \hff51, \h14b, 21),
    Cap(\h108, \hff54, \hff54, \h150, 20), Cap(\h109, \hff52, \hff52, \h148, 19),
    Cap(\h10a, \hff55, \hff55, \h149, 92), Cap(\h10b, \hff56, \hff56, \h151, 93),
    Cap(\h10c, \hff50, \hff50, \h147, 122), Cap(\h10d, \hff57, \hff57, \h14f, 123)}

KeypadCaps == {
    Cap(\h15a, \hffaf, \hffaf, \h135, 154), Cap(\h15b, \hffaa, \hffaa, \h37, 155),
    Cap(\h15c, \hffad, \hffad, \h4a, 156), Cap(\h15d, \hffab, \hffab, \h4e, 157),
    Cap(\h15e, \hff8d, \hff8d, \h11c, 160)}

ModifierCaps == {
    Cap(\h160, \hffe1, \hffe1, \h2a, 59), Cap(\h164, \hffe2, \hffe2, \h36, 60),
    Cap(\h161, \hffe3, \hffe3, \h1d, 113), Cap(\h165, \hffe4, \hffe4, \h11d, 114),
    Cap(\h162, \hffe9, \hffe7, \h38, 57), Cap(\h168, \hffea, \hffe8, \h138, 58),
    Cap(\h163, \hffeb, \hffeb, \h15b, 117), Cap(\h169, \hffec, \hffec, \h15c, 118)}

SymbolCaps == {
    Cap(\h2c, \h2c, \h3c, \h33, 55), Cap(\h2e, \h2e, \h3e, \h34, 56),
    Cap(\h2d, \h2d, \h5f, \h0c, 69), Cap(\h3d, \h3d, \h2b, \h0d, 70),
    Cap(\h5b, \h5b, \h7b, \h1a, 71), Cap(\h5d, \h5d, \h7d, \h1b, 72),
    Cap(\h5c, \h5c, \h7c, \h2b, 73), Cap(\h3b, \h3b, \h3a, \h27, 74),
    Cap(\h27, \h27, \h22, \h28, 75), Cap(\h2f, \h2f, \h3f, \h35, 76)}

UsKeyboard ==
    UNION {LetterCaps, DigitCaps, SymbolCaps, FunctionCaps,
           WritingCaps, CursorCaps, KeypadCaps, ModifierCaps}

Platforms == {"xcb", "wayland", "win32", "android"}

\* The modifier a key stands for while it is held.
ModifierOf(cap) ==
    CASE cap.key \in {\h160, \h164} -> {"Shift"}
      [] cap.key \in {\h161, \h165} -> {"Control"}
      [] cap.key \in {\h162, \h168} -> {"Alt"}
      [] cap.key \in {\h163, \h169} -> {"Logo"}
      [] OTHER -> {}

Modifiers(caps) == UNION {ModifierOf(c) : c \in caps}

\* Win32 asks the system, Android is told with the key.
GetKeyboardModifiers == Modifiers(capsHeld')

AndroidKeyMetaToModifiers == Modifiers(capsHeld')

\* The state of the keyboard picks the keysym of a key.
KeysymOf(cap, modifiers) == IF "Shift" \in modifiers THEN cap.shifted ELSE cap.keysym

Untold == [kind |-> "none"]

KbInit ==
    /\ platform \in Platforms
    /\ focused = TRUE /\ capsHeld = {} /\ xkb = {}
    /\ due = FALSE /\ away = FALSE
    /\ told = Untold

Tell(kind, cap, key, modifiers) ==
    told' = [kind |-> kind, cap |-> cap, key |-> key, modifiers |-> modifiers]

\* handleKeyPress and handleKeyRelease of LinuxXkbKeyboard: the key as the
\* state was before, the modifiers as it is afterwards.
XcbKey(kind, cap) ==
    /\ platform = "xcb"
    /\ xkb' = IF kind = "press" THEN xkb \cup ModifierOf(cap)
              ELSE (xkb \ ModifierOf(cap)) \cup (xkb \cap Modifiers(capsHeld \ {cap}))
    /\ Tell(kind, cap, KeysymToKey(KeysymOf(cap, xkb)), xkb')
    /\ UNCHANGED due

\* keybordKey: the compositor sends what changed of the modifiers afterwards.
WaylandKey(kind, cap) ==
    /\ platform = "wayland"
    /\ Tell(kind, cap, KeysymToKey(KeysymOf(cap, xkb)), xkb)
    /\ due' = TRUE
    /\ UNCHANGED xkb

Win32Key(kind, cap) ==
    /\ platform = "win32"
    /\ Tell(kind, cap, WindowsScanCodeToKey(cap.scan), GetKeyboardModifiers)
    /\ UNCHANGED <<xkb, due>>

AndroidKey(kind, cap) ==
    /\ platform = "android"
    /\ Tell(kind, cap, AndroidKeyCodeToKey(cap.code), AndroidKeyMetaToModifiers)
    /\ UNCHANGED <<xkb, due>>

HandleKey(kind, cap) ==
    \/ focused /\ XcbKey(kind, cap)
    \/ focused /\ WaylandKey(kind, cap)
    \/ focused /\ Win32Key(kind, cap)
    \/ focused /\ AndroidKey(kind, cap)
    \/ ~focused /\ told' = Untold /\ UNCHANGED <<xkb, due>>

Press(cap) ==
    /\ ~due /\ cap \notin capsHeld /\ Cardinality(capsHeld) < MaxHeld
    /\ capsHeld' = capsHeld \cup {cap}
    /\ HandleKey("press", cap)
    /\ UNCHANGED <<platform, focused, away>>

Release(cap) ==
    /\ ~due /\ cap \in capsHeld
    /\ capsHeld' = capsHeld \ {cap}
    /\ HandleKey("release", cap)
    /\ UNCHANGED <<platform, focused, away>>

\* Mutant: the mask of the modifiers is combined with the one before.
KeyboardModifiersMutant ==
    /\ due
    /\ xkb' = xkb \cup Modifiers(capsHeld)
    /\ due' = FALSE /\ told' = Untold
    /\ UNCHANGED <<platform, focused, capsHeld, away>>

\* keyboardModifiers.
KeyboardModifiers ==
    /\ due
    /\ xkb' = Modifiers(capsHeld)
    /\ due' = FALSE /\ told' = Untold
    /\ UNCHANGED <<platform, focused, capsHeld, away>>

FocusLeaves ==
    /\ ~due /\ focused
    /\ focused' = FALSE /\ away' = TRUE /\ told' = Untold
    /\ UNCHANGED <<platform, capsHeld, xkb, due>>

\* A compositor tells the modifiers with the focus, the X server only by the
\* events that LinuxXkbKeyboard selects and nobody handles.
FocusReturns ==
    /\ ~focused
    /\ focused' = TRUE /\ told' = Untold
    /\ due' = (platform = "wayland")
    /\ UNCHANGED <<platform, capsHeld, xkb, away>>

KbNext ==
    \/ \E cap \in Caps : Press(cap) \/ Release(cap)
    \/ KeyboardModifiers \/ FocusLeaves \/ FocusReturns

KbSpec == KbInit /\ [][KbNext]_kbVars
-----------------------------------------------------------------------------
(* A key is reported under its own name on every platform and whatever     *)
(* else is held, so that it is also released as the key it was pressed as: *)
(* letters, function and cursor keys, not the keys with a second symbol.   *)
(* Whatever is reported is a member of enum Key or unknown.                *)
KeysKeepTheirNames ==
    told.kind # "none" =>
      /\ told.key \in PrintableKeys \cup OtherKeys \cup {KeyUnknown}
      /\ KeysymToKey(told.cap.shifted) = KeysymToKey(told.cap.keysym)
           => told.key = told.cap.key

(* The modifiers reported are those held: after the event on Xcb, Win32    *)
(* and Android, before it on Wayland.  On Xcb not after another window has *)
(* had the keyboard, as state notifications are selected but not handled.  *)
ModifiersAreHeld ==
    told.kind # "none" /\ ~(platform = "xcb" /\ away)
      => \/ told.modifiers = Modifiers(capsHeld)
         \/ /\ platform = "wayland" /\ due
            /\ told.modifiers = Modifiers(IF told.kind = "press" THEN capsHeld \ {told.cap}
                                          ELSE capsHeld \cup {told.cap})

(* The keys and the modifiers a window is told of are those of the         *)
(* keyboard, on the four platforms.                                        *)
KeysAgree == KeysKeepTheirNames /\ ModifiersAreHeld
=============================================================================
