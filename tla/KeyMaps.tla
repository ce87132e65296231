------------------------------ MODULE KeyMaps -------------------------------
(***************************************************************************)
(* From a key of the host's keyboard to a key of the client's: the tables  *)
(* by which the backends of crates/input turn native codes into the        *)
(* protocol's portable Key and back (keymap_win.rs, win_inject.rs,         *)
(* unix.rs).  Portable keys have the names of the source; RawKey(n) is     *)
(* Key::Raw(n), and no backend captures a Key::Char.                       *)
(***************************************************************************)
EXTENDS Integers, Functions, SequencesExt, TLC

\* Runs of portable keys, each in the order in which Windows numbers it.
Letters == <<"A", "B", "C", "D", "E", "F", "G", "H", "I", "J", "K", "L", "M",
             "N", "O", "P", "Q", "R", "S", "T", "U", "V", "W", "X", "Y", "Z">>
Digits == <<"Num0", "Num1", "Num2", "Num3", "Num4", "Num5", "Num6", "Num7",
            "Num8", "Num9">>
FRow == <<"F1", "F2", "F3", "F4", "F5", "F6", "F7", "F8", "F9", "F10", "F11", "F12">>
Modifiers == <<"ShiftLeft", "ShiftRight", "ControlLeft", "ControlRight",
               "AltLeft", "AltRight">>
Metas == <<"MetaLeft", "MetaRight">>
Navigation == <<"PageUp", "PageDown", "End", "Home",
                "ArrowLeft", "ArrowUp", "ArrowRight", "ArrowDown">>
Numpad == <<"Numpad0", "Numpad1", "Numpad2", "Numpad3", "Numpad4", "Numpad5",
            "Numpad6", "Numpad7", "Numpad8", "Numpad9">>
AddKeys == <<"NumpadMultiply", "NumpadAdd">>
SubtractKeys == <<"NumpadSubtract", "NumpadDecimal", "NumpadDivide">>
OemRow == <<"Semicolon", "Equal", "Comma", "Minus", "Period", "Slash", "Backquote">>
Brackets == <<"BracketLeft", "Backslash", "BracketRight", "Quote">>

\* A run of keys and the codes from first on: there, and back.
Codes(run, first) == [k \in Range(run) |-> first + AntiFunction(run)[k] - 1]
KeysFrom(first, run) == [c \in first .. first + Len(run) - 1 |-> run[c - first + 1]]

\* Two runs side by side, and a run by itself.
Beside(run, names) == [k \in Range(run) |-> names[AntiFunction(run)[k]]]
Itself(run) == [k \in Range(run) |-> k]

RawKey(n) == "Raw" \o ToString(n)
-----------------------------------------------------------------------------
(***************************************************************************)
(* Windows: virtual-key codes, and the extended flag.                      *)
(***************************************************************************)
VkCodes == 0 .. 255

\* Mutant of VkTable: the row of OEM keys starts one too late.
VkTableShifted ==
    Codes(Letters, 65) @@ Codes(Digits, 48) @@ Codes(FRow, 112) @@ Codes(Modifiers, 160)
    @@ Codes(Metas, 91) @@ Codes(Navigation, 33) @@ Codes(Numpad, 96)
    @@ Codes(AddKeys, 106) @@ Codes(SubtractKeys, 109)
    @@ Codes(OemRow, 187) @@ Codes(Brackets, 219)
    @@ [Enter |-> 13, NumpadEnter |-> 13, Escape |-> 27, Backspace |-> 8, Tab |-> 9,
        Space |-> 32, CapsLock |-> 20, Insert |-> 45, Delete |-> 46,
        PrintScreen |-> 44, ScrollLock |-> 145, Pause |-> 19, NumLock |-> 144,
        ContextMenu |-> 93]

\* vk_for, the codes.
VkTable ==
    Codes(Letters, 65) @@ Codes(Digits, 48) @@ Codes(FRow, 112) @@ Codes(Modifiers, 160)
    @@ Codes(Metas, 91) @@ Codes(Navigation, 33) @@ Codes(Numpad, 96)
    @@ Codes(AddKeys, 106) @@ Codes(SubtractKeys, 109)
    @@ Codes(OemRow, 186) @@ Codes(Brackets, 219)
    @@ [Enter |-> 13, NumpadEnter |-> 13, Escape |-> 27, Backspace |-> 8, Tab |-> 9,
        Space |-> 32, CapsLock |-> 20, Insert |-> 45, Delete |-> 46,
        PrintScreen |-> 44, ScrollLock |-> 145, Pause |-> 19, NumLock |-> 144,
        ContextMenu |-> 93]

NamedKeys == DOMAIN VkTable

\* vk_for, the keys that need the extended flag.
Extended ==
    Range(Metas) \cup Range(Navigation)
    \cup {"ControlRight", "AltRight", "Insert", "Delete", "NumpadDivide",
          "NumpadEnter", "NumLock", "ContextMenu"}

\* vk_for and inject_key: the code and the extended flag SendInput presses or
\* releases for a key, named or raw.
WindowsKey(k) ==
    IF k \in NamedKeys
      THEN [vk |-> VkTable[k], extended |-> k \in Extended]
      ELSE [vk |-> CHOOSE n \in VkCodes : RawKey(n) = k, extended |-> FALSE]

\* key_for_vk: the codes, whatever the extended flag; 16, 17 and 18 are what
\* Windows calls a Shift, Ctrl or Alt whose side it does not tell.
KeysOfVk ==
    KeysFrom(65, Letters) @@ KeysFrom(48, Digits) @@ KeysFrom(112, FRow)
    @@ KeysFrom(160, Modifiers) @@ KeysFrom(16, <<"ShiftLeft", "ControlLeft", "AltLeft">>)
    @@ KeysFrom(91, Metas) @@ KeysFrom(33, Navigation) @@ KeysFrom(96, Numpad)
    @@ KeysFrom(106, AddKeys) @@ KeysFrom(109, SubtractKeys)
    @@ KeysFrom(186, OemRow) @@ KeysFrom(219, Brackets)
    @@ KeysFrom(144, <<"NumLock", "ScrollLock">>) @@ KeysFrom(44, <<"PrintScreen", "Insert", "Delete">>)
    @@ KeysFrom(8, <<"Backspace", "Tab">>) @@ KeysFrom(19, <<"Pause", "CapsLock">>)
    @@ (13 :> "Enter" @@ 27 :> "Escape" @@ 32 :> "Space" @@ 93 :> "ContextMenu")

KeyForVk(vk, extended) ==
    IF vk = 13 /\ extended THEN "NumpadEnter"
    ELSE IF vk \in DOMAIN KeysOfVk THEN KeysOfVk[vk]
    ELSE RawKey(vk)
-----------------------------------------------------------------------------
(***************************************************************************)
(* Unix: rdev captures, enigo injects.                                     *)
(***************************************************************************)
Punctuation == OemRow \o Brackets

\* to_enigo_key: the keys of the client by the character or the key they are;
\* a key without an equivalent is not in the domain, and is skipped.
UnixKeys ==
    Itself(Letters) @@ Itself(Digits) @@ Itself(FRow) @@ Itself(Navigation)
    @@ Itself(Punctuation)
    @@ Beside(Numpad, Digits) @@ Beside(AddKeys, <<"*", "+">>)
    @@ Beside(SubtractKeys, <<"Minus", "Period", "Slash">>)
    @@ Beside(Modifiers, <<"Shift", "Shift", "Control", "Control", "Alt", "Alt">>)
    @@ Beside(Metas, <<"Meta", "Meta">>)
    @@ Itself(<<"Enter", "Escape", "Backspace", "Tab", "Space", "CapsLock", "Delete">>)
    @@ [NumpadEnter |-> "Enter"]

\* from_rdev_key: what rdev names like the protocol, what it names otherwise,
\* and the keys without a name, by their X11 code, which is a byte, or by none.
RdevKeys ==
    Itself(FRow) @@ Itself(Digits) @@ Itself(Metas)
    @@ Itself(SubSeq(Modifiers, 1, 4)) @@ Itself(SubSeq(Navigation, 1, 4))
    @@ Itself(<<"Escape", "Backspace", "Tab", "Space", "CapsLock", "Insert", "Delete",
                "Minus", "Equal", "Semicolon", "Quote", "Backquote", "Comma", "Slash",
                "Backslash", "PrintScreen", "ScrollLock", "Pause", "NumLock">>)
    @@ Beside([i \in 1 .. 26 |-> "Key" \o Letters[i]], Letters)
    @@ Beside([i \in 1 .. 10 |-> "Kp" \o ToString(i - 1)], Numpad)
    @@ [Alt |-> "AltLeft", AltGr |-> "AltRight", Return |-> "Enter", Dot |-> "Period",
        LeftArrow |-> "ArrowLeft", RightArrow |-> "ArrowRight",
        UpArrow |-> "ArrowUp", DownArrow |-> "ArrowDown",
        LeftBracket |-> "BracketLeft", RightBracket |-> "BracketRight",
        KpPlus |-> "NumpadAdd", KpMinus |-> "NumpadSubtract",
        KpMultiply |-> "NumpadMultiply", KpDivide |-> "NumpadDivide",
        KpReturn |-> "NumpadEnter"]
    @@ Beside([n \in 1 .. 255 |-> "Unknown" \o ToString(n)], [n \in 1 .. 255 |-> RawKey(n)])
    @@ [k \in {"KpDelete", "Function", "IntlBackslash"} |-> RawKey(0)]
-----------------------------------------------------------------------------
(***************************************************************************)
(* What the tables promise together.                                       *)
(***************************************************************************)
\* The code a code stands for: Windows' sideless modifiers count as left ones.
Sided(vk) == IF vk \in 16 .. 18 THEN 160 + 2 * (vk - 16) ELSE vk

\* On a Windows client: a key of a Windows host presses the same key, whichever
\* it is, named or not; what one machine injects another would capture as the
\* same portable key, so the two Enter keys stay apart; and no two keys of an
\* X11 host that have names press the same key (keymap_win.rs: "makes a key
\* pressed on any OS land on the right Windows key and vice-versa").
KeysArrive ==
    /\ \A vk \in VkCodes, extended \in BOOLEAN :
          WindowsKey(KeyForVk(vk, extended)).vk = Sided(vk)
    /\ \A k \in NamedKeys : KeyForVk(VkTable[k], k \in Extended) = k
    /\ LET named == {k \in DOMAIN RdevKeys : RdevKeys[k] \in NamedKeys}
       IN  IsInjective([k \in named |-> WindowsKey(RdevKeys[k])])
-----------------------------------------------------------------------------
(***************************************************************************)
(* What a comment says, and the code does not do.                          *)
(***************************************************************************)
\* A native code without a portable name presses nothing on another system
\* (protocol.rs, Raw: "same-OS fallback only"): on a Windows client an X11 code
\* is pressed as the virtual key that happens to have its number.
RawStaysHome ==
    \A k \in DOMAIN RdevKeys :
        RdevKeys[k] \notin NamedKeys => WindowsKey(RdevKeys[k]).vk \notin Range(VkTable)
=============================================================================
