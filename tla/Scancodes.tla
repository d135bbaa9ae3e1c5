------------------------------ MODULE Scancodes ------------------------------
(***************************************************************************)
(* The six arrays of src/kernel/keyboard.c: the character of each make     *)
(* code in each layout and layer, "" for the zero of a code without one.   *)
(* A layer is what the keys without letters give in every layer, and the   *)
(* rows of the others: digits, the two rows below, the key next to Enter,  *)
(* the bottom row and the key that only ABNT2 keyboards have.              *)
(***************************************************************************)
EXTENDS Integers, Sequences, TLC

NoChar == ""

Row(first, chars) == [i \in first .. first + Len(chars) - 1 |-> chars[i - first + 1]]
Blank(n) == [i \in 1 .. n |-> NoChar]

\* Backspace, Tab, Enter, the numeric pad's *, - and +, the space bar.
EveryLayer ==
  (14 :> "BS") @@ (15 :> "TAB") @@ (28 :> "NL") @@ (55 :> "*") @@ (57 :> " ")
    @@ (74 :> "-") @@ (78 :> "+") @@ Row(0, Blank(128))

Layer(esc, digits, upper, home, hash, bottom, extra) ==
  Row(1, <<esc>>) @@ Row(2, digits) @@ Row(16, upper) @@ Row(30, home)
    @@ Row(43, <<hash>>) @@ Row(44, bottom) @@ Row(115, <<extra>>) @@ EveryLayer

Digits == <<"1", "2", "3", "4", "5", "6", "7", "8", "9", "0", "-", "=">>
Upper  == <<"q", "w", "e", "r", "t", "y", "u", "i", "o", "p">>
Home   == <<"a", "s", "d", "f", "g", "h", "j", "k", "l">>
Bottom == <<"z", "x", "c", "v", "b", "n", "m">>

UpperShift  == <<"Q", "W", "E", "R", "T", "Y", "U", "I", "O", "P">>
HomeShift   == <<"A", "S", "D", "F", "G", "H", "J", "K", "L">>
BottomShift == <<"Z", "X", "C", "V", "B", "N", "M">>

UsNormal ==
  Layer("ESC", Digits, Upper \o <<"[", "]">>, Home \o <<";", "'", "grave">>, "backslash",
        Bottom \o <<",", ".", "/">>, NoChar)

UsShift ==
  Layer("ESC", <<"!", "@", "#", "$", "%", "^", "&", "*", "(", ")", "_", "+">>,
        UpperShift \o <<"{", "}">>, HomeShift \o <<":", "quote", "~">>, "|",
        BottomShift \o <<"<", ">", "?">>, NoChar)

UsAltGr ==
  Layer(NoChar, Blank(12), <<"@">> \o Blank(9) \o <<"{", "}">>, Blank(12), "|",
        Blank(5) \o <<"~">> \o Blank(4), NoChar)

Abnt2Normal ==
  Layer("ESC", Digits, Upper \o <<"'", "[">>, Home \o <<"c cedilla", "~", "'">>, "]",
        Bottom \o <<",", ".", ";">>, "/")

Abnt2Shift ==
  Layer("ESC", <<"!", "@", "#", "$", "%", NoChar, "&", "*", "(", ")", "_", "+">>,
        UpperShift \o <<"grave", "{">>, HomeShift \o <<"C cedilla", "^", "quote">>, "}",
        BottomShift \o <<"<", ">", ":">>, "?")

Abnt2AltGr ==
  Layer(NoChar, Blank(12), Blank(10) \o <<"~", "~">>, Blank(12), "|", Blank(10), NoChar)

\* c ^= 0x20 on the letters of ASCII: c with cedilla is none of them.
Flip(c) ==
  LET small   == Upper \o Home \o Bottom
      capital == UpperShift \o HomeShift \o BottomShift
  IN  IF \E i \in DOMAIN small : c = small[i]
      THEN capital[CHOOSE i \in DOMAIN small : c = small[i]]
      ELSE IF \E i \in DOMAIN capital : c = capital[i]
      THEN small[CHOOSE i \in DOMAIN capital : c = capital[i]]
      ELSE c
==============================================================================
