----------------------------- MODULE MC_Keyboard -----------------------------
(* The keystroke path with a ring of 3 entries and indices modulo 6: the    *)
(* ratio 2 of the 8-bit indices to KBD_BUF_SIZE = 128, scaled down.        *)
EXTENDS Keyboard

MCBufSize == 3
MCIdxMod == 6

\* The used entries of keymap and keymap_shift: 'a', backspace, Enter.
MCKeyMap == [c \in 0 .. 127 |->
               CASE c = \h1E -> 97 [] c = \h0E -> 8 [] c = \h1C -> 10
                 [] OTHER -> 0]
MCKeyMapShift == [c \in 0 .. 127 |->
               CASE c = \h1E -> 65 [] c = \h0E -> 8 [] c = \h1C -> 10
                 [] OTHER -> 0]

\* usb_to_scancode on usage 4 ('a') and 0x51 (Down arrow).
MCUsbToScancode == (4 :> \h1E) @@ (\h51 :> \h50)

\* Typing: 'a', Enter and backspace on either keyboard.
MCPs2Typing == {<<\h1E>>, <<\h1C>>, <<\h0E>>}
MCReportsTyping == {[mods |-> {}, keys |-> <<>>], [mods |-> {}, keys |-> <<4>>]}

\* With Ctrl and the extended Down arrow.
MCPs2Ctrl == {<<\h1E>>, <<\h1D>>, <<\h9D>>, <<\hE0, \h50>>, <<\hE0, \hD0>>}
MCReportsArrow == {[mods |-> {}, keys |-> <<>>],
                   [mods |-> {}, keys |-> <<\h51>>]}
=============================================================================
