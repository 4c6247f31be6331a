---------------------------- MODULE MCTransferUi ----------------------------
(* The instances TLC checks of TransferUi: what the user may type at once. *)
EXTENDS TransferUi

Start == <<"esc", "u">>
Enter == <<"enter">>

\* The operations one by one, the keys that leave a prompt, a field that comes
\* with the key that ends it, a field with its cancellation, and a selector
\* with the first byte of the path.
Typing == {Start, Enter, <<"x">>, <<"x", "enter">>, <<"ctrlc">>, <<"esc", "?">>,
           <<"esc", ".">>, <<"enter", "ctrlc">>, <<"esc", "u", "x">>}
=============================================================================
