------------------------------ MODULE TxDialog ------------------------------
(***************************************************************************)
(* The dialog that has a transaction confirmed and signed                  *)
(* (shared/components/tx-confirm-modal) and the way every page drives it:  *)
(* executeSwap, confirmSwap and retrySwap of the swap page, and their      *)
(* twins on the pages that add and remove liquidity.                       *)
(*                                                                         *)
(* While it is open the dialog covers the page and the header.  The        *)
(* browser's own buttons stay: a page may be left while its wallet is      *)
(* asked to sign, and what the page would do with the answer happens all   *)
(* the same.                                                               *)
(***************************************************************************)
EXTENDS WalletSession

VARIABLES
    page,        \* the page on the screen
    dialog,      \* its dialog: open, step, details, and the wallet asked to sign
    left         \* pages that were left while a wallet was asked to sign

dialogVars == <<page, dialog, left>>

Closed == [open |-> FALSE, step |-> "review", details |-> None, signer |-> None]

DialogInit == dialog = Closed /\ left = {}

Step(steps) == dialog.open /\ dialog.step \in steps

\* Nothing but the dialog can be clicked.
Covered == dialog.open

Review(details) ==
    dialog' = [open |-> TRUE, step |-> "review", details |-> details, signer |-> None]

\* cancel and dismiss: no step but that of signing has a button for it.
CloseDialog ==
    /\ Step({"review", "submitted", "error"})
    /\ dialog' = [dialog EXCEPT !.open = FALSE]
    /\ UNCHANGED <<page, left>>

\* confirm and retry: signTransaction asks the wallet of the moment, and throws
\* if there is none.
Confirm ==
    /\ Step({"review", "error"})
    /\ dialog' = [dialog EXCEPT !.step = IF wallet = None THEN "error" ELSE "signing",
                                !.signer = wallet]
    /\ UNCHANGED <<page, left>>

\* signTransaction returns, or the user declines.
Signed == Step({"signing"}) /\ dialog' = [dialog EXCEPT !.step = "submitted"]

Refused ==
    /\ Step({"signing"})
    /\ dialog' = [dialog EXCEPT !.step = "error"]
    /\ UNCHANGED <<page, left>>

\* The same for a page that is gone.
SignedLate(p) == p \in left /\ left' = left \ {p}

RefusedLate(p) ==
    /\ p \in left
    /\ left' = left \ {p}
    /\ UNCHANGED <<page, dialog>>

\* The router replaces the page; the next one has a dialog of its own.  At most
\* one page of a kind is left with a question open, a bound of the model.
GoTo(p) ==
    /\ page # p
    /\ Step({"signing"}) => page \notin left
    /\ page' = p
    /\ dialog' = Closed
    /\ left' = IF Step({"signing"}) THEN left \cup {page} ELSE left
=============================================================================
