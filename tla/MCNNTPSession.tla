---------------------------- MODULE MCNNTPSession ----------------------------
(***************************************************************************)
(* A reader, a poster without a password, and three configurations.        *)
(***************************************************************************)
EXTENDS NNTPSession

CONSTANTS reader, poster

MCAccounts == {reader, poster}
MCPrivOf == [u \in MCAccounts |-> IF u = reader THEN {"r"} ELSE {"r", "w"}]

Config(users, unsafePass, early, withTLS) ==
    [users |-> users, unsafePass |-> unsafePass, early |-> early, tls |-> withTLS]
MCConfigs == {Config(TRUE, TRUE, FALSE, TRUE), Config(TRUE, FALSE, TRUE, TRUE),
              Config(FALSE, FALSE, FALSE, FALSE)}

\* A plain article; one of parts whose last buffer reaches past its end.
Plain == [lines |-> 2, ending |-> 0]
Parts == [lines |-> 3, ending |-> 3]
\* Parts that end with the buffer while more text follows; too long a text.
Epilogue == [lines |-> 3, ending |-> 2]
Long == [lines |-> 4, ending |-> 0]

MCTexts == {Plain, Parts}
MCAnyTexts == {Plain, Parts, Epilogue, Long}
=============================================================================
