------------------------- MODULE MCDocumentExtraction -------------------------
(***************************************************************************)
(* Instances of DocumentExtraction for TLC: two holders and their pages,   *)
(* and a photograph that may be put in the place of the first.             *)
(***************************************************************************)
EXTENDS DocumentExtraction

\* A number with filler at its end and all the blind pairs' characters; dates
\* with the digits that are read as Z and digits five apart.
Erika == [surname |-> <<"M", "O", "E">>, given |-> <<"E", "R", "I", "<", "A", "N">>,
          number |-> <<"A", "0", "1", "6", "Z", "7", "B">>, nationality |-> <<"U", "T", "O">>,
          birth |-> <<1983, 2, 27>>, expiry |-> <<2032, 7, 13>>, sex |-> "F"]

\* A name that leaves four characters of filler, a nationality with filler of
\* its own, no filler in the number, and a birth in the current year.
Dieter == [surname |-> <<"S", "C", "H", "W", "A", "R", "Z", "E", "N", "B", "E", "R", "G", "E", "R">>,
           given |-> <<"D", "I", "E", "T", "E", "R", "<", "M", "A", "X", "I", "M", "I", "L",
                       "I", "A", "N", "O">>,
           number |-> <<"C", "0", "1", "X", "0", "0", "6", "T", "4">>,
           nationality |-> <<"D", "<", "<">>,
           birth |-> <<2026, 1, 5>>, expiry |-> <<2029, 2, 28>>, sex |-> "M"]

MCIdentities == {Erika, Dieter}
MCStateCodes == {<<"U", "T", "O">>, <<"D", "<", "<">>}

\* The check-digit fields of line 2 and the composite digit.
MCMisreadAt == {2} \X (ToSet(NumberField) \cup ToSet(BirthField) \cup ToSet(ExpiryField) \cup {44})

\* A misread document number, which sends the page to the model.
MCRetriedWith == {[line |-> 2, at |-> 3, as |-> "I"]}

\* Another holder's page, or the same page once more.
MCOtherPhotos == {[of |-> Dieter, misread |-> {}]}

\* What the model may make up: another date of birth and number.
MCVlmMistake == [Truth(Erika) EXCEPT !.birth = <<1988, 2, 27>>, !.number = <<"A", "0">>]
==============================================================================
