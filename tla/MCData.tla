------------------------------- MODULE MCData -------------------------------
(***************************************************************************)
(* Instance for TLC of the modules on data, which have nothing to do with  *)
(* each other: a behaviour is one of Strings, Properties, Setup or         *)
(* Requests.                                                               *)
(* A byte has 43 values of a digit, just enough for the identifiers, and   *)
(* strings have the lengths at which a list grows by a digit and a string  *)
(* out of its length.                                                      *)
(***************************************************************************)
EXTENDS Strings, Setup, Requests

\* The code points at the ends of what is refused, and of each encoded length.
MCCodePoints ==
  {0, 31, 32, 65, 126, 127, 159, 160, 2047, 2048, 55295, 55296, 57343, 57344,
   64975, 64976, 65007, 65008, 65533, 65534, 65535, 65536, 131070, 1114109,
   1114111, 1114112, 1310720}

MCNumbers == {0, 1, 2, Base, Base * Base * Base * Base - 1}

Letters(n) == [i \in 1..n |-> 65]
MCTexts == {<<>>, <<65>>, <<Malformed>>, Letters(Base - 3), Letters(LengthWidth)}

\* Nothing, a property, the start of one.
MCTails == {<<>>, <<1, 0>>, <<31, 0>>}

MCIds == {NoString, <<>>, <<65>>, <<Malformed>>, Letters(LengthWidth)}
MCUsernames == {NoString, <<65>>, Letters(LengthWidth)}
MCPasswords == {NoString, <<66>>}
MCWillTopics == {<<65>>, <<43>>}
MCWillPayloads == {<<>>, Letters(3)}
Numbered(id, n) == [Property(id, TRUE) EXCEPT !.num = n]
MCWillLists == {<<>>, <<Numbered(24, 1)>>}
MCConnectLists == {<<>>, <<Numbered(33, 7), Numbered(17, 1)>>, <<Numbered(24, 1)>>}
MCConnackLists ==
  {<<>>, <<Numbered(37, 0), Numbered(19, 9)>>, <<[Property(18, FALSE) EXCEPT !.str = <<66>>]>>}
MCOptionValues == {3, 5, Width16}
MCKeepalives == {4, 60}
MCPorts == {1883, Width16}

MCFilters ==
  {<<>>, <<<<65>>>>, <<<<43>>, Letters(3), <<>>>>, <<<<65, 35>>>>, <<Letters(3), <<Malformed>>>>,
   <<Letters(LengthWidth - 1), Letters(LengthWidth)>>}
MCSubscribeOptions == {0, 1, 44, 48, 64}
Pair(s) == [Property(38, TRUE) EXCEPT !.str = s, !.name = <<65>>]
Reason(s) == [Property(31, TRUE) EXCEPT !.str = s]
MCRequestLists ==
  {<<>>, <<Numbered(11, 1)>>, <<Pair(Letters(Base - 3)), Numbered(11, Base)>>, <<Numbered(33, 1)>>,
   <<[Pair(<<66>>) EXCEPT !.client = FALSE], Numbered(33, 1)>>}
MCAnswerLists == {<<>>, <<Reason(<<66>>)>>, <<Pair(Letters(Base - 3)), Reason(<<66>>)>>}
MCCodes == {<<>>, <<1>>, <<2, 0, 128>>}
MCPacketSizes == {0, 15, 60}
MCMids == {0, Width16 - 2}

\* A behaviour stays with the module that made its first step.
InStrings == sub # <<>> \/ topic # <<>> \/ str # <<>>
InLists == given # <<>>
InSetup == called.n > 0 \/ client.id # NoString
InRequests == request # None \/ answer # None \/ simple # None \/ conn # NewConn

Init == StringsInit /\ ListsInit /\ SetupInit /\ RequestsInit

Next ==
  \/ /\ ~InLists /\ ~InSetup /\ ~InRequests
     /\ StringsNext /\ UNCHANGED <<listVars, setupVars, requestVars>>
  \/ /\ ~InStrings /\ ~InSetup /\ ~InRequests
     /\ ListsNext /\ UNCHANGED <<stringVars, setupVars, requestVars>>
  \/ /\ ~InStrings /\ ~InLists /\ ~InRequests
     /\ SetupNext /\ UNCHANGED <<stringVars, listVars, requestVars>>
  \/ /\ ~InStrings /\ ~InLists /\ ~InSetup
     /\ RequestsNext /\ UNCHANGED <<stringVars, listVars, setupVars>>

Spec == Init /\ [][Next]_<<stringVars, listVars, setupVars, requestVars>>
=============================================================================
