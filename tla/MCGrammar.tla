------------------------------ MODULE MCGrammar ------------------------------
(* The texts of the two protocols that are read element by element: the     *)
(* arguments of FETCH, strings and the answer to EHLO, one in a behaviour.  *)
EXTENDS FetchGrammar, StringGrammar, Ehlo

MCSetTokens  == {"0", "1", "*", ":", ",", " "}
MCItemTokens == {" ", "(", ")", "FLAGS", "BODY", "ALL"}

NoFetch  == typing = "nothing" /\ setText = <<>> /\ itemText = <<>>
NoAnswer == /\ answer = <<>> /\ unread = <<>> /\ printed = {}
            /\ got = Nothing /\ result = "idle"

Init ==
    /\ StringsInit
    /\ \/ (GrammarInit \/ NoFetch) /\ NoAnswer
       \/ EhloInit /\ NoFetch

Next ==
    \/ FetchNext /\ UNCHANGED <<wanted, ehloVars>>
    \/ typing = "nothing" /\ result = "idle" /\ WantMore /\ UNCHANGED <<grammarVars, ehloVars>>
    \/ EhloNext /\ UNCHANGED <<grammarVars, wanted>>

Spec == Init /\ [][Next]_<<grammarVars, wanted, ehloVars>>
=============================================================================
