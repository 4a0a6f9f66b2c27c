--------------------------- MODULE MCEvaluationFlow ---------------------------
(* An instance of EvaluationFlow for TLC.                                    *)
EXTENDS EvaluationFlow

CONSTANTS PromptA, PromptB

AnyPrompt == Permutations({PromptA, PromptB})

(* The words of the examples, the ids of the server, and texts that exceed  *)
(* one bound each; whatever has no width here is one character.             *)
Words ==
    "local-e2e" :> 9 @@ "example" :> 7 @@ "v1" :> 2 @@ "input-wizard" :> 12 @@ "chat" :> 4 @@
    "chat-eval-first-turn" :> 20 @@ "chat-eval-follow-up" :> 19 @@ "evaluation" :> 10 @@
    "evaluation-chat-turn" :> 20 @@ "evaluation-external" :> 19 @@ "haiku" :> 5 @@ "opus" :> 4 @@
    "chat_" :> 5 @@ "eval_" :> 5 @@ "abc" :> 3 @@ "response_" :> 9 @@ "tail" :> 131 @@
    "example-external-answer-v1" :> 26 @@ "long" :> 101 @@ "Long" :> 101
Texts ==
    "huge" :> 20001 @@ "treatise" :> 40001 @@ "better" :> 9 @@ "answer" :> 9 @@ PromptA :> 9 @@ PromptB :> 9 @@
    "first_message" :> 9 @@ "follow_up_message" :> 9 @@ "question" :> 9 @@ "reply" :> 9
Digit == <<"1", "2", "3", "4", "5", "6", "7", "8", "9">>

MCSymbols == DOMAIN Words \cup DOMAIN Texts \cup Range(Digit) \cup {"-", " ", "!"}
MCWidth == Words @@ Texts @@ [s \in MCSymbols |-> 1]
MCLowerCase == [s \in MCSymbols |-> IF s = "Long" THEN "long" ELSE s]
MCSpaces == {" "}
MCSafe == MCSymbols \ (DOMAIN Texts \cup {" ", "!"})

MCFreshIds == <<<<"local-e2e", "-", "1">>, <<"local-e2e", "-", "2">>, <<"local-e2e", "-", "3">>>>
MCChatIds == [i \in 1 .. 9 |-> <<"chat_", "abc", Digit[i]>>]
MCEvaluationIds == [i \in 1 .. 9 |-> <<"eval_", "abc", Digit[i]>>]

(* A usual turn; and, for the operation that is most often the last chat of *)
(* a program, turns on which the next step stumbles.                        *)
Outcome(answer, turnId, responseId, named) ==
    [answer |-> answer, turnId |-> turnId, responseId |-> responseId, named |-> named]
Usual(i) == Outcome(<<"answer">>, <<Digit[i]>>, <<"response_", Digit[i]>>, "id")
MCChatOutcomes == [i \in 1 .. 9 |->
    {Usual(i)} \cup
    IF i # 2 THEN {}
    ELSE {Outcome(<<"treatise">>, <<"2">>, <<"response_", "tail">>, "none"),
          Outcome(<<"answer">>, <<"2">>, <<"response_", "long", "tail">>, "none"),
          Outcome(<<"answer">>, <<>>, <<"response_">>, "ids")}]
MCShapes == [input_wizard |-> {"flat"}, chat |-> {"nested"}, evaluate |-> {"flat", "untyped"}]

MCRunIds == {<<>>, <<"long">>, <<" ", "Long", "!">>}
MCPrompts == {<<PromptA>>, <<PromptB>>}
Model(id, available) == [id |-> id, is_available |-> available]
MCModelLists == {<<>>, <<Model(<<"long", "tail">>, TRUE)>>,
                 <<Model(<<"opus">>, TRUE), Model(<<"haiku">>, TRUE)>>,
                 <<Model(<<"opus">>, TRUE), Model(<<"haiku">>, FALSE)>>}
MCOptimized == {<<"better">>, <<"huge">>}

-----------------------------------------------------------------------------
(* The normalisation of key parts, over all short texts: one pass over the  *)
(* text makes what replacing every unsafe run at once does, and it stays.   *)
ShortTexts == BoundedSeq({"Long", "-", " ", "!", "1"}, 4)

AtOnce(s) ==
    LET kept  == {i \in DOMAIN s : s[i] \in Safe \/ i = 1 \/ s[i - 1] \in Safe}
        order == SetToSortSeq(kept, <)
    IN  [k \in DOMAIN order |-> IF s[order[k]] \in Safe THEN s[order[k]] ELSE "-"]

ASSUME DashedAtOnce == \A s \in ShortTexts : Dashed(s) = AtOnce(s)

(* The instance picks its ids as the theorem about reruns asks.             *)
ASSUME KeysAreApart == KeysApart

ASSUME NormalizedStays ==
    \A s \in ShortTexts :
        /\ Normalized(Normalized(s)) = Normalized(s)
        /\ Joined(<<s, V1>>) = Joined(<<Normalized(s), V1>>)
        /\ ValidKey(Joined(<<s, V1>>)) \/ Length(s) > 250
===============================================================================
