----------------------------- MODULE MCCuration -----------------------------
(* One resource.  At first it is a coloring page for ages 4-7, by its       *)
(* title; with technical metadata it is a book for Sunday school as well.   *)
(* Later it is a worksheet that only its form places.                       *)
EXTENDS CurationProperties, TLC

CONSTANTS r1, a, b

Hit(d, x, c) == [dim |-> d, term |-> x, conf |-> c]

MCRules == << Hit("content-form", "coloring-page", 92), Hit("content-form", "worksheet", 50),
              Hit("audience", "ages-4-7", 90), Hit("program-use", "sunday-school", 90),
              Hit("topic", "Krishna", 88), Hit("topic", "krishna", 88) >>

MCMatched ==
    [k \in (1..2) \X (0..2) |->
        CASE k = <<1, 0>>  -> {1, 2, 3, 5, 6}
          [] k[1] = 1      -> {1, 2, 3, 4, 5, 6}
          [] OTHER         -> {2, 6}]

MCSingle   == {"content-form", "audience"}
MCMultiple == {"program-use", "topic"}
MCFallback ==
    [d \in MCSingle \cup MCMultiple |->
        IF d = "program-use" THEN {Hit(d, "general-reference", 45)}
        ELSE IF d = "topic" THEN {Hit(d, "devotional-practice", 40)}
        ELSE {Hit(d, "unknown", 30)}]
MCOpportunity == [f \in {"coloring-page", "worksheet"} |->
                     IF f = "worksheet" THEN "activity-candidate" ELSE "printable-candidate"]
MCPrograms ==
    {[key |-> "school", term |-> "sunday-school", lo |-> 5, hi |-> 12, forms |-> {"worksheet"},
      version |-> "programs-v1"],
     [key |-> "toddlers", term |-> "toddler-class", lo |-> 3, hi |-> 5,
      forms |-> {"coloring-page", "worksheet"}, version |-> "programs-v1"]}
MCAgeBand    == [x \in {"ages-4-7"} |-> <<4, 7>>]
MCCollection == [f \in {"coloring-page"} |-> "printables-coloring"]
MCTypes      == {"printable-candidate", "activity-candidate"}
MCBase       == [x \in {"Krishna", "krishna", "devotional-practice"} |-> x]
MCFolded     == [x \in {"Krishna", "krishna", "devotional-practice"} |->
                    IF x = "Krishna" THEN "krishna" ELSE x]
MCFacts      == 1..2

MCTerminals == {a, b}
MCSymmetry  == Permutations(MCTerminals)
=============================================================================
