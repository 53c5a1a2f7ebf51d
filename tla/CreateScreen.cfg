\* Two candidates, a lookup with two answers, one name typed or made elsewhere.
SPECIFICATION FairSpec
CONSTANTS
    main = main
    topic = topic
    trunk = trunk
    Refs = {main, topic, trunk}
    NoRef = NoRef
    Blank = Blank
    NameOf <- NamesOfRefs
    First <- Opening
    Later <- Lists
    Queries <- QuerySets
    Typed <- TypedNames
    MaxTyped = 1
INVARIANTS BaseFetched BaseAsConfirmed HighlightHonest SuggestionFollows
PROPERTIES WaitEnds PopupCloses
CHECK_DEADLOCK FALSE
