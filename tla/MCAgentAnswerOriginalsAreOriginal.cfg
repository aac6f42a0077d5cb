SPECIFICATION Spec
CONSTANTS
    Filings <- KnownFilings
    Evidence <- KnownEvidence
    FinancialRows <- OverlayRows
    EventRows <- DisclosedEvents
    Hits <- DenseHits
    Settings <- ServingSettings
    Questions <- AskedQuestions
    Dimensions <- AnalysisRules
    Judgments <- JudgedQuestions
    Accounts <- CatalogAccounts
    Requests <- ToolCalls
    Space = "_"
    Endings <- KnownEndings
    Digits = {"1"}
    Letters = {"z"}
    Catalog <- SmallCatalog
    Characters = {"a", "b", "c", "e", "z", "1", "_"}
    Texts <- ShortTexts
    MaxEvidence = 2
    MaxDense = 3
    MaxQuestions = 2
    MaxSlotEvidence = 2
    MaxTotalEvidence = 3
INVARIANT OriginalsAreOriginal
CHECK_DEADLOCK FALSE
