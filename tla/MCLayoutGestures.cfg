CONSTANTS
    Source = Source
    Scopes = Scopes
    Repl = Repl
    Panels <- ThePanels
    DefaultPanels <- TheDefaults
    MaxId = 8
SPECIFICATION GestureSpec
\* One pane that holds every panel offers nothing to do when MaxId stops it from growing.
CHECK_DEADLOCK FALSE
INVARIANTS
    GestureTypeOK
    GesturesAreLive
    OneTree
    PanelsInOnePane
PROPERTIES
    RearrangesLayout
    PanelsSurvive
