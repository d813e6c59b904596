SPECIFICATION Spec
CONSTANTS
    MaxSteps = 4
    MaxToolCalls = 5
    MaxPlannerRetries = 1
    MaxSqlApprovals = 1
    StructuredTools = {"get_occupancy_trend", "get_report_periods",
        "get_latest_property_kpis", "get_rent_by_unit_type",
        "get_vacant_units", "get_charge_breakdown"}
    ForeignTool = "drop_tables"
    MaxArgument = 2
    MaxResults = 2
    DefaultResults = 1
    MaxCallsProposed = 2
    MaxQueriesProposed = 2
    MaxStatementFaults = 1
INVARIANTS
    TypeOK
    AnswersRestOnEvidence
    YearsAreChecked
    CitationsAreStored
PROPERTIES
    TurnEnds
