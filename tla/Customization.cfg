CONSTANTS
    Roots <- MCRoots
    Tools = {}
    Hidden = {}
    Global = {}
    Skills <- MCSkills
    Content <- MCContent
    Fold <- MCFold
    PartyAlias <- MCPartyAlias
    ForgeAlias <- MCForgeAlias
    ModuleOrder <- MCModuleOrder
    PartySkill = "party"
    PartyRoots = {"c"}
    Defaults <- MCDefaults
    StartFolders <- MCStartDisks
    Base <- MCBase
    Written <- MCWritten
    BaseName <- MCBaseName
    Nicknames <- MCNicknames
    Central <- MCCentral
    OfferedGroups <- MCOffered
    OwnGroups <- MCOwnGroups
    Calls <- MCCalls
    Rows <- MCRows
    MaxItems = 2
    MaxChanges = 4
SPECIFICATION CustomSpec
CHECK_DEADLOCK FALSE
INVARIANTS
    NearestWins
    RoomKeepsItsAgents
    RoomsAgree
    CatalogsAgree
