\* One request after another, over every input of the instance.
CONSTANTS
    VCS_DIRS <- MCVcs
    SIDECAR_NAMES <- MCSidecars
    Notices <- MCNotices
    TextNames <- MCTextNames
    Control = {"control"}
    NotUtf8 = {"bytes"}
    Composed <- MCComposed
    NUL_SCAN = 2
    Name <- MCName
    Word <- MCWord
    Trees <- MCTrees
    ItemKinds = {"skill", "agent"}
    ProviderContents <- MCContents
    entry_file <- MCEntry
    KINDS = {"hook", "skill", "rule", "command", "agent", "mcp_config", "pack"}
    FRONTMATTER_KINDS = {"skill", "rule", "command", "agent"}
    ENVELOPE_KEYS = {"kind", "id", "display_name", "version", "description", "pack_id"}
    FORBIDDEN_FIELDS = {"effective_version", "derived_version", "pack_inherited_version", "resolved_version"}
    Yaml <- MCYaml
    MAX_DEPTH = 2
    BadParts = {"", ".", ".."}
    Drives = {"c:"}
    HOOK_NATIVES <- MCNatives
    SortedEvents <- MCSorted
    PinnedEvents <- MCPinnedEvents
    HOOK_DIALECTS <- MCDialects
    HOOK_RENDER_PINS <- MCPins
    install_entry_points <- MCMatrix
    HookSources <- MCSources
    Selections <- MCSelections
    Renders <- MCRenders
    Installs <- MCInstalls
    Resolves <- MCResolves
    Url <- MCUrl
    Secure <- MCSecure
    Normal <- MCNormal
    NoForm = "no form"
    MaxRedirects = 3
SPECIFICATION Spec
INVARIANTS AdapterTypeOK BodyVerdict HashExact SingleCoverage ScriptsKept RenderBack DisclosedInstall OneWriteTarget RecordRule VerdictExact
