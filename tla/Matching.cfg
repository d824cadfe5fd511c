SPECIFICATION MatchSpec
CONSTANTS
    Prerelease = {1, 3}
    Huge = 10
    Wrap = 16
    Lines <- MCLines
    AliasFiles <- MCAliasFiles
    Packages <- MCPackages
    SocketSets <- MCSocketSets
    VersionStems = {"9"}
    NoiseStems = {"x64"}
    Nothing = Nothing
    MaxLines = 2
    MaxPackages = 2
    MaxNames = 1
INVARIANTS FindingsExact ResolvesToLongest ReportAddsUp
CHECK_DEADLOCK FALSE
