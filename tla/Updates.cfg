\* Three builds, the second with a file more, on all platforms, with renames that work
\* or do not; two failed operations or crashes.
SPECIFICATION FairSpec
CONSTANTS
    exe = exe
    lib = lib
    None = None
    Files = {exe, lib}
    Exe = exe
    FilesOf <- Contents
    Builds = {1, 2, 3}
    Platforms = {"linux", "macos", "windows"}
    MaxFaults = 2
    MaxRequests = 1
CHECK_DEADLOCK FALSE
INVARIANTS UndoPossible BannerIsTrue
PROPERTY NothingHangs
