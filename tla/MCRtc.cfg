SPECIFICATION Spec
CONSTANTS Settings <- MCSettings
          BuildTimes <- MCBuildTimes
          Window <- MCWindow
INVARIANTS TypeOK Elapsed
PROPERTY IsCalendar
