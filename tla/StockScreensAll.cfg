SPECIFICATION Spec
CONSTANTS
    Stocks = {k1, k2}
    None = None
    HomeScreens = {h1, h2}
    SearchScreens = {r1}
CHECK_DEADLOCK FALSE
SYMMETRY ScreenSymmetry
INVARIANTS
    TypeOK
    LogoIsOwn
    RestShowsLogo
