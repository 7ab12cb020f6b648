--------------------------- MODULE MCStockScreens ---------------------------
\* Instances of StockScreens for TLC.
EXTENDS StockScreens, TLC

\* Stocks are interchangeable, as are the screens of a tab.
ScreenSymmetry ==
    Permutations(Stocks) \cup Permutations(HomeScreens) \cup Permutations(SearchScreens)
=============================================================================
