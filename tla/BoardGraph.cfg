\* One scraper and one seeder over two companies, while trades arrive.
SPECIFICATION Spec
CONSTANTS
    ali = ali
    eda = eda
    ALI = ALI
    Ali = Ali
    EDA = EDA
    c1 = c1
    c2 = c2
    c3 = c3
    Person = {ali, eda}
    Name = {ALI, Ali, EDA}
    Norm <- Normalized
    Company = {c1, c2, c3}
    Known = {c2}
    Generic = {c2, c3}
    Day = {1, 2}
    Trade <- SmallTrades
    Pages <- SmallPages
INVARIANTS
    BoardIsOnePage
    ClosedOnlyForBoard
PROPERTIES
    TraderHistoryGrows
    BoardSupersedes
